------------------------ MODULE PlainTransfer_proofs ------------------------
(***************************************************************************)
(* Proofs about PlainTransfer, for any number of accounts, transfers,      *)
(* failures, late transactions and kills: what a caller is answered and    *)
(* what the notifications tell is true of the chain, unless the end of the *)
(* transfer was decided without a receipt.                                 *)
(***************************************************************************)
EXTENDS PlainTransfer, SequenceTheorems, FiniteSetTheorems, TLAPS

\* What is known of one transfer speaks of that transfer's state only.
LEMMA StepInvFrame ==
  ASSUME NEW u \in Transfers, StepInv(u),
         step'[u] = step[u], tx'[u] = tx[u], request'[u] = request[u],
         answer'[u] = answer[u], published'[u] = published[u],
         u \in misjudged' <=> u \in misjudged
  PROVE  StepInv(u)'
PROOF
  BY DEF StepInv, Unsent, Valid

\* The initial states satisfy the invariant.
LEMMA InitSteps == Init => StepsInv
PROOF
  <1>1. SUFFICES ASSUME Init PROVE StepsInv
    OBVIOUS
  <1>2. TypeOK
    BY <1>1, PlainTransferAssumption DEF Init, TypeOK, TxStates, Answers
  <1>3. \A t \in Transfers : StepInv(t)
    BY <1>1 DEF Init, StepInv, Unsent
  <1>4. QED BY <1>2, <1>3 DEF StepsInv

\* A step that moves transfer t alone.
LEMMA OneTransfer ==
  ASSUME StepsInv, NEW t \in Transfers, TypeOK', StepInv(t)',
         \A u \in Transfers \ {t} :
           /\ step'[u] = step[u] /\ tx'[u] = tx[u] /\ request'[u] = request[u]
           /\ answer'[u] = answer[u] /\ published'[u] = published[u]
           /\ u \in misjudged' <=> u \in misjudged
  PROVE  StepsInv'
PROOF
  <1>1. ASSUME NEW u \in Transfers PROVE StepInv(u)'
    <2>1. CASE u = t
      BY <2>1
    <2>2. CASE u # t
      BY <2>2, StepInvFrame DEF StepsInv
    <2>3. QED BY <2>1, <2>2
  <1>2. QED BY <1>1 DEF StepsInv

\* Failures stay within their bound.
LEMMA FaultBound ==
  ASSUME TypeOK, Fault \/ NoFault
  PROVE  faults' \in 0..MaxFaults /\ UNCHANGED <<lates, crashes>>
PROOF
  BY PlainTransferAssumption DEF TypeOK, Fault, NoFault, bounds

\* Stories that go on by one notification, and how they end.
LEMMA Stories ==
  ASSUME NEW j \in Kinds, NEW k \in Kinds
  PROVE  /\ Append(<<>>, k) = <<k>> /\ Append(<<j>>, k) = <<j, k>>
         /\ <<k>>[Len(<<k>>)] = k /\ <<j, k>>[Len(<<j, k>>)] = k
PROOF
  <1>1. Append(<<>>, k) = <<k>>
    OBVIOUS
  <1>2. Append(<<j>>, k) = <<j, k>>
    <2>1. /\ <<j>> \in Seq(Kinds) /\ Len(<<j>>) = 1
          /\ <<j, k>> \in Seq(Kinds) /\ Len(<<j, k>>) = 2
      OBVIOUS
    <2>2. /\ Append(<<j>>, k) \in Seq(Kinds) /\ Len(Append(<<j>>, k)) = 2
          /\ Append(<<j>>, k)[1] = j /\ Append(<<j>>, k)[2] = k
      BY <2>1, AppendProperties
    <2>3. \A i \in 1..2 : Append(<<j>>, k)[i] = <<j, k>>[i]
      BY <2>2
    <2>4. QED BY <2>1, <2>2, <2>3, SeqEqual
  <1>3. <<k>>[Len(<<k>>)] = k
    OBVIOUS
  <1>4. <<j, k>>[Len(<<j, k>>)] = k
    OBVIOUS
  <1>5. QED BY <1>1, <1>2, <1>3, <1>4

-----------------------------------------------------------------------------
(* The chains.                                                             *)

\* Nobody's balance falls below zero.
LEMMA BalanceType ==
  ASSUME TypeOK, NEW t \in Transfers, request[t] \in Requests, Valid(request[t]), Payable(t)
  PROVE  /\ PayFee(t) \in [Currencies -> [Accounts -> Nat]]
         /\ Accepted(t) => Transferred(t) \in [Currencies -> [Accounts -> Nat]]
PROOF
  <1> DEFINE P == PayFee(t)
  <1>1. /\ Currency(t) \in Currencies /\ From(t) \in Accounts /\ To(t) \in Accounts
        /\ Amount(t) \in Nat /\ From(t) # To(t) /\ Fee \in Nat
    BY PlainTransferAssumption DEF Currency, From, To, Amount, Valid
  <1>2. balance \in [Currencies -> [Accounts -> Nat]]
    BY DEF TypeOK
  <1>3. GasOf(t) \in Currencies /\ balance[GasOf(t)][From(t)] - Fee \in Nat
    BY <1>1, <1>2 DEF GasOf, Currencies, Payable, Cost
  <1>4. P = [balance EXCEPT ![GasOf(t)] =
               [balance[GasOf(t)] EXCEPT ![From(t)] = balance[GasOf(t)][From(t)] - Fee]]
    BY <1>1, <1>2, <1>3 DEF PayFee
  <1>5. P \in [Currencies -> [Accounts -> Nat]]
    BY <1>1, <1>2, <1>3, <1>4
  <1>6. ASSUME Accepted(t) PROVE Transferred(t) \in [Currencies -> [Accounts -> Nat]]
    <2>1. P[Currency(t)][From(t)] - Amount(t) \in Nat
      <3>1. CASE Currency(t) = "ST"
        <4>1. P["ST"] = balance["ST"]
          BY <1>2, <1>4, <3>1 DEF GasOf, Currencies
        <4>2. QED BY <1>1, <1>2, <1>6, <3>1, <4>1 DEF Accepted
      <3>2. CASE Currency(t) # "ST"
        <4>1. GasOf(t) = Currency(t) /\ balance[GasOf(t)][From(t)] >= Amount(t) + Fee
          BY <1>1, <3>2 DEF GasOf, Currencies, Payable, Cost
        <4>2. P[Currency(t)][From(t)] = balance[GasOf(t)][From(t)] - Fee
          BY <1>1, <1>2, <1>3, <1>4, <4>1
        <4>3. balance[GasOf(t)][From(t)] \in Nat
          BY <1>1, <1>2, <1>3
        <4>4. QED BY <1>1, <4>1, <4>2, <4>3
      <3>3. QED BY <3>1, <3>2
    <2>2. P[Currency(t)][To(t)] + Amount(t) \in Nat
      BY <1>1, <1>5
    <2>3. Transferred(t) =
            [P EXCEPT ![Currency(t)] =
               [P[Currency(t)] EXCEPT ![From(t)] = P[Currency(t)][From(t)] - Amount(t),
                                      ![To(t)] = P[Currency(t)][To(t)] + Amount(t)]]
      BY <1>1, <1>5 DEF Transferred
    <2>4. QED BY <1>1, <1>5, <2>1, <2>2, <2>3
  <1>7. QED BY <1>5, <1>6

\* A transaction is mined.
LEMMA MineStep ==
  ASSUME StepsInv, NEW t \in Transfers, Mine(t)
  PROVE  StepsInv'
PROOF
  <1>1. TypeOK /\ StepInv(t)
    BY DEF StepsInv
  <1>2. request[t] \in Requests /\ Valid(request[t])
    BY <1>1 DEF StepInv, Unsent, Mine
  <1>3. balance' \in [Currencies -> [Accounts -> Nat]]
    BY <1>1, <1>2, BalanceType DEF Mine
  <1>4. /\ tx[t] = "pending"
        /\ tx' = [tx EXCEPT ![t] = "mined"] \/ tx' = [tx EXCEPT ![t] = "reverted"]
        /\ UNCHANGED <<step, request, answer, published, misjudged, bounds>>
    BY DEF Mine
  <1>5. TypeOK'
    BY <1>1, <1>3, <1>4 DEF TypeOK, TxStates, bounds
  <1>6. StepInv(t)'
    BY <1>1, <1>4 DEF TypeOK, StepInv, Unsent, Valid
  <1>7. \A u \in Transfers \ {t} : tx'[u] = tx[u]
    BY <1>1, <1>4 DEF TypeOK
  <1>8. QED BY <1>4, <1>5, <1>6, <1>7, OneTransfer

-----------------------------------------------------------------------------
(* transfer.                                                               *)

\* A transfer is called.
LEMMA CallStep ==
  ASSUME StepsInv, NEW t \in Transfers, NEW currency, Call(t, currency)
  PROVE  StepsInv'
PROOF
  <1>1. TypeOK /\ StepInv(t) /\ step[t] = "new"
    BY DEF StepsInv, Call
  <1>2. PICK r \in Requests :
          /\ request' = [request EXCEPT ![t] = r]
          /\ \/ Valid(r) /\ Go(t, "balance") /\ UNCHANGED answer
             \/ ~Valid(r) /\ Go(t, "refused") /\ Answer(t, "error")
    BY DEF Call
  <1>3. UNCHANGED <<balance, tx, published, misjudged, bounds>>
    BY DEF Call
  <1>4. TypeOK'
    BY <1>1, <1>2, <1>3 DEF TypeOK, Go, Answer, Answers, Waiting, Ended, bounds
  <1>5. request'[t] = r /\ Unsent(t)'
    BY <1>1, <1>2, <1>3 DEF TypeOK, StepInv, Unsent
  <1>6. \/ Valid(r) /\ step'[t] = "balance" /\ answer'[t] = "none"
        \/ step'[t] = "refused" /\ answer'[t] = "error"
    BY <1>1, <1>2 DEF TypeOK, StepInv, Go, Answer
  <1>7. StepInv(t)'
    BY <1>5, <1>6 DEF StepInv
  <1>8. \A u \in Transfers \ {t} :
          step'[u] = step[u] /\ request'[u] = request[u] /\ answer'[u] = answer[u]
    BY <1>1, <1>2 DEF TypeOK, Go, Answer
  <1>9. QED BY <1>3, <1>4, <1>7, <1>8, OneTransfer

\* Before its transaction is sent, and when nothing is published, a transfer moves
\* its step and its answer.
LEMMA QuietStep ==
  ASSUME StepsInv, NEW t \in Transfers,
         \/ ValidateBalance(t) \/ ValidateBalanceFails(t) \/ EstimateGas(t)
         \/ NotMined(t) \/ SearchBreaksOff(t)
  PROVE  StepsInv'
PROOF
  <1>1. TypeOK /\ StepInv(t)
    BY DEF StepsInv
  <1>2. UNCHANGED <<balance, tx, request, published, misjudged, crashes>>
    BY DEF ValidateBalance, ValidateBalanceFails, EstimateGas, NotMined, SearchBreaksOff, Fault,
           NoFault, bounds
  <1>3. faults' \in 0..MaxFaults /\ lates' \in Nat
    <2>1. CASE NotMined(t)
      BY <1>1, <2>1, PlainTransferAssumption DEF TypeOK, NotMined
    <2>2. CASE ~NotMined(t)
      <3>1. Fault \/ NoFault
        BY <2>2 DEF ValidateBalance, ValidateBalanceFails, EstimateGas, SearchBreaksOff, NoFault
      <3>2. QED BY <1>1, <3>1, FaultBound DEF TypeOK
    <2>3. QED BY <2>1, <2>2
  <1>4. /\ \E s \in Waiting \cup Ended : Go(t, s)
        /\ (\E a \in Answers : Answer(t, a)) \/ UNCHANGED answer
    <2>1. CASE ValidateBalanceFails(t)
      <3>1. Currency(t) \in Currencies
        BY <1>1, <2>1, PlainTransferAssumption DEF StepInv, ValidateBalanceFails, Currency
      <3>2. QED BY <2>1, <3>1 DEF ValidateBalanceFails, Currencies, Ended, Answers
    <2>2. CASE ValidateBalance(t)
      BY <2>2 DEF ValidateBalance, AnswerIf, Waiting, Ended, Answers
    <2>3. CASE EstimateGas(t) \/ NotMined(t) \/ SearchBreaksOff(t)
      BY <2>3 DEF EstimateGas, NotMined, AfterNotMined, SearchBreaksOff, Waiting, Ended, Answers
    <2>4. QED BY <2>1, <2>2, <2>3
  <1>5. TypeOK'
    BY <1>1, <1>2, <1>3, <1>4 DEF TypeOK, Go, Answer
  <1>6. \A u \in Transfers \ {t} : step'[u] = step[u] /\ answer'[u] = answer[u]
    BY <1>1, <1>4 DEF TypeOK, Go, Answer
  <1>7. StepInv(t)'
    <2>1. CASE ValidateBalance(t)
      <3>1. /\ step[t] = "balance"
            /\ \/ step'[t] \in {"gas", "send"} /\ answer'[t] \in {"none", "uuid"}
               \/ step'[t] = "refused" /\ answer'[t] = "error"
        BY <1>1, <2>1 DEF TypeOK, StepInv, ValidateBalance, Go, Answer, AnswerIf
      <3>2. QED BY <1>1, <1>2, <3>1 DEF StepInv, Unsent, Valid
    <2>2. CASE ValidateBalanceFails(t)
      <3>1. /\ step[t] = "balance"
            /\ Currency(t) \in Currencies
        BY <1>1, <2>2, PlainTransferAssumption DEF StepInv, ValidateBalanceFails, Currency
      <3>2. \/ step'[t] \in {"refused", "thrown"} /\ answer'[t] \in {"error", "thrown"}
            \/ step'[t] = "dangling" /\ answer'[t] = "none"
        <4>1. answer[t] = "none"
          BY <1>1, <3>1 DEF StepInv
        <4>2. CASE Currency(t) = "ST"
          BY <1>1, <2>2, <4>1, <4>2 DEF TypeOK, ValidateBalanceFails, Go, Answer
        <4>3. CASE Currency(t) = "ETH"
          BY <1>1, <2>2, <4>1, <4>3 DEF TypeOK, ValidateBalanceFails, Go, Answer
        <4>4. CASE Currency(t) = "STPrime"
          BY <1>1, <2>2, <4>1, <4>4 DEF TypeOK, ValidateBalanceFails, Go, Answer
        <4>5. QED BY <3>1, <4>2, <4>3, <4>4 DEF Currencies
      <3>3. QED BY <1>1, <1>2, <3>1, <3>2 DEF StepInv, Unsent, Valid
    <2>3. CASE EstimateGas(t)
      <3>1. /\ step[t] = "gas"
            /\ \/ step'[t] = "send" /\ answer'[t] = answer[t]
               \/ step'[t] = "thrown" /\ answer'[t] \in {"uuid", "thrown"}
        BY <1>1, <2>3 DEF TypeOK, StepInv, EstimateGas, Go, Answer
      <3>2. QED BY <1>1, <1>2, <3>1 DEF StepInv, Unsent, Valid
    <2>4. CASE NotMined(t) \/ SearchBreaksOff(t)
      <3>1. /\ step[t] \in {"receipt", "search"} /\ answer'[t] = answer[t]
            /\ step'[t] \in {"search", "dangling"}
        BY <1>1, <2>4 DEF TypeOK, NotMined, AfterNotMined, SearchBreaksOff, Go
      <3>2. QED BY <1>1, <1>2, <3>1 DEF StepInv, Unsent, Valid
    <2>5. QED BY <2>1, <2>2, <2>3, <2>4
  <1>8. QED BY <1>2, <1>5, <1>6, <1>7, OneTransfer

\* The transaction is sent.
LEMMA SendStep ==
  ASSUME StepsInv, NEW t \in Transfers, Send(t)
  PROVE  StepsInv'
PROOF
  <1>1. TypeOK /\ StepInv(t) /\ step[t] = "send"
    BY DEF StepsInv, Send
  <1>2. /\ tx' = [tx EXCEPT ![t] = "pending"]
        /\ step' = [step EXCEPT ![t] = "receipt"]
        /\ published' = [published EXCEPT ![t] = Append(published[t], "transaction_initiated")]
        /\ UNCHANGED <<balance, request, misjudged, bounds>>
    BY DEF Send, Go, Publish
  <1>3. /\ answer' \in [Transfers -> Answers] /\ answer'[t] \in {"none", "uuid", "hash"}
        /\ \A u \in Transfers \ {t} : answer'[u] = answer[u]
    BY <1>1 DEF TypeOK, StepInv, Send, Answer, AnswerIf, Answers
  <1>4. published[t] = <<>> /\ published' \in [Transfers -> Seq(Kinds)]
    BY <1>1, <1>2 DEF TypeOK, StepInv, Unsent, Kinds
  <1>5. published'[t] = <<"transaction_initiated">>
    BY <1>1, <1>2, <1>4 DEF TypeOK
  <1>6. TypeOK'
    BY <1>1, <1>2, <1>3, <1>4 DEF TypeOK, TxStates, Waiting, bounds
  <1>7. StepInv(t)'
    BY <1>1, <1>2, <1>3, <1>5 DEF TypeOK, StepInv, Valid
  <1>8. \A u \in Transfers \ {t} :
          step'[u] = step[u] /\ tx'[u] = tx[u] /\ published'[u] = published[u]
    BY <1>1, <1>2 DEF TypeOK
  <1>9. QED BY <1>2, <1>3, <1>6, <1>7, <1>8, OneTransfer

\* A receipt ends a transfer.
LEMMA SuccessStep ==
  ASSUME StepsInv, NEW t \in Transfers, step[t] \in {"receipt", "search"}, OnReceipt(t),
         UNCHANGED <<balance, tx, request, bounds>>,
         misjudged' = misjudged \/ misjudged' = misjudged \cup {t},
         tx[t] = "mined" \/ t \in misjudged'
  PROVE  StepsInv'
PROOF
  <1>1. TypeOK /\ StepInv(t)
    BY DEF StepsInv
  <1>2. /\ step' = [step EXCEPT ![t] = "done"]
        /\ published' = [published EXCEPT ![t] = Append(published[t], "transaction_mined")]
    BY DEF OnReceipt, Go, Publish
  <1>3. /\ answer' \in [Transfers -> Answers] /\ answer'[t] # "error"
        /\ \A u \in Transfers \ {t} : answer'[u] = answer[u]
    BY <1>1 DEF TypeOK, StepInv, OnReceipt, Answer, AnswerIf, Answers
  <1>4. published[t] = <<"transaction_initiated">> /\ published' \in [Transfers -> Seq(Kinds)]
    BY <1>1, <1>2 DEF TypeOK, StepInv, Kinds
  <1>5. published'[t] = <<"transaction_initiated", "transaction_mined">>
    <2>1. published'[t] = Append(<<"transaction_initiated">>, "transaction_mined")
      BY <1>1, <1>2, <1>4 DEF TypeOK
    <2>2. QED BY <2>1, Stories DEF Kinds
  <1>6. TypeOK'
    BY <1>1, <1>2, <1>3, <1>4 DEF TypeOK, Ended, bounds
  <1>7. StepInv(t)'
    BY <1>1, <1>2, <1>3, <1>5 DEF TypeOK, StepInv, Valid
  <1>8. \A u \in Transfers \ {t} : step'[u] = step[u] /\ published'[u] = published[u]
    BY <1>1, <1>2 DEF TypeOK
  <1>9. QED BY <1>3, <1>6, <1>7, <1>8, OneTransfer

\* A refusal, a failed request, a reverted transaction, or no receipt, ends a
\* transfer; a request may fail after the node has accepted the transaction.
LEMMA FailureStep ==
  ASSUME StepsInv, NEW t \in Transfers, step[t] \in {"send", "receipt", "search"}, CatchError(t),
         UNCHANGED <<balance, request>>, Fault \/ NoFault,
         tx' = tx \/ tx' = [tx EXCEPT ![t] = "pending"],
         misjudged' = misjudged \/ misjudged' = misjudged \cup {t},
         tx'[t] \in {"none", "reverted"} \/ t \in misjudged'
  PROVE  StepsInv'
PROOF
  <1>1. TypeOK /\ StepInv(t)
    BY DEF StepsInv
  <1>2. /\ step' = [step EXCEPT ![t] = "failed"]
        /\ published' = [published EXCEPT ![t] = Append(published[t], "transaction_error")]
    BY DEF CatchError, Go, Publish
  <1>3. /\ answer' \in [Transfers -> Answers] /\ answer'[t] # "receipt"
        /\ answer'[t] = "hash" => tx'[t] # "none"
        /\ \A u \in Transfers \ {t} : answer'[u] = answer[u] /\ tx'[u] = tx[u]
    BY <1>1 DEF TypeOK, StepInv, CatchError, Answer, Answers
  <1>4. published[t] \in {<<>>, <<"transaction_initiated">>}
    BY <1>1 DEF StepInv, Unsent
  <1>5. /\ published' \in [Transfers -> Seq(Kinds)]
        /\ published'[t] = Append(published[t], "transaction_error")
    BY <1>1, <1>2 DEF TypeOK, Kinds
  <1>6. published'[t] \in {<<"transaction_error">>,
                           <<"transaction_initiated", "transaction_error">>}
    <2>1. CASE published[t] = <<>>
      BY <1>5, <2>1, Stories DEF Kinds
    <2>2. CASE published[t] = <<"transaction_initiated">>
      BY <1>5, <2>2, Stories DEF Kinds
    <2>3. QED BY <1>4, <2>1, <2>2
  <1>7. TypeOK'
    BY <1>1, <1>2, <1>3, <1>5, FaultBound DEF TypeOK, Ended, TxStates
  <1>8. StepInv(t)'
    BY <1>1, <1>2, <1>3, <1>6 DEF TypeOK, StepInv, Valid
  <1>9. \A u \in Transfers \ {t} : step'[u] = step[u] /\ published'[u] = published[u]
    BY <1>1, <1>2 DEF TypeOK
  <1>10. QED BY <1>3, <1>7, <1>8, <1>9, OneTransfer

\* The ways in which a transfer ends with a notification.
LEMMA EndStep ==
  ASSUME StepsInv, NEW t \in Transfers,
         SendFails(t) \/ Receipt(t) \/ ReceiptFails(t) \/ SearchFinds(t) \/ SearchGivesUp(t)
  PROVE  StepsInv'
PROOF
  <1>1. CASE SendFails(t)
    <2>1. tx[t] = "none"
      BY <1>1 DEF StepsInv, StepInv, Unsent, SendFails
    <2>2. CASE UNCHANGED <<tx, misjudged>>
      BY <1>1, <2>1, <2>2, FailureStep DEF SendFails
    <2>3. CASE Fault /\ tx' = [tx EXCEPT ![t] = "pending"] /\ misjudged' = misjudged \cup {t}
      BY <1>1, <2>3, FailureStep DEF SendFails
    <2>4. QED BY <1>1, <2>2, <2>3 DEF SendFails
  <1>2. CASE Receipt(t)
    <2>1. CASE HasReceipt(t)
      BY <1>2, <2>1, SuccessStep DEF Receipt, HasReceipt
    <2>2. CASE ~HasReceipt(t)
      BY <1>2, <2>2, FailureStep DEF Receipt, HasReceipt, NoFault
    <2>3. QED BY <2>1, <2>2
  <1>3. CASE SearchFinds(t)
    <2>1. CASE tx[t] = "reverted"
      <3>1. misjudged' = misjudged \cup {t}
        BY <1>3, <2>1 DEF SearchFinds
      <3>2. QED BY <1>3, <3>1, SuccessStep DEF SearchFinds
    <2>2. CASE tx[t] = "mined"
      <3>1. misjudged' = misjudged
        BY <1>3, <2>2 DEF SearchFinds
      <3>2. QED BY <1>3, <2>2, <3>1, SuccessStep DEF SearchFinds
    <2>3. QED BY <1>3, <2>1, <2>2 DEF SearchFinds
  <1>4. CASE SearchGivesUp(t)
    <2>1. CASE tx[t] = "reverted"
      <3>1. misjudged' = misjudged
        BY <1>4, <2>1 DEF SearchGivesUp
      <3>2. QED BY <1>4, <2>1, <3>1, FailureStep DEF SearchGivesUp, NoFault
    <2>2. CASE tx[t] # "reverted"
      <3>1. misjudged' = misjudged \cup {t}
        BY <1>4, <2>2 DEF SearchGivesUp
      <3>2. QED BY <1>4, <3>1, FailureStep DEF SearchGivesUp, NoFault
    <2>3. QED BY <2>1, <2>2
  <1>5. CASE ReceiptFails(t)
    <2>1. CASE tx[t] = "reverted"
      <3>1. misjudged' = misjudged
        BY <1>5, <2>1 DEF ReceiptFails
      <3>2. QED BY <1>5, <2>1, <3>1, FailureStep DEF ReceiptFails
    <2>2. CASE tx[t] # "reverted"
      <3>1. misjudged' = misjudged \cup {t}
        BY <1>5, <2>2 DEF ReceiptFails
      <3>2. QED BY <1>5, <3>1, FailureStep DEF ReceiptFails
    <2>3. QED BY <2>1, <2>2
  <1>6. QED BY <1>1, <1>2, <1>3, <1>4, <1>5

\* The process is killed: those that wait are cut short.
LEMMA CrashStep ==
  ASSUME StepsInv, Crash
  PROVE  StepsInv'
PROOF
  <1>1. TypeOK
    BY DEF StepsInv
  <1>2. /\ step' = [t \in Transfers |-> IF step[t] \in Waiting THEN "killed" ELSE step[t]]
        /\ UNCHANGED <<balance, tx, request, answer, published, misjudged, faults, lates>>
        /\ crashes' \in 0..MaxCrashes
    BY <1>1, PlainTransferAssumption DEF Crash, TypeOK
  <1>3. TypeOK'
    BY <1>1, <1>2 DEF TypeOK, Ended
  <1>4. ASSUME NEW u \in Transfers PROVE StepInv(u)'
    <2>1. CASE step[u] \in Waiting
      BY <1>2, <2>1 DEF StepsInv, StepInv, Unsent, Valid, Waiting
    <2>2. CASE step[u] \notin Waiting
      <3>1. step'[u] = step[u]
        BY <1>2, <2>2
      <3>2. QED BY <1>2, <3>1, StepInvFrame DEF StepsInv
    <2>3. QED BY <2>1, <2>2
  <1>5. QED BY <1>3, <1>4 DEF StepsInv

\* A step that changes nothing.
LEMMA StutterStep == StepsInv /\ UNCHANGED vars => StepsInv'
PROOF
  BY DEF vars, bounds, StepsInv, TypeOK, StepInv, Unsent, Valid

LEMMA StepsNext == StepsInv /\ [Next]_vars => StepsInv'
PROOF
  <1>1. SUFFICES ASSUME StepsInv, [Next]_vars PROVE StepsInv'
    OBVIOUS
  <1>2. ASSUME NEW t \in Transfers,
               TransferSimpleToken(t) \/ TransferEth(t) \/ TransferSimpleTokenPrime(t)
        PROVE  StepsInv'
    BY <1>1, <1>2, CallStep DEF TransferSimpleToken, TransferEth, TransferSimpleTokenPrime
  <1>3. ASSUME NEW t \in Transfers, Proceed(t) PROVE StepsInv'
    BY <1>1, <1>3, QuietStep, SendStep, EndStep DEF Proceed
  <1>4. ASSUME NEW t \in Transfers, Mine(t) PROVE StepsInv'
    BY <1>1, <1>4, MineStep
  <1>5. CASE Crash
    BY <1>1, <1>5, CrashStep
  <1>6. CASE UNCHANGED vars
    BY <1>1, <1>6, StutterStep
  <1>7. QED BY <1>1, <1>2, <1>3, <1>4, <1>5, <1>6 DEF Next

-----------------------------------------------------------------------------
(* What a wrong end costs.                                                 *)

\* No transfer comes into doubt, or one does and a request has failed or a
\* transaction is late.
Charged == \/ faults' = faults + 1 /\ lates' = lates
           \/ faults' = faults /\ lates' = lates + 1

LEMMA CostStep ==
  ASSUME TypeOK, CostInv, NEW t,
         \/ InDoubt' \subseteq InDoubt /\ (Charged \/ UNCHANGED <<faults, lates>>)
         \/ InDoubt' \subseteq InDoubt \cup {t} /\ Charged
  PROVE  CostInv'
PROOF
  <1>1. InDoubt \subseteq Transfers
    BY DEF InDoubt, TypeOK
  <1>2. IsFiniteSet(InDoubt) /\ Cardinality(InDoubt) \in Nat
    BY <1>1, PlainTransferAssumption, FS_Subset, FS_CardinalityType
  <1>3. /\ IsFiniteSet(InDoubt \cup {t}) /\ Cardinality(InDoubt \cup {t}) \in Nat
        /\ Cardinality(InDoubt \cup {t}) <= Cardinality(InDoubt) + 1
    <2>1. IsFiniteSet(InDoubt \cup {t})
      BY <1>2, FS_AddElement
    <2>2. Cardinality(InDoubt \cup {t})
            = IF t \in InDoubt THEN Cardinality(InDoubt) ELSE Cardinality(InDoubt) + 1
      BY <1>2, FS_AddElement
    <2>3. QED BY <1>2, <2>1, <2>2
  <1>4. faults \in Nat /\ lates \in Nat /\ Cardinality(InDoubt) <= faults + lates
    <2>1. faults \in Nat /\ lates \in Nat
      BY PlainTransferAssumption DEF TypeOK
    <2>2. QED BY <2>1 DEF CostInv
  <1>5. CASE InDoubt' \subseteq InDoubt /\ (Charged \/ UNCHANGED <<faults, lates>>)
    <2>1. Cardinality(InDoubt') <= Cardinality(InDoubt) /\ Cardinality(InDoubt') \in Nat
      BY <1>2, <1>5, FS_Subset, FS_CardinalityType
    <2>2. Cardinality(InDoubt') <= faults' + lates'
      BY <1>2, <1>4, <1>5, <2>1 DEF Charged
    <2>3. QED BY <2>2 DEF CostInv
  <1>6. CASE InDoubt' \subseteq InDoubt \cup {t} /\ Charged
    <2>1. /\ Cardinality(InDoubt') <= Cardinality(InDoubt \cup {t})
          /\ Cardinality(InDoubt') \in Nat
      BY <1>3, <1>6, FS_Subset, FS_CardinalityType
    <2>2. Cardinality(InDoubt') <= faults' + lates'
      BY <1>2, <1>3, <1>4, <1>6, <2>1 DEF Charged
    <2>3. QED BY <2>2 DEF CostInv
  <1>7. QED BY <1>5, <1>6

\* Only a failed request or a late transaction brings a transfer into doubt.
LEMMA CostNext == StepsInv /\ CostInv /\ [Next]_vars => CostInv'
PROOF
  <1>1. SUFFICES ASSUME StepsInv, CostInv, [Next]_vars PROVE CostInv'
    OBVIOUS
  <1>2. TypeOK
    BY <1>1 DEF StepsInv
  <1>3. ASSUME NEW t \in Transfers, NEW currency, Call(t, currency) PROVE CostInv'
    <2>1. InDoubt' \subseteq InDoubt /\ UNCHANGED <<faults, lates>>
      BY <1>2, <1>3 DEF Call, Go, InDoubt, TypeOK, bounds
    <2>2. QED BY <1>1, <1>2, <2>1, CostStep
  <1>4. ASSUME NEW t \in Transfers,
               \/ ValidateBalance(t) \/ ValidateBalanceFails(t) \/ EstimateGas(t) \/ Send(t)
               \/ Receipt(t) \/ SearchFinds(t) \/ SearchGivesUp(t) \/ SearchBreaksOff(t)
        PROVE  CostInv'
    <2>1. /\ Charged \/ UNCHANGED <<faults, lates>>
          /\ \E s \in {"refused", "thrown", "dangling", "gas", "send", "receipt", "done", "failed"} :
               Go(t, s)
      <3>1. CASE ValidateBalanceFails(t)
        <4>1. Currency(t) \in Currencies
          BY <1>1, <3>1, PlainTransferAssumption DEF StepsInv, StepInv, ValidateBalanceFails, Currency
        <4>2. Charged
          BY <3>1 DEF ValidateBalanceFails, Fault, Charged
        <4>3. \/ Currency(t) = "ST" /\ Go(t, "thrown")
              \/ Currency(t) = "ETH" /\ Go(t, "refused")
              \/ Currency(t) = "STPrime" /\ Go(t, "dangling")
          BY <3>1, <4>1 DEF ValidateBalanceFails, Currencies
        <4>4. QED BY <4>2, <4>3
      <3>2. CASE ValidateBalance(t) \/ EstimateGas(t) \/ Send(t)
        BY <3>2 DEF ValidateBalance, EstimateGas, Send, Fault, NoFault, bounds, Charged
      <3>3. CASE Receipt(t) \/ SearchFinds(t) \/ SearchGivesUp(t) \/ SearchBreaksOff(t)
        BY <3>3 DEF Receipt, SearchFinds, SearchGivesUp, SearchBreaksOff, OnReceipt, CatchError,
           Fault, bounds, Charged
      <3>4. QED BY <1>4, <3>1, <3>2, <3>3
    <2>2. misjudged' \subseteq InDoubt
      BY <1>4 DEF ValidateBalance, ValidateBalanceFails, EstimateGas, Send, Receipt, SearchFinds,
         SearchGivesUp, SearchBreaksOff, InDoubt
    <2>3. InDoubt' \subseteq InDoubt
      BY <1>2, <2>1, <2>2 DEF Go, InDoubt, TypeOK
    <2>4. QED BY <1>1, <1>2, <2>1, <2>3, CostStep
  <1>5. ASSUME NEW t \in Transfers, SendFails(t) \/ ReceiptFails(t) PROVE CostInv'
    <2>1. InDoubt' \subseteq InDoubt \cup {t}
      BY <1>2, <1>5 DEF SendFails, ReceiptFails, CatchError, Go, InDoubt, TypeOK
    <2>2. CASE UNCHANGED <<misjudged, bounds>>
      <3>1. InDoubt' \subseteq InDoubt /\ UNCHANGED <<faults, lates>>
        BY <1>2, <1>5, <2>2 DEF SendFails, ReceiptFails, CatchError, Go, InDoubt, TypeOK, bounds
      <3>2. QED BY <1>1, <1>2, <3>1, CostStep
    <2>3. CASE Fault
      <3>1. Charged
        BY <2>3 DEF Fault, Charged
      <3>2. QED BY <1>1, <1>2, <2>1, <3>1, CostStep
    <2>4. QED BY <1>5, <2>2, <2>3 DEF SendFails, ReceiptFails, NoFault
  <1>6. ASSUME NEW t \in Transfers, NotMined(t) PROVE CostInv'
    <2>1. Charged /\ misjudged' = misjudged
      BY <1>6 DEF NotMined, Charged
    <2>2. \A u \in Transfers \ {t} : step'[u] = step[u]
      BY <1>2, <1>6 DEF NotMined, Go, TypeOK
    <2>3. InDoubt' \subseteq InDoubt \cup {t}
      BY <2>1, <2>2 DEF InDoubt
    <2>4. QED BY <1>1, <1>2, <2>1, <2>3, CostStep
  <1>7. ASSUME UNCHANGED <<misjudged, faults, lates>>,
               \A t \in Transfers : step'[t] = "search" => step[t] = "search"
        PROVE  CostInv'
    <2>1. InDoubt' \subseteq InDoubt /\ UNCHANGED <<faults, lates>>
      BY <1>7 DEF InDoubt
    <2>2. QED BY <1>1, <1>2, <2>1, CostStep
  <1>8. CASE (\E t \in Transfers : Mine(t)) \/ Crash \/ UNCHANGED vars
    BY <1>7, <1>8 DEF Mine, Crash, vars, bounds
  <1>9. QED BY <1>1, <1>3, <1>4, <1>5, <1>6, <1>8
         DEF Next, Proceed, TransferSimpleToken, TransferEth, TransferSimpleTokenPrime

-----------------------------------------------------------------------------
(* What holds of every behaviour.                                          *)

LEMMA InitInv == Init => IInv
PROOF
  <1>1. SUFFICES ASSUME Init PROVE CostInv
    BY InitSteps DEF IInv
  <1>2. InDoubt = {} /\ faults = 0 /\ lates = 0
    BY <1>1 DEF Init, InDoubt
  <1>3. QED BY <1>2, FS_EmptySet DEF CostInv

LEMMA NextInv == IInv /\ [Next]_vars => IInv'
PROOF
  <1>1. QED BY StepsNext, CostNext DEF IInv

\* The invariant holds, for any number of accounts, transfers, failures and kills.
THEOREM TransferInvariant == Spec => []IInv
PROOF
  <1>1. QED BY InitInv, NextInv, PTL DEF Spec

\* A receipt is that of a transfer that moved the money, an error that of one that
\* never will, but for those whose end was guessed; and there are no more of these
\* than requests that failed and transactions that were late (the catch blocks of
\* simple_token.js:400-434, ether.js:228-262, st_prime.js:330-366).
THEOREM AnswersTrueHolds == Spec => []AnswersTrue
PROOF
  <1>1. IInv => AnswersTrue
    <2>1. SUFFICES ASSUME IInv PROVE AnswersTrue
      OBVIOUS
    <2>2. TypeOK /\ CostInv /\ \A t \in Transfers : StepInv(t)
      BY <2>1 DEF IInv, StepsInv
    <2>3. Cardinality(misjudged) <= faults + lates
      <3>1. InDoubt \subseteq Transfers /\ misjudged \subseteq InDoubt
        BY <2>2 DEF InDoubt, TypeOK
      <3>2. IsFiniteSet(InDoubt)
        BY <3>1, PlainTransferAssumption, FS_Subset
      <3>3. /\ Cardinality(misjudged) <= Cardinality(InDoubt)
            /\ Cardinality(misjudged) \in Nat /\ Cardinality(InDoubt) \in Nat
        BY <3>1, <3>2, FS_Subset, FS_CardinalityType
      <3>4. faults \in Nat /\ lates \in Nat
        BY <2>2, PlainTransferAssumption DEF TypeOK
      <3>5. QED BY <2>2, <3>3, <3>4 DEF CostInv
    <2>4. QED BY <2>2, <2>3 DEF TypeOK, StepInv, Unsent, AnswersTrue, Waiting, Ended
  <1>2. QED BY <1>1, TransferInvariant, PTL

\* The notifications of a transfer are in order, have one end, and a true one, but
\* for those whose end was guessed.
THEOREM NotificationsTrueHolds == Spec => []NotificationsTrue
PROOF
  <1>1. IInv => NotificationsTrue
    <2>1. SUFFICES ASSUME IInv, NEW t \in Transfers
          PROVE  /\ published[t] \in {<<>>, <<"transaction_error">>, <<"transaction_initiated">>,
                                      <<"transaction_initiated", "transaction_mined">>,
                                      <<"transaction_initiated", "transaction_error">>}
                 /\ published[t] # <<>> /\ published[t][Len(published[t])] = "transaction_mined" =>
                      tx[t] = "mined" \/ t \in misjudged
                 /\ published[t] # <<>> /\ published[t][Len(published[t])] = "transaction_error" =>
                      tx[t] \in {"none", "reverted"} \/ t \in misjudged
      BY DEF NotificationsTrue
    <2>2. StepInv(t) /\ step[t] \in {"new"} \cup Waiting \cup Ended
      BY <2>1 DEF IInv, StepsInv, TypeOK
    <2>3. CASE published[t] = <<>>
      BY <2>3
    <2>4. CASE published[t] = <<"transaction_initiated">>
      BY <2>4, Stories DEF Kinds
    <2>5. CASE /\ published[t] = <<"transaction_initiated", "transaction_mined">>
               /\ tx[t] = "mined" \/ t \in misjudged
      BY <2>5, Stories DEF Kinds
    <2>6. CASE /\ published[t] = <<"transaction_error">>
               /\ tx[t] \in {"none", "reverted"} \/ t \in misjudged
      BY <2>6, Stories DEF Kinds
    <2>7. CASE /\ published[t] = <<"transaction_initiated", "transaction_error">>
               /\ tx[t] \in {"none", "reverted"} \/ t \in misjudged
      BY <2>7, Stories DEF Kinds
    <2>8. QED BY <2>2, <2>3, <2>4, <2>5, <2>6, <2>7 DEF StepInv, Unsent, Waiting, Ended
  <1>2. QED BY <1>1, TransferInvariant, PTL
=============================================================================
