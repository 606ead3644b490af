--------------------- MODULE BrandedTokenTransfer_proofs ---------------------
(***************************************************************************)
(* What the caller of a transfer is told is true, and the balances that    *)
(* are kept for it never promise what the chain will not have, for any     *)
(* number of accounts, transfers, claims, failures, late transactions and  *)
(* kills, as long as no transfer was decided against the chain.  First the *)
(* sums, then what each call awaits, then the balances: every total over   *)
(* the transfers changes by the share of the one that moves.               *)
(*                                                                         *)
(* The last part is about MintTool, whose argument rests on the same sums: *)
(* the ST of the staker is what its runs have left of their gifts.         *)
(***************************************************************************)
EXTENDS BrandedTokenTransfer, MintTool, FiniteSetTheorems, TLAPS

-----------------------------------------------------------------------------
(* The sums.                                                                 *)

\* The units of one element are as many as its value.
LEMMA UnitsOf ==
  ASSUME NEW x, NEW n \in Nat
  PROVE  IsFiniteSet({x} \X (1..n)) /\ Cardinality({x} \X (1..n)) = n
<1>1. IsFiniteSet({x}) /\ Cardinality({x}) = 1
  BY FS_Singleton
<1>2. IsFiniteSet(1..n) /\ Cardinality(1..n) = n
  BY FS_Interval
<1>3. \A S, T : IsFiniteSet(S) /\ IsFiniteSet(T) =>
        IsFiniteSet(S \X T) /\ Cardinality(S \X T) = Cardinality(S) * Cardinality(T)
  BY FS_Product
<1>4. IsFiniteSet({x} \X (1..n))
      /\ Cardinality({x} \X (1..n)) = Cardinality({x}) * Cardinality(1..n)
  BY <1>1, <1>2, <1>3, Zenon
<1> QED BY <1>1, <1>2, <1>4

\* Finitely many elements have finitely many units.
LEMMA UnitsFinite ==
  ASSUME NEW S, IsFiniteSet(S), NEW f \in [S -> Nat]
  PROVE  IsFiniteSet(Units(f))
<1> DEFINE Blocks == {{x} \X (1..f[x]) : x \in S}
           block == [x \in S |-> {x} \X (1..f[x])]
<1>1. block \in Surjection(S, Blocks)
  BY DEF Surjection
<1>2. IsFiniteSet(Blocks)
  BY <1>1, FS_Surjection
<1>3. \A x \in S : IsFiniteSet({x} \X (1..f[x]))
  <2> SUFFICES ASSUME NEW x \in S PROVE IsFiniteSet({x} \X (1..f[x]))
    OBVIOUS
  <2>1. f[x] \in Nat
    OBVIOUS
  <2> QED BY <2>1, UnitsOf
<1>4. \A T \in Blocks : IsFiniteSet(T)
  BY <1>3, Zenon
<1>5. Units(f) = UNION Blocks
  BY DEF Units
<1> HIDE DEF Blocks
<1> QED BY <1>2, <1>4, <1>5, FS_UNION

LEMMA SumType ==
  ASSUME NEW S, IsFiniteSet(S), NEW f \in [S -> Nat]
  PROVE  Sum(f) \in Nat
  BY UnitsFinite, FS_CardinalityType DEF Sum

\* What one element adds.
LEMMA SumWithout ==
  ASSUME NEW S, IsFiniteSet(S), NEW f \in [S -> Nat], NEW x \in S
  PROVE  Sum(f) = Sum([f EXCEPT ![x] = 0]) + f[x]
<1> DEFINE g == [f EXCEPT ![x] = 0]
           Own == {x} \X (1..f[x])
<1>1. g \in [S -> Nat] /\ g[x] = 0 /\ \A y \in S \ {x} : g[y] = f[y]
  OBVIOUS
<1>2. Units(f) = Units(g) \cup Own
  <2>1. \A u : u \in Units(f) <=> \E y \in S : u \in {y} \X (1..f[y])
    BY DEF Units
  <2>2. \A u : u \in Units(g) <=> \E y \in S : u \in {y} \X (1..g[y])
    BY DEF Units
  <2>3. {x} \X (1..g[x]) = {}
    BY <1>1
  <2> QED BY <1>1, <2>1, <2>2, <2>3
<1>3. Units(g) \cap Own = {}
  <2> SUFFICES ASSUME NEW u \in Units(g), u \in Own PROVE FALSE
    OBVIOUS
  <2>1. PICK y \in S : u \in {y} \X (1..g[y])
    BY DEF Units
  <2>2. u[1] = y /\ u[1] = x /\ 1..g[y] # {}
    BY <2>1
  <2> QED BY <1>1, <2>2
<1>4. IsFiniteSet(Units(g)) /\ Cardinality(Units(g)) \in Nat
  BY <1>1, UnitsFinite, FS_CardinalityType
<1>5. IsFiniteSet(Own) /\ Cardinality(Own) = f[x]
  BY UnitsOf
<1>6. Cardinality(Units(g) \cap Own) = 0
  BY <1>3, FS_EmptySet
<1>7. Cardinality(Units(f)) = Cardinality(Units(g)) + Cardinality(Own)
  <2>1. Cardinality(Units(g) \cup Own)
          = Cardinality(Units(g)) + Cardinality(Own) - Cardinality(Units(g) \cap Own)
    BY <1>4, <1>5, FS_Union, Zenon
  <2> HIDE DEF g, Own
  <2> QED BY <1>2, <1>4, <1>5, <1>6, <2>1
<1> QED BY <1>5, <1>7 DEF Sum

\* Two functions that differ in one element.
LEMMA SumUpdate ==
  ASSUME NEW S, IsFiniteSet(S), NEW f \in [S -> Nat], NEW g \in [S -> Nat], NEW x \in S,
         \A y \in S \ {x} : g[y] = f[y]
  PROVE  Sum(g) = Sum(f) - f[x] + g[x]
<1>1. [f EXCEPT ![x] = 0] = [g EXCEPT ![x] = 0]
  OBVIOUS
<1>2. Sum([f EXCEPT ![x] = 0]) \in Nat
  BY SumType
<1>3. Sum(f) = Sum([f EXCEPT ![x] = 0]) + f[x]
  BY SumWithout
<1>4. Sum(g) = Sum([g EXCEPT ![x] = 0]) + g[x]
  BY SumWithout
<1>5. f[x] \in Nat /\ g[x] \in Nat
  OBVIOUS
<1> QED BY <1>1, <1>2, <1>3, <1>4, <1>5

\* A sum is monotonic.
LEMMA SumLe ==
  ASSUME NEW S, IsFiniteSet(S), NEW f \in [S -> Nat], NEW g \in [S -> Nat],
         \A x \in S : f[x] <= g[x]
  PROVE  Sum(f) <= Sum(g)
<1>1. Units(f) \in SUBSET Units(g)
  <2>1. \A x \in S : 1..f[x] \subseteq 1..g[x]
    <3> SUFFICES ASSUME NEW x \in S, NEW i \in 1..f[x] PROVE i \in 1..g[x]
      OBVIOUS
    <3>1. f[x] \in Nat /\ g[x] \in Nat /\ f[x] <= g[x]
      OBVIOUS
    <3> QED BY <3>1
  <2> QED BY <2>1 DEF Units
<1> QED BY <1>1, UnitsFinite, FS_Subset DEF Sum

\* A sum of nothing.
LEMMA SumZero ==
  ASSUME NEW S, NEW f \in [S -> Nat], \A x \in S : f[x] = 0
  PROVE  Sum(f) = 0
<1>1. Units(f) = {}
  BY DEF Units
<1> QED BY <1>1, FS_EmptySet DEF Sum

-----------------------------------------------------------------------------
(* The calls.                                                                *)
TransferInv(t) == StepInv(t) /\ JudgementInv(t) /\ AnswerInv(t)

\* The invariant of one transfer speaks of that transfer's state only.
LEMMA TransferInvFrame ==
  ASSUME NEW u \in Transfers, TransferInv(u),
         step'[u] = step[u], tx'[u] = tx[u], request'[u] = request[u],
         answer'[u] = answer[u], u \in misjudged' <=> u \in misjudged
  PROVE  TransferInv(u)'
  BY DEF TransferInv, StepInv, JudgementInv, AnswerInv, BeforeSend, Valid

\* An update of the storage keeps its type.
LEMMA AddType ==
  ASSUME TypeOK, NEW a \in Accounts, NEW n \in Int, NEW m \in Int, Add(a, n, m)
  PROVE  settled' \in [Accounts -> Int] /\ unsettled' \in [Accounts -> Int]
  BY DEF TypeOK, Add

LEMMA CallsInit == Init => CallsInv
<1> SUFFICES ASSUME Init PROVE CallsInv
  OBVIOUS
<1>1. /\ Opening \in [Accounts -> Nat] /\ Minted \in [Accounts -> Nat]
      /\ MaxFaults \in Nat /\ MaxLate \in Nat /\ MaxCrashes \in Nat
  BY BrandedTokenTransferAssumption
<1>2. TypeOK
  <2>1. /\ balance \in [Accounts -> Nat] /\ claimable \in [Accounts -> Nat]
        /\ settled \in [Accounts -> Int] /\ unsettled \in [Accounts -> Int]
        /\ paid \in [Claims -> Nat]
    BY <1>1 DEF Init
  <2>2. /\ tx \in [Transfers -> TxStates] /\ claimTx \in [Claims -> TxStates]
        /\ step \in [Transfers -> {"new"} \cup Waiting \cup Ended]
        /\ request \in [Transfers -> Requests \cup {NoRequest}]
        /\ answer \in [Transfers -> Answers]
        /\ claimStep \in [Claims -> {"new"} \cup ClaimWaiting \cup ClaimEnded]
    BY DEF Init, TxStates, Answers
  <2>3. /\ misjudged \subseteq Transfers
        /\ faults \in 0..MaxFaults /\ lates \in 0..MaxLate /\ crashes \in 0..MaxCrashes
    BY <1>1 DEF Init
  <2> QED BY <2>1, <2>2, <2>3 DEF TypeOK
<1>3. \A t \in Transfers : StepInv(t) /\ JudgementInv(t) /\ AnswerInv(t)
  BY DEF Init, StepInv, JudgementInv, AnswerInv
<1> QED BY <1>2, <1>3 DEF CallsInv

-----------------------------------------------------------------------------
(* Every step preserves the invariant.  A step of one transfer leaves the   *)
(* others alone; a step of a claim leaves all of them alone.                *)

\* The parameters of a transfer that has been called.
LEMMA RequestFacts ==
  ASSUME CallsInv, NEW t \in Transfers, step[t] \notin {"new", "refused"}
  PROVE  /\ From(t) \in Accounts /\ To(t) \in Accounts
         /\ Amount(t) \in Nat /\ -Amount(t) \in Int /\ From(t) # To(t)
         /\ Valid(request[t]) /\ request[t] \in Requests
<1>1. Valid(request[t]) /\ request[t] \in Requests
  BY DEF CallsInv, StepInv
<1>2. request[t] \in [from : Accounts, to : Accounts, amount : Nat, returnType : ReturnTypes]
  BY <1>1, BrandedTokenTransferAssumption
<1> QED BY <1>1, <1>2 DEF From, To, Amount, Valid

\* A step that only moves transfer t.
LEMMA OneTransfer ==
  ASSUME CallsInv, NEW t \in Transfers, TypeOK',
         \A u \in Transfers \ {t} :
           /\ step'[u] = step[u] /\ tx'[u] = tx[u] /\ request'[u] = request[u]
           /\ answer'[u] = answer[u] /\ (u \in misjudged' <=> u \in misjudged),
         TransferInv(t)'
  PROVE  CallsInv'
<1>1. \A u \in Transfers : TransferInv(u)
  BY DEF CallsInv, TransferInv
<1>2. ASSUME NEW u \in Transfers PROVE TransferInv(u)'
  <2>1. CASE u = t
    BY <2>1
  <2>2. CASE u # t
    BY <1>1, <2>2, TransferInvFrame
  <2> QED BY <2>1, <2>2
<1> QED BY <1>2 DEF CallsInv, TransferInv

\* A transfer is called.
LEMMA CallInv ==
  ASSUME CallsInv, NEW t \in Transfers, Call(t) PROVE CallsInv'
<1>0. TypeOK /\ TransferInv(t)
  BY DEF CallsInv, TransferInv
<1>1. PICK r \in Requests :
        /\ request' = [request EXCEPT ![t] = r]
        /\ \/ Valid(r) /\ Go(t, "balance") /\ UNCHANGED answer
           \/ ~Valid(r) /\ Go(t, "refused") /\ Answer(t, "error")
  BY DEF Call
<1>2. /\ step' \in [Transfers -> {"new"} \cup Waiting \cup Ended]
      /\ request' \in [Transfers -> Requests \cup {NoRequest}]
      /\ answer' \in [Transfers -> Answers]
  BY <1>0, <1>1 DEF TypeOK, Go, Answer, Waiting, Ended, Answers
<1>3. TypeOK'
  BY <1>0, <1>2 DEF TypeOK, Call, chainVars, storage, bounds
<1>4. TransferInv(t)'
  BY <1>0, <1>1, <1>2 DEF TypeOK, Call, TransferInv, StepInv, JudgementInv, AnswerInv, BeforeSend,
     Go, Answer, Valid, chainVars
<1> QED BY <1>0, <1>1, <1>3, <1>4, OneTransfer
        DEF TypeOK, Call, Go, Answer, chainVars

\* Its balance is looked at, or the storage fails, or it is reserved.
LEMMA ReserveInv ==
  ASSUME CallsInv, NEW t \in Transfers,
         ValidateBalance(t) \/ PessimisticDebit(t) \/ StorageRefuses(t)
  PROVE  CallsInv'
<1>0. TypeOK /\ TransferInv(t) /\ step[t] \in {"balance", "reserve"}
  BY DEF CallsInv, TransferInv, ValidateBalance, PessimisticDebit, StorageRefuses
<1>1. /\ step' \in [Transfers -> {"new"} \cup Waiting \cup Ended]
      /\ answer' \in [Transfers -> Answers]
      /\ UNCHANGED <<chainVars, request, claimStep, misjudged, lates, crashes>>
      /\ faults' \in 0..MaxFaults
  BY <1>0, BrandedTokenTransferAssumption
     DEF TypeOK, Go, Answer, Waiting, Ended, Answers, ValidateBalance, PessimisticDebit,
         StorageRefuses, Fault, chainVars, bounds
<1>2. settled' \in [Accounts -> Int] /\ unsettled' \in [Accounts -> Int]
  BY <1>0, RequestFacts, AddType DEF TypeOK, ValidateBalance, PessimisticDebit, StorageRefuses,
     ReserveAmount, storage
<1>3. TypeOK'
  BY <1>0, <1>1, <1>2 DEF TypeOK, chainVars
<1>4. TransferInv(t)'
  BY <1>0, <1>1 DEF TypeOK, TransferInv, StepInv, JudgementInv, AnswerInv, BeforeSend,
     ValidateBalance, PessimisticDebit, StorageRefuses, Go, Answer, Valid, chainVars
<1>5. \A u \in Transfers \ {t} : step'[u] = step[u] /\ answer'[u] = answer[u]
  BY <1>0 DEF TypeOK, ValidateBalance, PessimisticDebit, StorageRefuses, Go, Answer
<1> QED BY <1>1, <1>3, <1>4, <1>5, OneTransfer DEF chainVars

\* The gas is estimated, the transaction sent, or one of the two fails.
LEMMA SendInv ==
  ASSUME CallsInv, NEW t \in Transfers,
         EstimateGas(t) \/ EstimateGasFails(t) \/ SendTransaction(t) \/ SendFails(t)
  PROVE  CallsInv'
<1>0. TypeOK /\ TransferInv(t) /\ step[t] \in {"gas", "send"}
  BY DEF CallsInv, TransferInv, EstimateGas, EstimateGasFails, SendTransaction, SendFails
<1>1. /\ step' \in [Transfers -> {"new"} \cup Waiting \cup Ended]
      /\ answer' \in [Transfers -> Answers]
      /\ tx' \in [Transfers -> TxStates]
      /\ misjudged' \subseteq Transfers
      /\ UNCHANGED <<balance, claimable, claimTx, paid, storage, request, claimStep,
                      lates, crashes>>
  BY <1>0 DEF TypeOK, Go, Answer, Waiting, Ended, Answers, TxStates, EstimateGas,
         EstimateGasFails, SendTransaction, SendFails, chainVars, bounds
<1>2. faults' \in 0..MaxFaults
  BY <1>0, BrandedTokenTransferAssumption
     DEF TypeOK, EstimateGas, EstimateGasFails, SendTransaction, SendFails, Fault, NoFault, bounds
<1>3. TypeOK'
  BY <1>0, <1>1, <1>2 DEF TypeOK, storage
<1>4. TransferInv(t)'
  BY <1>0, <1>1 DEF TypeOK, TransferInv, StepInv, JudgementInv, AnswerInv, BeforeSend,
     EstimateGas, EstimateGasFails, SendTransaction, SendFails, Go, Answer, Valid, chainVars
<1>5. \A u \in Transfers \ {t} :
        /\ step'[u] = step[u] /\ answer'[u] = answer[u] /\ tx'[u] = tx[u]
        /\ u \in misjudged' <=> u \in misjudged
  BY <1>0 DEF TypeOK, EstimateGas, EstimateGasFails, SendTransaction, SendFails, Go, Answer,
     chainVars
<1> QED BY <1>1, <1>3, <1>4, <1>5, OneTransfer

\* The transaction is mined.
LEMMA MineInv ==
  ASSUME CallsInv, NEW t \in Transfers, MineTransfer(t) PROVE CallsInv'
<1>0. TypeOK /\ TransferInv(t) /\ tx[t] = "pending"
  BY DEF CallsInv, TransferInv, MineTransfer
<1>1. step[t] \notin {"new", "refused"}
  BY <1>0 DEF TransferInv, StepInv, BeforeSend
<1>2. /\ tx' \in [Transfers -> TxStates]
      /\ UNCHANGED <<claimable, claimTx, paid, storage, calls, misjudged, bounds>>
  BY <1>0 DEF TypeOK, TxStates, MineTransfer
<1>3. balance' \in [Accounts -> Nat]
  <2>1. CASE /\ balance[From(t)] >= Amount(t)
             /\ balance' = [balance EXCEPT ![From(t)] = @ - Amount(t),
                                           ![To(t)] = @ + Amount(t)]
    <3>1. balance[From(t)] - Amount(t) \in Nat /\ balance[To(t)] + Amount(t) \in Nat
      BY <1>0, <1>1, <2>1, RequestFacts DEF TypeOK
    <3> QED BY <1>0, <1>1, <2>1, <3>1, RequestFacts DEF TypeOK
  <2>2. CASE UNCHANGED balance
    BY <1>0, <2>2 DEF TypeOK
  <2> QED BY <2>1, <2>2 DEF MineTransfer
<1>4. TypeOK'
  BY <1>0, <1>2, <1>3 DEF TypeOK, storage, calls, bounds
<1>5. TransferInv(t)'
  BY <1>0, <1>2 DEF TypeOK, TransferInv, StepInv, JudgementInv, AnswerInv, BeforeSend, MineTransfer,
     calls, TxStates, Valid
<1>6. \A u \in Transfers \ {t} : tx'[u] = tx[u]
  BY <1>0 DEF TypeOK, MineTransfer
<1> QED BY <1>2, <1>4, <1>5, <1>6, OneTransfer DEF calls

\* The receipt comes, or does not within 50 blocks, and is searched for.
LEMMA ReceiptInv ==
  ASSUME CallsInv, NEW t \in Transfers,
         \/ Receipt(t) \/ ReceiptFails(t) \/ NotMined(t)
         \/ SearchFinds(t) \/ SearchGivesUp(t) \/ SearchBreaksOff(t)
  PROVE  CallsInv'
<1>0. TypeOK /\ TransferInv(t) /\ step[t] \in {"receipt", "search"}
  BY DEF CallsInv, TransferInv, Receipt, ReceiptFails, NotMined, SearchFinds, SearchGivesUp, SearchBreaksOff
<1>1. /\ step' \in [Transfers -> {"new"} \cup Waiting \cup Ended]
      /\ misjudged' \subseteq Transfers
      /\ UNCHANGED <<chainVars, storage, request, answer, claimStep, crashes>>
  BY <1>0 DEF TypeOK, Go, Waiting, Ended, AfterReceipt, Receipt, ReceiptFails, NotMined, SearchFinds,
     SearchGivesUp, SearchBreaksOff, bounds
<1>2. faults' \in 0..MaxFaults /\ lates' \in 0..MaxLate
  BY <1>0, BrandedTokenTransferAssumption
     DEF TypeOK, Receipt, ReceiptFails, NotMined, SearchFinds, SearchGivesUp, SearchBreaksOff, Fault, bounds
<1>3. TypeOK'
  BY <1>0, <1>1, <1>2 DEF TypeOK, chainVars, storage
<1>4. TransferInv(t)'
  BY <1>0, <1>1 DEF TypeOK, TransferInv, StepInv, JudgementInv, AnswerInv, BeforeSend, TxStates,
     Receipt, ReceiptFails, NotMined, SearchFinds, SearchGivesUp, SearchBreaksOff, AfterReceipt, Go, Valid, chainVars
<1>5. \A u \in Transfers \ {t} : step'[u] = step[u] /\ (u \in misjudged' <=> u \in misjudged)
  BY <1>0 DEF TypeOK, Receipt, ReceiptFails, NotMined, SearchFinds, SearchGivesUp, SearchBreaksOff, Go
<1> QED BY <1>1, <1>3, <1>4, <1>5, OneTransfer DEF chainVars

\* The storage is settled, or the reservation undone.
LEMMA SettleInv ==
  ASSUME CallsInv, NEW t \in Transfers, CreditRecipient(t) \/ DebitSender(t) \/ Rollback(t)
  PROVE  CallsInv'
<1>0. TypeOK /\ TransferInv(t) /\ step[t] \in {"credit", "debit", "rollback"}
  BY DEF CallsInv, TransferInv, CreditRecipient, DebitSender, Rollback
<1>1. /\ step' \in [Transfers -> {"new"} \cup Waiting \cup Ended]
      /\ answer' \in [Transfers -> Answers]
      /\ UNCHANGED <<chainVars, request, claimStep, misjudged, lates, crashes>>
  BY <1>0 DEF TypeOK, Go, Answer, Waiting, Ended, Answers, CreditRecipient, DebitSender, Rollback
<1>2. faults' \in 0..MaxFaults
  BY <1>0, BrandedTokenTransferAssumption
     DEF TypeOK, CreditRecipient, DebitSender, Rollback, Fault, NoFault
<1>3. settled' \in [Accounts -> Int] /\ unsettled' \in [Accounts -> Int]
  <2>1. /\ From(t) \in Accounts /\ To(t) \in Accounts
        /\ Amount(t) \in Int /\ -Amount(t) \in Int /\ 0 \in Int
    BY <1>0, RequestFacts
  <2>2. CASE UNCHANGED storage
    BY <1>0, <2>2 DEF TypeOK, storage
  <2>3. CASE Add(To(t), Amount(t), 0) \/ SettleDebit(t) \/ Add(From(t), 0, -Amount(t))
    BY <1>0, <2>1, <2>3, AddType DEF SettleDebit
  <2> QED BY <2>2, <2>3 DEF CreditRecipient, DebitSender, Rollback
<1>4. TypeOK'
  BY <1>0, <1>1, <1>2, <1>3 DEF TypeOK, chainVars
<1>5. TransferInv(t)'
  BY <1>0, <1>1 DEF TypeOK, TransferInv, StepInv, JudgementInv, AnswerInv, BeforeSend,
     CreditRecipient, DebitSender, Rollback, Go, Answer, Valid, chainVars
<1>6. \A u \in Transfers \ {t} : step'[u] = step[u] /\ answer'[u] = answer[u]
  BY <1>0 DEF TypeOK, CreditRecipient, DebitSender, Rollback, Go, Answer
<1> QED BY <1>1, <1>4, <1>5, <1>6, OneTransfer DEF chainVars

\* A claim moves.
LEMMA ClaimInv ==
  ASSUME CallsInv, NEW c \in Claims, CallClaim(c) \/ ClaimProgress(c) \/ MineClaim(c)
  PROVE  CallsInv'
<1>0. TypeOK /\ BeneficiaryOf[c] \in Accounts
  BY BrandedTokenTransferAssumption DEF CallsInv
<1>1. UNCHANGED <<tx, step, request, answer, misjudged, lates, crashes>>
  BY DEF CallClaim, ClaimProgress, SendClaim, SendClaimFails, ClaimReceipt, ClaimPollFails,
     CreditBeneficiary, MineClaim, chainVars, calls, bounds
<1>2. claimStep' \in [Claims -> {"new"} \cup ClaimWaiting \cup ClaimEnded]
  BY <1>0 DEF TypeOK, ClaimGo, ClaimWaiting, ClaimEnded, CallClaim, ClaimProgress, SendClaim,
     SendClaimFails, ClaimReceipt, ClaimPollFails, CreditBeneficiary, MineClaim, calls
<1>3. /\ balance' \in [Accounts -> Nat] /\ claimable' \in [Accounts -> Nat]
      /\ claimTx' \in [Claims -> TxStates] /\ paid' \in [Claims -> Nat]
  BY <1>0 DEF TypeOK, TxStates, CallClaim, ClaimProgress, SendClaim, SendClaimFails, ClaimReceipt,
     ClaimPollFails, CreditBeneficiary, MineClaim, chainVars
<1>4. faults' \in 0..MaxFaults
  BY <1>0, BrandedTokenTransferAssumption
     DEF TypeOK, CallClaim, ClaimProgress, SendClaim, SendClaimFails, ClaimReceipt, ClaimPollFails,
     CreditBeneficiary, MineClaim, Fault, NoFault, bounds
<1>5. settled' \in [Accounts -> Int] /\ unsettled' \in [Accounts -> Int]
  <2>1. CASE UNCHANGED storage
    BY <1>0, <2>1 DEF TypeOK, storage
  <2>2. CASE Add(BeneficiaryOf[c], paid[c], 0)
    BY <1>0, <2>2, AddType DEF TypeOK
  <2> QED BY <2>1, <2>2 DEF CallClaim, ClaimProgress, SendClaim, SendClaimFails, ClaimReceipt,
     ClaimPollFails, CreditBeneficiary, MineClaim
<1>6. TypeOK'
  BY <1>0, <1>1, <1>2, <1>3, <1>4, <1>5 DEF TypeOK
<1>7. \A u \in Transfers : TransferInv(u)'
  BY <1>1, TransferInvFrame DEF CallsInv, TransferInv
<1> QED BY <1>6, <1>7 DEF CallsInv, TransferInv

\* The process is killed.
LEMMA CrashInv ==
  ASSUME CallsInv, Crash PROVE CallsInv'
<1>0. TypeOK /\ UNCHANGED <<chainVars, storage, request, answer, misjudged, faults, lates>>
  BY DEF CallsInv, Crash
<1>1. /\ step' \in [Transfers -> {"new"} \cup Waiting \cup Ended]
      /\ claimStep' \in [Claims -> {"new"} \cup ClaimWaiting \cup ClaimEnded]
  BY <1>0 DEF TypeOK, Crash, Ended, ClaimEnded
<1>2. crashes' \in 0..MaxCrashes
  BY <1>0, BrandedTokenTransferAssumption DEF TypeOK, Crash
<1>3. TypeOK'
  BY <1>0, <1>1, <1>2 DEF TypeOK, chainVars, storage
<1>4. ASSUME NEW u \in Transfers PROVE TransferInv(u)'
  <2>1. TransferInv(u)
    BY DEF CallsInv, TransferInv
  <2>2. step'[u] = IF step[u] \in Waiting THEN "killed" ELSE step[u]
    BY DEF Crash
  <2> QED BY <1>0, <2>1, <2>2 DEF TransferInv, StepInv, JudgementInv, AnswerInv, BeforeSend, Waiting,
          Valid, chainVars
<1> QED BY <1>3, <1>4 DEF CallsInv, TransferInv

LEMMA CallsNext == CallsInv /\ [Next]_vars => CallsInv'
<1> SUFFICES ASSUME CallsInv, [Next]_vars PROVE CallsInv'
  OBVIOUS
<1>1. ASSUME NEW t \in Transfers, Call(t) \/ Progress(t) \/ NotMined(t) \/ MineTransfer(t)
      PROVE  CallsInv'
  BY <1>1, CallInv, ReserveInv, SendInv, MineInv, ReceiptInv, SettleInv DEF Progress
<1>2. ASSUME NEW c \in Claims, CallClaim(c) \/ ClaimProgress(c) \/ MineClaim(c)
      PROVE  CallsInv'
  BY <1>2, ClaimInv
<1>3. CASE UNCHANGED vars
  BY <1>3 DEF vars, chainVars, storage, calls, bounds, CallsInv, TypeOK, StepInv, JudgementInv, AnswerInv,
     BeforeSend, Valid
<1> QED BY <1>1, <1>2, <1>3, CrashInv DEF Next

-----------------------------------------------------------------------------
(* The totals.  A step of one transfer changes each of them by what that     *)
(* transfer's share in it changes.                                           *)
Share(t, S) == IF t \in S THEN Amount(t) ELSE 0
Shares(S)   == [t \in Transfers |-> Share(t, S)]

ClaimShare(c, S) == IF c \in S THEN paid[c] ELSE 0
ClaimShares(S)   == [c \in Claims |-> ClaimShare(c, S)]

LEMMA RequestAmount ==
  ASSUME NEW r \in Requests \cup {NoRequest} PROVE r.amount \in Nat
<1>1. CASE r \in Requests
  <2>1. r \in [from : Accounts, to : Accounts, amount : Nat, returnType : ReturnTypes]
    BY <1>1, BrandedTokenTransferAssumption
  <2> QED BY <2>1
<1>2. CASE r = NoRequest
  <2>1. NoRequest.amount = 0
    BY DEF NoRequest
  <2> QED BY <1>2, <2>1
<1> QED BY <1>1, <1>2

LEMMA AmountType ==
  ASSUME TypeOK, NEW t \in Transfers PROVE Amount(t) \in Nat
<1>1. request[t] \in Requests \cup {NoRequest}
  BY DEF TypeOK
<1> QED BY <1>1, RequestAmount DEF Amount

LEMMA TotalIsSum ==
  ASSUME TypeOK, NEW S
  PROVE  Total(S) = Sum(Shares(S)) /\ Shares(S) \in [Transfers -> Nat] /\ Total(S) \in Nat
<1>1. Shares(S) \in [Transfers -> Nat]
  BY AmountType DEF Shares, Share
<1>2. Total(S) = Sum(Shares(S))
  BY DEF Total, Shares, Share
<1> QED BY <1>1, <1>2, SumType, BrandedTokenTransferAssumption

LEMMA PayoutIsSum ==
  ASSUME TypeOK, NEW S
  PROVE  /\ Payout(S) = Sum(ClaimShares(S)) /\ ClaimShares(S) \in [Claims -> Nat]
         /\ Payout(S) \in Nat
<1>1. ClaimShares(S) \in [Claims -> Nat]
  BY DEF TypeOK, ClaimShares, ClaimShare
<1>2. Payout(S) = Sum(ClaimShares(S))
  BY DEF Payout, ClaimShares, ClaimShare
<1> QED BY <1>1, <1>2, SumType, BrandedTokenTransferAssumption

\* What nobody has a share in totals zero.
LEMMA TotalOfNone ==
  ASSUME TypeOK, NEW S, \A t \in Transfers : t \notin S PROVE Total(S) = 0
<1>1. \A t \in Transfers : Shares(S)[t] = 0
  BY DEF Shares, Share
<1> QED BY <1>1, TotalIsSum, SumZero

LEMMA PayoutOfNone ==
  ASSUME TypeOK, NEW S, \A c \in Claims : c \notin S PROVE Payout(S) = 0
<1>1. \A c \in Claims : ClaimShares(S)[c] = 0
  BY DEF ClaimShares, ClaimShare
<1> QED BY <1>1, PayoutIsSum, SumZero

\* One transfer's share in a total changes.
LEMMA SharesUpdate ==
  ASSUME TypeOK, TypeOK', NEW t \in Transfers, NEW S, NEW R,
         \A u \in Transfers \ {t} : request'[u] = request[u] /\ (u \in R <=> u \in S)
  PROVE  Sum([u \in Transfers |-> IF u \in R THEN Amount(u)' ELSE 0])
           = Total(S) - Share(t, S) + (IF t \in R THEN Amount(t)' ELSE 0)
<1> DEFINE g == [u \in Transfers |-> IF u \in R THEN Amount(u)' ELSE 0]
<1>1. \A u \in Transfers : Amount(u)' \in Nat
  <2>1. \A u \in Transfers : request'[u] \in Requests \cup {NoRequest}
    BY DEF TypeOK
  <2> QED BY <2>1, RequestAmount DEF Amount
<1>2. g \in [Transfers -> Nat]
  BY <1>1
<1>3. \A u \in Transfers \ {t} : g[u] = Shares(S)[u]
  BY DEF Shares, Share, Amount
<1>4. g[t] = (IF t \in R THEN Amount(t)' ELSE 0) /\ Shares(S)[t] = Share(t, S)
  BY DEF Shares
<1>5. Sum(g) = Sum(Shares(S)) - Shares(S)[t] + g[t]
  <2> HIDE DEF g
  <2> QED BY <1>2, <1>3, TotalIsSum, SumUpdate, BrandedTokenTransferAssumption
<1> QED BY <1>4, <1>5, TotalIsSum

\* The shares of transfer t in the five totals of account a.
HeldShare(t, a)  == IF /\ From(t) = a /\ tx[t] # "mined"
                       /\ step[t] \in Reserved \/ tx[t] = "pending"
                    THEN Amount(t) ELSE 0
DueShare(t, a)   == IF To(t) = a /\ tx[t] = "mined" /\ step[t] \in {"receipt", "search", "credit"}
                    THEN Amount(t) ELSE 0
OwedShare(t, a)  == IF /\ From(t) = a /\ tx[t] = "mined"
                       /\ step[t] \in {"receipt", "search", "credit", "debit"}
                    THEN Amount(t) ELSE 0
ExcessShare(t, a) == IF /\ t \in misjudged
                        /\ \/ From(t) = a /\ step[t] = "failed"
                           \/ To(t) = a /\ step[t] \in {"debit", "done", "killed"}
                     THEN Amount(t) ELSE 0
UnsetShare(t, a) == IF From(t) = a /\ step[t] \in Reserved \cup {"credit", "debit", "thrown"}
                    THEN Amount(t) ELSE 0

\* The transfers other than t stay what they are.
OthersStay(t) ==
  \A u \in Transfers \ {t} :
    /\ step'[u] = step[u] /\ tx'[u] = tx[u] /\ request'[u] = request[u]
    /\ u \in misjudged' <=> u \in misjudged

LEMMA TotalsMove ==
  ASSUME TypeOK, TypeOK', NEW t \in Transfers, OthersStay(t), NEW a
  PROVE  /\ Total(HeldFrom(a))' = Total(HeldFrom(a)) - HeldShare(t, a) + HeldShare(t, a)'
         /\ Total(DueTo(a))' = Total(DueTo(a)) - DueShare(t, a) + DueShare(t, a)'
         /\ Total(OwedBy(a))' = Total(OwedBy(a)) - OwedShare(t, a) + OwedShare(t, a)'
         /\ Total(Unsettling(a))' = Total(Unsettling(a)) - UnsetShare(t, a) + UnsetShare(t, a)'
         /\ Total(Excess(a))' = Total(Excess(a)) - ExcessShare(t, a) + ExcessShare(t, a)'
<1>1. Total(HeldFrom(a))' = Total(HeldFrom(a)) - HeldShare(t, a) + HeldShare(t, a)'
  <2>1. \A u \in Transfers \ {t} :
          request'[u] = request[u] /\ (u \in HeldFrom(a)' <=> u \in HeldFrom(a))
    BY DEF OthersStay, HeldFrom, From
  <2>2. /\ Share(t, HeldFrom(a)) = HeldShare(t, a)
        /\ (IF t \in HeldFrom(a)' THEN Amount(t)' ELSE 0) = HeldShare(t, a)'
    BY DEF Share, HeldShare, HeldFrom
  <2>3. Total(HeldFrom(a))' = Sum([u \in Transfers |-> IF u \in HeldFrom(a)' THEN Amount(u)' ELSE 0])
    BY DEF Total
  <2> QED BY <2>1, <2>2, <2>3, SharesUpdate
<1>2. Total(DueTo(a))' = Total(DueTo(a)) - DueShare(t, a) + DueShare(t, a)'
  <2>1. \A u \in Transfers \ {t} :
          request'[u] = request[u] /\ (u \in DueTo(a)' <=> u \in DueTo(a))
    BY DEF OthersStay, DueTo, To
  <2>2. /\ Share(t, DueTo(a)) = DueShare(t, a)
        /\ (IF t \in DueTo(a)' THEN Amount(t)' ELSE 0) = DueShare(t, a)'
    BY DEF Share, DueShare, DueTo
  <2>3. Total(DueTo(a))' = Sum([u \in Transfers |-> IF u \in DueTo(a)' THEN Amount(u)' ELSE 0])
    BY DEF Total
  <2> QED BY <2>1, <2>2, <2>3, SharesUpdate
<1>3. Total(OwedBy(a))' = Total(OwedBy(a)) - OwedShare(t, a) + OwedShare(t, a)'
  <2>1. \A u \in Transfers \ {t} :
          request'[u] = request[u] /\ (u \in OwedBy(a)' <=> u \in OwedBy(a))
    BY DEF OthersStay, OwedBy, From
  <2>2. /\ Share(t, OwedBy(a)) = OwedShare(t, a)
        /\ (IF t \in OwedBy(a)' THEN Amount(t)' ELSE 0) = OwedShare(t, a)'
    BY DEF Share, OwedShare, OwedBy
  <2>3. Total(OwedBy(a))' = Sum([u \in Transfers |-> IF u \in OwedBy(a)' THEN Amount(u)' ELSE 0])
    BY DEF Total
  <2> QED BY <2>1, <2>2, <2>3, SharesUpdate
<1>4. Total(Unsettling(a))' = Total(Unsettling(a)) - UnsetShare(t, a) + UnsetShare(t, a)'
  <2>1. \A u \in Transfers \ {t} :
          request'[u] = request[u] /\ (u \in Unsettling(a)' <=> u \in Unsettling(a))
    BY DEF OthersStay, Unsettling, From
  <2>2. /\ Share(t, Unsettling(a)) = UnsetShare(t, a)
        /\ (IF t \in Unsettling(a)' THEN Amount(t)' ELSE 0) = UnsetShare(t, a)'
    BY DEF Share, UnsetShare, Unsettling
  <2>3. Total(Unsettling(a))'
          = Sum([u \in Transfers |-> IF u \in Unsettling(a)' THEN Amount(u)' ELSE 0])
    BY DEF Total
  <2> QED BY <2>1, <2>2, <2>3, SharesUpdate
<1>5. Total(Excess(a))' = Total(Excess(a)) - ExcessShare(t, a) + ExcessShare(t, a)'
  <2>1. \A u \in Transfers \ {t} :
          request'[u] = request[u] /\ (u \in Excess(a)' <=> u \in Excess(a))
    BY DEF OthersStay, Excess, From, To
  <2>2. /\ Share(t, Excess(a)) = ExcessShare(t, a)
        /\ (IF t \in Excess(a)' THEN Amount(t)' ELSE 0) = ExcessShare(t, a)'
    BY DEF Share, ExcessShare, Excess
  <2>3. Total(Excess(a))' = Sum([u \in Transfers |-> IF u \in Excess(a)' THEN Amount(u)' ELSE 0])
    BY DEF Total
  <2> QED BY <2>1, <2>2, <2>3, SharesUpdate
<1> QED BY <1>1, <1>2, <1>3, <1>4, <1>5

-----------------------------------------------------------------------------
(* The balances.  A step of transfer t keeps the ledger when no account is   *)
(* shown more than its shares allow, and in the calm case exactly as much.   *)
LedgerMove(t) ==
  \A a \in Accounts :
    (balance'[a] - settled'[a] + unsettled'[a]) - (balance[a] - settled[a] + unsettled[a])
      + (ExcessShare(t, a)' - ExcessShare(t, a))
      >= (HeldShare(t, a)' - HeldShare(t, a)) + (DueShare(t, a)' - DueShare(t, a))

CalmMove(t) ==
  /\ step'[t] \notin {"dangling", "killed"}
  /\ \A a \in Accounts :
       /\ (settled'[a] - settled[a]) + (DueShare(t, a)' - DueShare(t, a))
            = (balance'[a] - balance[a]) + (OwedShare(t, a)' - OwedShare(t, a))
       /\ unsettled'[a] - unsettled[a] = UnsetShare(t, a)' - UnsetShare(t, a)

ClaimsStay == UNCHANGED <<claimTx, paid, claimStep>>

\* The shares of a transfer are natural numbers.
LEMMA ShareTypes ==
  ASSUME TypeOK, NEW t \in Transfers, NEW a
  PROVE  /\ HeldShare(t, a) \in Nat /\ DueShare(t, a) \in Nat
         /\ OwedShare(t, a) \in Nat /\ UnsetShare(t, a) \in Nat
         /\ ExcessShare(t, a) \in Nat
  BY AmountType DEF HeldShare, DueShare, OwedShare, UnsetShare, ExcessShare

LEMMA ShareTypesNext ==
  ASSUME TypeOK', NEW t \in Transfers, NEW a
  PROVE  /\ HeldShare(t, a)' \in Nat /\ DueShare(t, a)' \in Nat
         /\ OwedShare(t, a)' \in Nat /\ UnsetShare(t, a)' \in Nat
         /\ ExcessShare(t, a)' \in Nat
<1>1. request'[t] \in Requests \cup {NoRequest}
  BY DEF TypeOK
<1>2. Amount(t)' \in Nat
  BY <1>1, RequestAmount DEF Amount
<1> QED BY <1>2 DEF HeldShare, DueShare, OwedShare, UnsetShare, ExcessShare

LEMMA BalanceStep ==
  ASSUME TypeOK, TypeOK', BalanceInv, NEW t \in Transfers, OthersStay(t), ClaimsStay,
         Calm' => Calm, LedgerMove(t),
         Calm' => CalmMove(t)
  PROVE  BalanceInv'
<1>1. \A c \in Claims : ClaimStepInv(c)'
  BY DEF BalanceInv, ClaimStepInv, ClaimsStay
<1>2. ASSUME NEW a \in Accounts
      PROVE  Payout(DueClaims(a))' = Payout(DueClaims(a)) /\ Payout(DueClaims(a)) \in Nat
  BY PayoutIsSum DEF Payout, DueClaims, ClaimsStay
<1>3. ASSUME NEW a \in Accounts
      PROVE  /\ balance[a] \in Int /\ settled[a] \in Int /\ unsettled[a] \in Int
             /\ balance'[a] \in Int /\ settled'[a] \in Int /\ unsettled'[a] \in Int
             /\ Total(HeldFrom(a)) \in Nat /\ Total(DueTo(a)) \in Nat
             /\ Total(OwedBy(a)) \in Nat /\ Total(Unsettling(a)) \in Nat
             /\ Total(Excess(a)) \in Nat
  BY TotalIsSum DEF TypeOK
<1>4. LedgerInv'
  <2> SUFFICES ASSUME NEW a \in Accounts
               PROVE  balance'[a] + Total(Excess(a))'
                        >= settled'[a] - unsettled'[a] + Total(HeldFrom(a))'
                             + Total(DueTo(a))' + Payout(DueClaims(a))'
    BY DEF LedgerInv, Available
  <2>1. balance[a] + Total(Excess(a))
          >= settled[a] - unsettled[a] + Total(HeldFrom(a)) + Total(DueTo(a))
               + Payout(DueClaims(a))
    BY DEF BalanceInv, LedgerInv, Available
  <2>2. (balance'[a] - settled'[a] + unsettled'[a]) - (balance[a] - settled[a] + unsettled[a])
          + (ExcessShare(t, a)' - ExcessShare(t, a))
          >= (HeldShare(t, a)' - HeldShare(t, a)) + (DueShare(t, a)' - DueShare(t, a))
    BY DEF LedgerMove
  <2>3. /\ Total(HeldFrom(a))' = Total(HeldFrom(a)) - HeldShare(t, a) + HeldShare(t, a)'
        /\ Total(DueTo(a))' = Total(DueTo(a)) - DueShare(t, a) + DueShare(t, a)'
        /\ Total(Excess(a))' = Total(Excess(a)) - ExcessShare(t, a) + ExcessShare(t, a)'
    BY TotalsMove
  <2> QED BY <1>2, <1>3, <2>1, <2>2, <2>3, ShareTypes, ShareTypesNext
<1>5. CalmInv'
  <2> SUFFICES ASSUME Calm' PROVE
        /\ \A u \in Transfers : step'[u] \notin {"dangling", "killed"}
        /\ \A c \in Claims : Undisturbed(c)'
        /\ \A a \in Accounts :
             /\ settled'[a] + Total(DueTo(a))' + Payout(DueClaims(a))'
                  = balance'[a] + Total(OwedBy(a))'
             /\ unsettled'[a] = Total(Unsettling(a))'
    BY DEF CalmInv
  <2>1. /\ \A u \in Transfers : step[u] \notin {"dangling", "killed"}
        /\ \A c \in Claims : Undisturbed(c)
        /\ \A a \in Accounts :
             /\ settled[a] + Total(DueTo(a)) + Payout(DueClaims(a)) = balance[a] + Total(OwedBy(a))
             /\ unsettled[a] = Total(Unsettling(a))
    BY DEF BalanceInv, CalmInv
  <2>2. CalmMove(t)
    OBVIOUS
  <2>3. \A u \in Transfers : step'[u] \notin {"dangling", "killed"}
    BY <2>1, <2>2 DEF OthersStay, CalmMove
  <2>4. \A c \in Claims : Undisturbed(c)'
    BY <2>1 DEF ClaimsStay, Undisturbed
  <2>5. ASSUME NEW a \in Accounts
        PROVE  /\ settled'[a] + Total(DueTo(a))' + Payout(DueClaims(a))'
                    = balance'[a] + Total(OwedBy(a))'
               /\ unsettled'[a] = Total(Unsettling(a))'
    <3>1. /\ (settled'[a] - settled[a]) + (DueShare(t, a)' - DueShare(t, a))
               = (balance'[a] - balance[a]) + (OwedShare(t, a)' - OwedShare(t, a))
          /\ unsettled'[a] - unsettled[a] = UnsetShare(t, a)' - UnsetShare(t, a)
      BY <2>2 DEF CalmMove
    <3>2. /\ Total(DueTo(a))' = Total(DueTo(a)) - DueShare(t, a) + DueShare(t, a)'
          /\ Total(OwedBy(a))' = Total(OwedBy(a)) - OwedShare(t, a) + OwedShare(t, a)'
          /\ Total(Unsettling(a))' = Total(Unsettling(a)) - UnsetShare(t, a) + UnsetShare(t, a)'
      BY TotalsMove
    <3>3. /\ settled[a] + Total(DueTo(a)) + Payout(DueClaims(a)) = balance[a] + Total(OwedBy(a))
          /\ unsettled[a] = Total(Unsettling(a))
      BY <2>1
    <3>4. /\ balance[a] \in Int /\ settled[a] \in Int /\ unsettled[a] \in Int
          /\ balance'[a] \in Int /\ settled'[a] \in Int /\ unsettled'[a] \in Int
          /\ Total(DueTo(a)) \in Nat /\ Total(OwedBy(a)) \in Nat /\ Total(Unsettling(a)) \in Nat
          /\ Payout(DueClaims(a))' = Payout(DueClaims(a)) /\ Payout(DueClaims(a)) \in Nat
      BY <1>2, <1>3
    <3>5. /\ DueShare(t, a) \in Nat /\ OwedShare(t, a) \in Nat /\ UnsetShare(t, a) \in Nat
          /\ DueShare(t, a)' \in Nat /\ OwedShare(t, a)' \in Nat /\ UnsetShare(t, a)' \in Nat
      BY ShareTypes, ShareTypesNext
    <3> QED BY <3>1, <3>2, <3>3, <3>4, <3>5
  <2> QED BY <2>3, <2>4, <2>5
<1> QED BY <1>1, <1>4, <1>5 DEF BalanceInv

\* What a step of transfer t leaves alone.
LEMMA OthersAlone ==
  ASSUME CallsInv, NEW t \in Transfers, Call(t) \/ Progress(t) \/ NotMined(t) \/ MineTransfer(t)
  PROVE  /\ OthersStay(t) /\ ClaimsStay
         /\ misjudged \subseteq misjudged' /\ faults <= faults' /\ crashes' = crashes
<1>0. TypeOK
  BY DEF CallsInv
<1>1. CASE Call(t)
  BY <1>0, <1>1 DEF Call, TypeOK, Go, OthersStay, ClaimsStay, chainVars, bounds
<1>2. CASE Progress(t)
  <2>1. CASE ValidateBalance(t) \/ PessimisticDebit(t) \/ StorageRefuses(t) \/ EstimateGas(t)
             \/ EstimateGasFails(t) \/ SendTransaction(t) \/ SendFails(t)
    BY <1>0, <2>1 DEF ValidateBalance, PessimisticDebit, StorageRefuses, EstimateGas,
       EstimateGasFails, SendTransaction, SendFails, TypeOK, Go, Fault, NoFault, OthersStay,
       ClaimsStay, chainVars, bounds
  <2>2. CASE Receipt(t) \/ ReceiptFails(t) \/ SearchFinds(t) \/ SearchGivesUp(t) \/ SearchBreaksOff(t)
             \/ CreditRecipient(t) \/ DebitSender(t) \/ Rollback(t)
    BY <1>0, <2>2 DEF Receipt, ReceiptFails, SearchFinds, SearchGivesUp, SearchBreaksOff, CreditRecipient,
       DebitSender, Rollback, TypeOK, Go, Fault, NoFault, OthersStay, ClaimsStay, chainVars, bounds
  <2> QED BY <1>2, <2>1, <2>2 DEF Progress
<1>3. CASE NotMined(t)
  BY <1>0, <1>3 DEF NotMined, TypeOK, Go, OthersStay, ClaimsStay, chainVars
<1>4. CASE MineTransfer(t)
  BY <1>0, <1>4 DEF MineTransfer, TypeOK, OthersStay, ClaimsStay, calls, bounds
<1> QED BY <1>1, <1>2, <1>3, <1>4

\* So it is enough to look at the shares of t.
LEMMA BalanceOfStep ==
  ASSUME IInv, CallsInv', NEW t \in Transfers,
         Call(t) \/ Progress(t) \/ NotMined(t) \/ MineTransfer(t),
         LedgerMove(t),
         Calm' => CalmMove(t)
  PROVE  BalanceInv'
<1>1. CallsInv /\ TypeOK /\ TypeOK' /\ BalanceInv
  BY DEF IInv, CallsInv
<1>2. /\ OthersStay(t) /\ ClaimsStay
      /\ misjudged \subseteq misjudged' /\ faults <= faults' /\ crashes' = crashes
  BY <1>1, OthersAlone
<1>3. faults \in Nat /\ faults' \in Nat
  BY <1>1, BrandedTokenTransferAssumption DEF TypeOK
<1>4. Calm' => Calm
  BY <1>2, <1>3 DEF Calm
<1> QED BY <1>1, <1>2, <1>4, BalanceStep

\* The storage and the chain are as they were: only the shares matter.
LEMMA QuietMove ==
  ASSUME TypeOK, TypeOK', NEW t \in Transfers, UNCHANGED <<balance, storage>>,
         \A a \in Accounts :
           /\ HeldShare(t, a)' + DueShare(t, a)' <= HeldShare(t, a) + DueShare(t, a)
           /\ ExcessShare(t, a)' = ExcessShare(t, a),
         \A a \in Accounts :
           Calm' => /\ step'[t] \notin {"dangling", "killed"}
                    /\ DueShare(t, a)' - DueShare(t, a) = OwedShare(t, a)' - OwedShare(t, a)
                    /\ UnsetShare(t, a)' = UnsetShare(t, a),
         Calm' => step'[t] \notin {"dangling", "killed"}
  PROVE  LedgerMove(t) /\ (Calm' => CalmMove(t))
<1>1. ASSUME NEW a \in Accounts
      PROVE  /\ balance'[a] = balance[a] /\ settled'[a] = settled[a] /\ unsettled'[a] = unsettled[a]
             /\ balance[a] \in Int /\ settled[a] \in Int /\ unsettled[a] \in Int
  BY DEF storage, TypeOK
<1>2. LedgerMove(t)
  <2> SUFFICES ASSUME NEW a \in Accounts
               PROVE  (balance'[a] - settled'[a] + unsettled'[a])
                        - (balance[a] - settled[a] + unsettled[a])
                        + (ExcessShare(t, a)' - ExcessShare(t, a))
                      >= (HeldShare(t, a)' - HeldShare(t, a)) + (DueShare(t, a)' - DueShare(t, a))
    BY DEF LedgerMove
  <2>1. /\ HeldShare(t, a)' + DueShare(t, a)' <= HeldShare(t, a) + DueShare(t, a)
        /\ ExcessShare(t, a)' = ExcessShare(t, a)
    OBVIOUS
  <2> QED BY <1>1, <2>1, ShareTypes, ShareTypesNext
<1>3. ASSUME Calm' PROVE CalmMove(t)
  BY <1>1, <1>3, ShareTypes, ShareTypesNext DEF CalmMove
<1> QED BY <1>2, <1>3

\* A transfer is called: nothing of it is reserved or mined.
LEMMA CallBalance ==
  ASSUME IInv, CallsInv', NEW t \in Transfers, Call(t) PROVE BalanceInv'
<1>0. /\ TypeOK /\ TypeOK' /\ step[t] = "new" /\ tx[t] = "none" /\ tx'[t] = "none"
      /\ UNCHANGED <<balance, storage>>
  BY DEF IInv, CallsInv, StepInv, BeforeSend, Call, chainVars
<1>1. step'[t] \in {"balance", "refused"}
  BY <1>0 DEF Call, Go, TypeOK
<1>2. ASSUME NEW a
      PROVE  /\ HeldShare(t, a) = 0 /\ DueShare(t, a) = 0 /\ OwedShare(t, a) = 0
             /\ UnsetShare(t, a) = 0 /\ HeldShare(t, a)' = 0 /\ DueShare(t, a)' = 0
             /\ OwedShare(t, a)' = 0 /\ UnsetShare(t, a)' = 0
             /\ ExcessShare(t, a) = 0 /\ ExcessShare(t, a)' = 0
  BY <1>0, <1>1 DEF HeldShare, DueShare, OwedShare, UnsetShare, ExcessShare, Reserved
<1> QED BY <1>0, <1>1, <1>2, QuietMove, BalanceOfStep

\* Its balance is looked at or the storage fails, before anything is reserved.
LEMMA RefuseBalance ==
  ASSUME IInv, CallsInv', NEW t \in Transfers, ValidateBalance(t) \/ StorageRefuses(t)
  PROVE  BalanceInv'
<1>0. /\ TypeOK /\ TypeOK' /\ step[t] \in {"balance", "reserve"} /\ tx[t] = "none"
      /\ tx'[t] = "none" /\ UNCHANGED <<balance, storage>>
  BY DEF IInv, CallsInv, StepInv, BeforeSend, ValidateBalance, StorageRefuses, chainVars
<1>1. step'[t] \in {"reserve", "refused"}
  BY <1>0 DEF ValidateBalance, StorageRefuses, Go, TypeOK
<1>2. ASSUME NEW a
      PROVE  /\ HeldShare(t, a) = 0 /\ DueShare(t, a) = 0 /\ OwedShare(t, a) = 0
             /\ UnsetShare(t, a) = 0 /\ HeldShare(t, a)' = 0 /\ DueShare(t, a)' = 0
             /\ OwedShare(t, a)' = 0 /\ UnsetShare(t, a)' = 0
             /\ ExcessShare(t, a) = 0 /\ ExcessShare(t, a)' = 0
  BY <1>0, <1>1 DEF HeldShare, DueShare, OwedShare, UnsetShare, ExcessShare, Reserved
<1> QED BY <1>0, <1>1, <1>2, QuietMove, BalanceOfStep DEF Progress

\* The gas estimate, the transaction, its receipt and the search for it: what
\* is reserved stays reserved until the chain has it, or is given up.
LEMMA AwaitBalance ==
  ASSUME IInv, CallsInv', NEW t \in Transfers,
         \/ EstimateGas(t) \/ EstimateGasFails(t) \/ SendTransaction(t) \/ SendFails(t)
         \/ Receipt(t) \/ ReceiptFails(t) \/ NotMined(t)
         \/ SearchFinds(t) \/ SearchGivesUp(t) \/ SearchBreaksOff(t)
  PROVE  BalanceInv'
<1>0. /\ CallsInv /\ TypeOK /\ TypeOK' /\ UNCHANGED <<balance, storage, request>>
      /\ Amount(t) \in Nat /\ StepInv(t) /\ tx[t] \in TxStates
  BY AmountType DEF IInv, CallsInv, TypeOK, EstimateGas, EstimateGasFails, SendTransaction, SendFails,
     Receipt, ReceiptFails, NotMined, SearchFinds, SearchGivesUp, SearchBreaksOff, chainVars
<1>1. From(t)' = From(t) /\ To(t)' = To(t) /\ Amount(t)' = Amount(t)
  BY <1>0 DEF From, To, Amount
<1>2. /\ Calm' => faults' = 0 /\ misjudged' = {}
      /\ faults \in Nat
  BY <1>0, BrandedTokenTransferAssumption DEF Calm, TypeOK
<1> DEFINE Shrinks(a) ==
             /\ HeldShare(t, a)' + DueShare(t, a)' <= HeldShare(t, a) + DueShare(t, a)
             /\ ExcessShare(t, a)' = ExcessShare(t, a)
           Keeps(a) ==
             Calm' => /\ step'[t] \notin {"dangling", "killed"}
                      /\ DueShare(t, a)' - DueShare(t, a) = OwedShare(t, a)' - OwedShare(t, a)
                      /\ UnsetShare(t, a)' = UnsetShare(t, a)
           Lives == Calm' => step'[t] \notin {"dangling", "killed"}
<1>3. CASE EstimateGas(t) \/ EstimateGasFails(t)
  <2>1. step[t] = "gas" /\ step'[t] \in {"send", "thrown"} /\ tx[t] = "none" /\ tx'[t] = "none"
    BY <1>0, <1>3 DEF EstimateGas, EstimateGasFails, TypeOK, Go, StepInv, BeforeSend, chainVars
  <2>2. Lives /\ \A a \in Accounts : Shrinks(a) /\ Keeps(a)
    BY <1>0, <1>1, <2>1 DEF HeldShare, DueShare, OwedShare, UnsetShare, ExcessShare, Reserved
  <2> QED BY <1>0, <1>3, <2>2, QuietMove, BalanceOfStep DEF Progress
<1>4. CASE SendTransaction(t) \/ SendFails(t)
  <2>1. /\ step[t] = "send" /\ step'[t] \in {"receipt", "rollback"}
        /\ tx[t] = "none" /\ tx'[t] \in {"none", "pending"}
    BY <1>0, <1>4 DEF SendTransaction, SendFails, TypeOK, Go, StepInv, BeforeSend, chainVars
  <2>2. Lives /\ \A a \in Accounts : Shrinks(a) /\ Keeps(a)
    BY <1>0, <1>1, <2>1 DEF HeldShare, DueShare, OwedShare, UnsetShare, ExcessShare, Reserved
  <2> QED BY <1>0, <1>4, <2>2, QuietMove, BalanceOfStep DEF Progress
<1>5. CASE Receipt(t)
  <2>1. /\ step[t] = "receipt" /\ tx'[t] = tx[t]
        /\ \/ step'[t] = "credit" /\ tx[t] = "mined"
           \/ step'[t] = "rollback" /\ tx[t] = "reverted"
    BY <1>0, <1>5 DEF Receipt, TypeOK, Go, AfterReceipt, chainVars
  <2>2. Lives /\ \A a \in Accounts : Shrinks(a) /\ Keeps(a)
    BY <1>0, <1>1, <2>1 DEF HeldShare, DueShare, OwedShare, UnsetShare, ExcessShare, Reserved
  <2> QED BY <1>0, <1>5, <2>2, QuietMove, BalanceOfStep DEF Progress
<1>6. CASE NotMined(t)
  <2>1. step[t] = "receipt" /\ step'[t] = "search" /\ tx'[t] = tx[t]
    BY <1>0, <1>6 DEF NotMined, TypeOK, Go, chainVars
  <2>2. Lives /\ \A a \in Accounts : Shrinks(a) /\ Keeps(a)
    BY <1>0, <1>1, <2>1 DEF HeldShare, DueShare, OwedShare, UnsetShare, ExcessShare, Reserved
  <2> QED BY <1>0, <1>6, <2>2, QuietMove, BalanceOfStep
<1>7. CASE SearchFinds(t) \/ SearchGivesUp(t)
  <2>1. /\ step[t] = "search" /\ tx'[t] = tx[t] /\ tx[t] # "none"
        /\ misjudged' = {} => \/ step'[t] = "credit" /\ tx[t] = "mined"
                              \/ step'[t] = "rollback" /\ tx[t] = "reverted"
        /\ step'[t] \in {"credit", "rollback"}
    BY <1>0, <1>7 DEF SearchFinds, SearchGivesUp, TypeOK, Go, chainVars, StepInv
  <2>2. Lives /\ \A a \in Accounts : Shrinks(a) /\ Keeps(a)
    BY <1>0, <1>1, <1>2, <2>1 DEF HeldShare, DueShare, OwedShare, UnsetShare, ExcessShare, Reserved
  <2> QED BY <1>0, <1>7, <2>2, QuietMove, BalanceOfStep DEF Progress
<1>8. CASE SearchBreaksOff(t)
  <2>1. step[t] = "search" /\ step'[t] = "dangling" /\ tx'[t] = tx[t] /\ faults' # 0
    BY <1>0, <1>2, <1>8 DEF SearchBreaksOff, TypeOK, Go, chainVars, Fault
  <2>2. Lives /\ \A a \in Accounts : Shrinks(a) /\ Keeps(a)
    BY <1>0, <1>1, <1>2, <2>1 DEF HeldShare, DueShare, OwedShare, UnsetShare, ExcessShare, Reserved
  <2> QED BY <1>0, <1>8, <2>2, QuietMove, BalanceOfStep DEF Progress
<1>9. CASE ReceiptFails(t)
  <2>1. /\ step[t] = "receipt" /\ step'[t] = "rollback" /\ tx'[t] = tx[t] /\ tx[t] # "none"
        /\ faults' # 0
    BY <1>0, <1>2, <1>9 DEF ReceiptFails, TypeOK, Go, chainVars, StepInv, Fault
  <2>2. Lives /\ \A a \in Accounts : Shrinks(a) /\ Keeps(a)
    BY <1>0, <1>1, <1>2, <2>1 DEF HeldShare, DueShare, OwedShare, UnsetShare, ExcessShare, Reserved
  <2> QED BY <1>0, <1>9, <2>2, QuietMove, BalanceOfStep DEF Progress
<1> QED BY <1>3, <1>4, <1>5, <1>6, <1>7, <1>8, <1>9

\* The amount is reserved: held back and unsettled alike.
LEMMA ReserveBalance ==
  ASSUME IInv, CallsInv', NEW t \in Transfers, PessimisticDebit(t) PROVE BalanceInv'
<1>0. /\ TypeOK /\ step[t] = "reserve" /\ step'[t] = "gas" /\ tx[t] = "none" /\ tx'[t] = "none"
      /\ UNCHANGED <<balance, request>> /\ Add(From(t), 0, Amount(t))
  BY DEF IInv, CallsInv, TypeOK, StepInv, BeforeSend, PessimisticDebit, ReserveAmount, Go, chainVars
<1>1. From(t) \in Accounts /\ Amount(t) \in Nat
  BY <1>0, RequestFacts DEF IInv
<1>2. From(t)' = From(t) /\ To(t)' = To(t) /\ Amount(t)' = Amount(t)
  BY <1>0 DEF From, To, Amount
<1>3. ASSUME NEW a \in Accounts
      PROVE  /\ balance'[a] = balance[a] /\ settled'[a] = settled[a]
             /\ unsettled'[a] = unsettled[a] + (IF From(t) = a THEN Amount(t) ELSE 0)
             /\ balance[a] \in Int /\ settled[a] \in Int /\ unsettled[a] \in Int
  BY <1>0, <1>1 DEF Add, TypeOK
<1>4. ASSUME NEW a \in Accounts
      PROVE  /\ HeldShare(t, a) = 0 /\ HeldShare(t, a)' = (IF From(t) = a THEN Amount(t) ELSE 0)
             /\ UnsetShare(t, a) = 0 /\ UnsetShare(t, a)' = (IF From(t) = a THEN Amount(t) ELSE 0)
             /\ DueShare(t, a) = 0 /\ DueShare(t, a)' = 0
             /\ OwedShare(t, a) = 0 /\ OwedShare(t, a)' = 0
             /\ ExcessShare(t, a) = 0 /\ ExcessShare(t, a)' = 0
  BY <1>0, <1>2 DEF HeldShare, DueShare, OwedShare, UnsetShare, ExcessShare, Reserved
<1>5. LedgerMove(t) /\ CalmMove(t)
  BY <1>0, <1>1, <1>3, <1>4 DEF LedgerMove, CalmMove
<1> QED BY <1>5, BalanceOfStep DEF Progress

\* The tokens move on the chain: they are no longer held, but due and owed.
LEMMA MineBalance ==
  ASSUME IInv, CallsInv', NEW t \in Transfers, MineTransfer(t) PROVE BalanceInv'
<1>0. /\ TypeOK /\ tx[t] = "pending" /\ UNCHANGED <<storage, step, request>>
      /\ misjudged' = misjudged /\ StepInv(t) /\ JudgementInv(t) /\ CalmInv
      /\ faults' = faults /\ crashes' = crashes
  BY DEF IInv, CallsInv, BalanceInv, MineTransfer, calls, bounds
<1>1. /\ From(t) \in Accounts /\ To(t) \in Accounts /\ Amount(t) \in Nat /\ From(t) # To(t)
  BY <1>0, RequestFacts DEF IInv, StepInv, BeforeSend
<1>2. From(t)' = From(t) /\ To(t)' = To(t) /\ Amount(t)' = Amount(t)
  BY <1>0 DEF From, To, Amount
<1>3. ASSUME NEW a \in Accounts
      PROVE  /\ settled'[a] = settled[a] /\ unsettled'[a] = unsettled[a]
             /\ balance[a] \in Int /\ settled[a] \in Int /\ unsettled[a] \in Int
  BY <1>0 DEF TypeOK, storage
<1>4. ASSUME NEW a \in Accounts
      PROVE  ExcessShare(t, a)' = ExcessShare(t, a) /\ ExcessShare(t, a) \in Nat
  BY <1>0, <1>2, ShareTypes DEF ExcessShare
<1>5. Calm' => step[t] \in {"receipt", "search"}
  BY <1>0 DEF Calm, CalmInv, StepInv, JudgementInv, BeforeSend, TypeOK, Waiting, Ended
<1>6. CASE tx'[t] = "mined"
  <2>1. ASSUME NEW a \in Accounts
        PROVE  balance'[a] = balance[a] - (IF From(t) = a THEN Amount(t) ELSE 0)
                                        + (IF To(t) = a THEN Amount(t) ELSE 0)
    BY <1>0, <1>1, <1>6 DEF MineTransfer, TypeOK
  <2>2. ASSUME NEW a \in Accounts
        PROVE  /\ HeldShare(t, a) = (IF From(t) = a THEN Amount(t) ELSE 0) /\ HeldShare(t, a)' = 0
               /\ DueShare(t, a) = 0
               /\ DueShare(t, a)' \in {0, IF To(t) = a THEN Amount(t) ELSE 0}
               /\ UnsetShare(t, a)' = UnsetShare(t, a) /\ OwedShare(t, a) = 0
    BY <1>0, <1>2, <1>6 DEF HeldShare, DueShare, UnsetShare, OwedShare
  <2>3. LedgerMove(t)
    BY <1>1, <1>3, <1>4, <2>1, <2>2 DEF LedgerMove
  <2>4. ASSUME Calm', NEW a \in Accounts
        PROVE  /\ DueShare(t, a)' = (IF To(t) = a THEN Amount(t) ELSE 0)
               /\ OwedShare(t, a)' = (IF From(t) = a THEN Amount(t) ELSE 0)
    BY <1>0, <1>2, <1>5, <1>6, <2>4 DEF DueShare, OwedShare
  <2>5. Calm' => CalmMove(t)
    BY <1>0, <1>1, <1>3, <1>5, <2>1, <2>2, <2>4, ShareTypes DEF CalmMove
  <2> QED BY <2>3, <2>5, BalanceOfStep
<1>7. CASE tx'[t] # "mined"
  <2>1. tx'[t] = "reverted" /\ UNCHANGED balance
    BY <1>0, <1>7 DEF MineTransfer, TypeOK
  <2>2. \A a \in Accounts :
          /\ HeldShare(t, a)' <= HeldShare(t, a)
          /\ ExcessShare(t, a)' = ExcessShare(t, a)
          /\ DueShare(t, a) = 0 /\ DueShare(t, a)' = 0
          /\ OwedShare(t, a) = 0 /\ OwedShare(t, a)' = 0
          /\ UnsetShare(t, a)' = UnsetShare(t, a)
    BY <1>0, <1>1, <1>2, <1>4, <2>1 DEF HeldShare, DueShare, OwedShare, UnsetShare
  <2>3. TypeOK' /\ UNCHANGED <<balance, storage>>
    BY <1>0, <2>1 DEF CallsInv
  <2>4. Calm' => step'[t] \notin {"dangling", "killed"}
    BY <1>0, <1>5
  <2> QED BY <1>0, <2>2, <2>3, <2>4, ShareTypes, ShareTypesNext, QuietMove, BalanceOfStep
<1> QED BY <1>6, <1>7

\* onReceipt: what was due is credited, what was owed is debited and released.
LEMMA CreditBalance ==
  ASSUME IInv, CallsInv', NEW t \in Transfers, CreditRecipient(t) PROVE BalanceInv'
<1>0. /\ TypeOK /\ step[t] = "credit" /\ step'[t] = "debit" /\ tx'[t] = tx[t]
      /\ UNCHANGED <<balance, request, misjudged>> /\ JudgementInv(t)
      /\ \/ Add(To(t), Amount(t), 0)
         \/ UNCHANGED storage /\ faults' # 0
  BY BrandedTokenTransferAssumption
     DEF IInv, CallsInv, TypeOK, CreditRecipient, Go, chainVars, Fault
<1>1. To(t) \in Accounts /\ Amount(t) \in Nat
  BY <1>0, RequestFacts DEF IInv
<1>2. From(t)' = From(t) /\ To(t)' = To(t) /\ Amount(t)' = Amount(t)
  BY <1>0 DEF From, To, Amount
<1>3. IF t \in misjudged THEN tx[t] = "reverted" ELSE tx[t] = "mined"
  BY <1>0 DEF JudgementInv
<1>4. ASSUME NEW a \in Accounts
      PROVE  /\ DueShare(t, a) + ExcessShare(t, a)' = (IF To(t) = a THEN Amount(t) ELSE 0)
             /\ DueShare(t, a)' = 0 /\ ExcessShare(t, a) = 0
             /\ HeldShare(t, a) = 0 /\ HeldShare(t, a)' = 0
             /\ OwedShare(t, a)' = OwedShare(t, a) /\ UnsetShare(t, a)' = UnsetShare(t, a)
  BY <1>0, <1>1, <1>2, <1>3
     DEF HeldShare, DueShare, OwedShare, UnsetShare, ExcessShare, Reserved
<1>5. ASSUME NEW a \in Accounts
      PROVE  /\ balance'[a] = balance[a] /\ unsettled'[a] = unsettled[a]
             /\ \/ settled'[a] = settled[a] + (IF To(t) = a THEN Amount(t) ELSE 0)
                \/ settled'[a] = settled[a] /\ faults' # 0
             /\ balance[a] \in Int /\ settled[a] \in Int /\ unsettled[a] \in Int
  BY <1>0, <1>1 DEF Add, TypeOK, storage
<1>6. TypeOK'
  BY DEF CallsInv
<1>7. LedgerMove(t)
  <2> SUFFICES ASSUME NEW a \in Accounts
               PROVE  (balance'[a] - settled'[a] + unsettled'[a])
                        - (balance[a] - settled[a] + unsettled[a])
                        + (ExcessShare(t, a)' - ExcessShare(t, a))
                      >= (HeldShare(t, a)' - HeldShare(t, a)) + (DueShare(t, a)' - DueShare(t, a))
    BY DEF LedgerMove
  <2>1. DueShare(t, a) \in Nat /\ ExcessShare(t, a)' \in Nat
    BY <1>0, <1>6, ShareTypes, ShareTypesNext
  <2>2. PICK part \in Nat : part = IF To(t) = a THEN Amount(t) ELSE 0
    BY <1>1
  <2>3. /\ ExcessShare(t, a)' = part - DueShare(t, a) /\ ExcessShare(t, a) = 0
        /\ HeldShare(t, a)' = 0 /\ HeldShare(t, a) = 0 /\ DueShare(t, a)' = 0
    BY <1>4, <2>1, <2>2
  <2>4. /\ balance'[a] = balance[a] /\ unsettled'[a] = unsettled[a]
        /\ settled'[a] = settled[a] + part \/ settled'[a] = settled[a]
        /\ balance[a] \in Int /\ settled[a] \in Int /\ unsettled[a] \in Int
    BY <1>5, <2>2
  <2> QED BY <2>1, <2>3, <2>4
<1>8. ASSUME Calm' PROVE CalmMove(t)
  <2>1. t \notin misjudged' /\ faults' = 0
    BY <1>8 DEF Calm
  <2>2. \A a \in Accounts : ExcessShare(t, a)' = 0
    BY <2>1 DEF ExcessShare
  <2> QED BY <1>0, <1>1, <1>4, <1>5, <2>1, <2>2, ShareTypes DEF CalmMove
<1> QED BY <1>7, <1>8, BalanceOfStep DEF Progress

LEMMA DebitBalance ==
  ASSUME IInv, CallsInv', NEW t \in Transfers, DebitSender(t) PROVE BalanceInv'
<1>0. /\ TypeOK /\ step[t] = "debit" /\ step'[t] = "done" /\ tx'[t] = tx[t]
      /\ UNCHANGED <<balance, request, misjudged>> /\ JudgementInv(t)
      /\ \/ Add(From(t), -Amount(t), -Amount(t))
         \/ UNCHANGED storage /\ faults' # 0
  BY BrandedTokenTransferAssumption
     DEF IInv, CallsInv, TypeOK, DebitSender, SettleDebit, Go, chainVars, Fault
<1>1. From(t) \in Accounts /\ Amount(t) \in Nat
  BY <1>0, RequestFacts DEF IInv
<1>2. From(t)' = From(t) /\ To(t)' = To(t) /\ Amount(t)' = Amount(t)
  BY <1>0 DEF From, To, Amount
<1>3. IF t \in misjudged THEN tx[t] = "reverted" ELSE tx[t] = "mined"
  BY <1>0 DEF JudgementInv
<1>4. ASSUME NEW a \in Accounts
      PROVE  /\ OwedShare(t, a)' = 0
             /\ UnsetShare(t, a) = (IF From(t) = a THEN Amount(t) ELSE 0) /\ UnsetShare(t, a)' = 0
             /\ HeldShare(t, a) = 0 /\ HeldShare(t, a)' = 0
             /\ DueShare(t, a) = 0 /\ DueShare(t, a)' = 0
             /\ ExcessShare(t, a)' = ExcessShare(t, a)
  BY <1>0, <1>2, <1>3 DEF HeldShare, DueShare, OwedShare, UnsetShare, ExcessShare, Reserved
<1>5. ASSUME NEW a \in Accounts
      PROVE  /\ balance'[a] = balance[a]
             /\ \/ /\ settled'[a] = settled[a] - (IF From(t) = a THEN Amount(t) ELSE 0)
                   /\ unsettled'[a] = unsettled[a] - (IF From(t) = a THEN Amount(t) ELSE 0)
                \/ settled'[a] = settled[a] /\ unsettled'[a] = unsettled[a] /\ faults' # 0
             /\ balance[a] \in Int /\ settled[a] \in Int /\ unsettled[a] \in Int
  BY <1>0, <1>1 DEF Add, TypeOK, storage
<1>6. LedgerMove(t)
  BY <1>0, <1>1, <1>4, <1>5, ShareTypes DEF LedgerMove
<1>7. ASSUME Calm' PROVE CalmMove(t)
  <2>1. t \notin misjudged /\ faults' = 0
    BY <1>0, <1>7 DEF Calm
  <2>2. \A a \in Accounts : OwedShare(t, a) = (IF From(t) = a THEN Amount(t) ELSE 0)
    BY <1>0, <1>3, <2>1 DEF OwedShare
  <2> QED BY <1>0, <1>1, <1>4, <1>5, <2>1, <2>2 DEF CalmMove
<1> QED BY <1>6, <1>7, BalanceOfStep DEF Progress

\* onCatchError: what is held back is released, whether or not the chain will
\* still take it.
LEMMA RollbackBalance ==
  ASSUME IInv, CallsInv', NEW t \in Transfers, Rollback(t) PROVE BalanceInv'
<1>0. /\ TypeOK /\ step[t] = "rollback" /\ step'[t] = "failed" /\ tx'[t] = tx[t]
      /\ UNCHANGED <<balance, request, misjudged>> /\ JudgementInv(t)
      /\ \/ Add(From(t), 0, -Amount(t))
         \/ UNCHANGED storage /\ faults' # 0
  BY BrandedTokenTransferAssumption
     DEF IInv, CallsInv, TypeOK, Rollback, Go, chainVars, Fault
<1>1. From(t) \in Accounts /\ Amount(t) \in Nat
  BY <1>0, RequestFacts DEF IInv
<1>2. From(t)' = From(t) /\ To(t)' = To(t) /\ Amount(t)' = Amount(t)
  BY <1>0 DEF From, To, Amount
<1>3. t \notin misjudged => tx[t] \in {"none", "reverted"}
  BY <1>0 DEF JudgementInv
<1>4. ASSUME NEW a \in Accounts
      PROVE  /\ HeldShare(t, a)' + (IF From(t) = a THEN Amount(t) ELSE 0)
                  <= HeldShare(t, a) + ExcessShare(t, a)'
             /\ UnsetShare(t, a) = (IF From(t) = a THEN Amount(t) ELSE 0) /\ UnsetShare(t, a)' = 0
             /\ DueShare(t, a) = 0 /\ DueShare(t, a)' = 0
             /\ OwedShare(t, a) = 0 /\ OwedShare(t, a)' = 0
             /\ ExcessShare(t, a) = 0
  BY <1>0, <1>1, <1>2, <1>3
     DEF HeldShare, DueShare, OwedShare, UnsetShare, ExcessShare, Reserved
<1>5. ASSUME NEW a \in Accounts
      PROVE  /\ balance'[a] = balance[a] /\ settled'[a] = settled[a]
             /\ \/ unsettled'[a] = unsettled[a] - (IF From(t) = a THEN Amount(t) ELSE 0)
                \/ unsettled'[a] = unsettled[a] /\ faults' # 0
             /\ balance[a] \in Int /\ settled[a] \in Int /\ unsettled[a] \in Int
  BY <1>0, <1>1 DEF Add, TypeOK, storage
<1>6. TypeOK'
  BY DEF CallsInv
<1>7. LedgerMove(t)
  BY <1>0, <1>1, <1>4, <1>5, <1>6, ShareTypes, ShareTypesNext DEF LedgerMove
<1>8. Calm' => CalmMove(t)
  BY <1>0, <1>1, <1>4, <1>5 DEF Calm, CalmMove
<1> QED BY <1>7, <1>8, BalanceOfStep DEF Progress

\* A step of one transfer.
LEMMA TransferBalance ==
  ASSUME IInv, CallsInv', NEW t \in Transfers,
         Call(t) \/ Progress(t) \/ NotMined(t) \/ MineTransfer(t)
  PROVE  BalanceInv'
  BY CallBalance, RefuseBalance, AwaitBalance, ReserveBalance, MineBalance, CreditBalance,
     DebitBalance, RollbackBalance DEF Progress

-----------------------------------------------------------------------------
(* The claims.                                                               *)
DueClaim(c, a) == IF /\ BeneficiaryOf[c] = a /\ claimTx[c] = "mined"
                     /\ claimStep[c] \in {"receipt", "credit"}
                  THEN paid[c] ELSE 0

\* A step of one claim changes the payout that is due by that claim's part.
LEMMA PayoutMoves ==
  ASSUME TypeOK, TypeOK', NEW c \in Claims, NEW a,
         \A d \in Claims \ {c} :
           claimStep'[d] = claimStep[d] /\ claimTx'[d] = claimTx[d] /\ paid'[d] = paid[d]
  PROVE  /\ Payout(DueClaims(a))' = Payout(DueClaims(a)) - DueClaim(c, a) + DueClaim(c, a)'
         /\ Payout(DueClaims(a)) \in Nat /\ DueClaim(c, a) \in Nat /\ DueClaim(c, a)' \in Nat
<1> DEFINE f == [d \in Claims |-> DueClaim(d, a)]
           g == [d \in Claims |-> DueClaim(d, a)']
<1>1. f \in [Claims -> Nat] /\ g \in [Claims -> Nat]
  BY DEF TypeOK, DueClaim
<1>2. Payout(DueClaims(a)) = Sum(f)
  <2>1. \A d \in Claims : (IF d \in DueClaims(a) THEN paid[d] ELSE 0) = DueClaim(d, a)
    BY DEF DueClaims, DueClaim
  <2> QED BY <2>1 DEF Payout
<1>3. Payout(DueClaims(a))' = Sum(g)
  <2>1. \A d \in Claims : (IF d \in DueClaims(a)' THEN paid'[d] ELSE 0) = DueClaim(d, a)'
    BY DEF DueClaims, DueClaim
  <2> QED BY <2>1 DEF Payout
<1>4. \A d \in Claims \ {c} : g[d] = f[d]
  BY DEF DueClaim
<1>5. f[c] = DueClaim(c, a) /\ g[c] = DueClaim(c, a)'
  OBVIOUS
<1>6. Sum(g) = Sum(f) - f[c] + g[c] /\ Sum(f) \in Nat
  <2> HIDE DEF f, g
  <2> QED BY <1>1, <1>4, SumUpdate, SumType, BrandedTokenTransferAssumption
<1>7. f[c] \in Nat /\ g[c] \in Nat
  BY <1>1
<1> QED BY <1>2, <1>3, <1>5, <1>6, <1>7

\* The accounts of the claims: what the payout that is due falls by, the storage
\* gains, unless the storage failed.
ClaimMove(c) ==
  \A a \in Accounts :
    /\ unsettled'[a] = unsettled[a]
    /\ (balance'[a] - settled'[a]) - (balance[a] - settled[a])
         >= DueClaim(c, a)' - DueClaim(c, a)
    /\ Calm' => (balance'[a] - settled'[a]) - (balance[a] - settled[a])
                  = DueClaim(c, a)' - DueClaim(c, a)

LEMMA ClaimBalanceStep ==
  ASSUME TypeOK, TypeOK', BalanceInv, NEW c \in Claims, ClaimStepInv(c)',
         \A d \in Claims \ {c} :
           claimStep'[d] = claimStep[d] /\ claimTx'[d] = claimTx[d] /\ paid'[d] = paid[d],
         UNCHANGED <<tx, step, request, misjudged>>,
         Calm' => Calm /\ Undisturbed(c)',
         ClaimMove(c)
  PROVE  BalanceInv'
<1>1. \A d \in Claims : ClaimStepInv(d)'
  BY DEF BalanceInv, ClaimStepInv
<1>2. ASSUME NEW a \in Accounts
      PROVE  /\ Total(HeldFrom(a))' = Total(HeldFrom(a)) /\ Total(DueTo(a))' = Total(DueTo(a))
             /\ Total(OwedBy(a))' = Total(OwedBy(a)) /\ Total(Unsettling(a))' = Total(Unsettling(a))
             /\ Total(Excess(a))' = Total(Excess(a))
  BY DEF Total, HeldFrom, DueTo, OwedBy, Unsettling, Excess, From, To, Amount
<1>3. ASSUME NEW a \in Accounts
      PROVE  /\ balance[a] \in Int /\ settled[a] \in Int /\ unsettled[a] \in Int
             /\ balance'[a] \in Int /\ settled'[a] \in Int /\ unsettled'[a] \in Int
             /\ Total(HeldFrom(a)) \in Nat /\ Total(DueTo(a)) \in Nat
             /\ Total(OwedBy(a)) \in Nat /\ Total(Unsettling(a)) \in Nat
             /\ Total(Excess(a)) \in Nat
  BY TotalIsSum DEF TypeOK
<1>4. LedgerInv'
  <2> SUFFICES ASSUME NEW a \in Accounts
               PROVE  balance'[a] + Total(Excess(a))'
                        >= settled'[a] - unsettled'[a] + Total(HeldFrom(a))'
                             + Total(DueTo(a))' + Payout(DueClaims(a))'
    BY DEF LedgerInv, Available
  <2>1. balance[a] + Total(Excess(a))
          >= settled[a] - unsettled[a] + Total(HeldFrom(a)) + Total(DueTo(a))
               + Payout(DueClaims(a))
    BY DEF BalanceInv, LedgerInv, Available
  <2> QED BY <1>2, <1>3, <2>1, PayoutMoves DEF ClaimMove
<1>5. CalmInv'
  <2> SUFFICES ASSUME Calm' PROVE
        /\ \A u \in Transfers : step'[u] \notin {"dangling", "killed"}
        /\ \A d \in Claims : Undisturbed(d)'
        /\ \A a \in Accounts :
             /\ settled'[a] + Total(DueTo(a))' + Payout(DueClaims(a))'
                  = balance'[a] + Total(OwedBy(a))'
             /\ unsettled'[a] = Total(Unsettling(a))'
    BY DEF CalmInv
  <2>1. /\ \A u \in Transfers : step[u] \notin {"dangling", "killed"}
        /\ \A d \in Claims : Undisturbed(d)
        /\ \A a \in Accounts :
             /\ settled[a] + Total(DueTo(a)) + Payout(DueClaims(a)) = balance[a] + Total(OwedBy(a))
             /\ unsettled[a] = Total(Unsettling(a))
    BY DEF BalanceInv, CalmInv
  <2>2. ASSUME NEW a \in Accounts
        PROVE  /\ settled'[a] + Total(DueTo(a))' + Payout(DueClaims(a))'
                    = balance'[a] + Total(OwedBy(a))'
               /\ unsettled'[a] = Total(Unsettling(a))'
    <3>1. /\ settled[a] + Total(DueTo(a)) + Payout(DueClaims(a)) = balance[a] + Total(OwedBy(a))
          /\ unsettled[a] = Total(Unsettling(a))
      BY <2>1
    <3>2. /\ unsettled'[a] = unsettled[a]
          /\ (balance'[a] - settled'[a]) - (balance[a] - settled[a])
               = DueClaim(c, a)' - DueClaim(c, a)
      BY DEF ClaimMove
    <3>3. /\ Payout(DueClaims(a))' = Payout(DueClaims(a)) - DueClaim(c, a) + DueClaim(c, a)'
          /\ Payout(DueClaims(a)) \in Nat /\ DueClaim(c, a) \in Nat /\ DueClaim(c, a)' \in Nat
      BY PayoutMoves
    <3>4. unsettled'[a] = Total(Unsettling(a))'
      BY <1>2, <3>1, <3>2
    <3>5. /\ Total(DueTo(a))' = Total(DueTo(a)) /\ Total(OwedBy(a))' = Total(OwedBy(a))
          /\ balance[a] \in Int /\ settled[a] \in Int /\ balance'[a] \in Int /\ settled'[a] \in Int
          /\ Total(DueTo(a)) \in Nat /\ Total(OwedBy(a)) \in Nat
      BY <1>2, <1>3
    <3>6. settled'[a] + Total(DueTo(a))' + Payout(DueClaims(a))' = balance'[a] + Total(OwedBy(a))'
      <4>1. settled'[a] = settled[a] + (balance'[a] - balance[a]) - (DueClaim(c, a)' - DueClaim(c, a))
        BY <3>2, <3>3, <3>5
      <4>2. settled[a] = balance[a] + Total(OwedBy(a)) - Total(DueTo(a)) - Payout(DueClaims(a))
        BY <3>1, <3>3, <3>5
      <4> QED BY <4>1, <4>2, <3>3, <3>5
    <3> QED BY <3>4, <3>6
  <2>3. \A d \in Claims : Undisturbed(d)'
    BY <2>1 DEF Undisturbed
  <2> QED BY <2>1, <2>2, <2>3
<1> QED BY <1>1, <1>4, <1>5 DEF BalanceInv

LEMMA ClaimBalance ==
  ASSUME IInv, CallsInv', NEW c \in Claims, CallClaim(c) \/ ClaimProgress(c) \/ MineClaim(c)
  PROVE  BalanceInv'
<1>0. /\ TypeOK /\ TypeOK' /\ BalanceInv /\ ClaimStepInv(c) /\ BeneficiaryOf[c] \in Accounts
      /\ faults \in Nat
  BY BrandedTokenTransferAssumption DEF IInv, CallsInv, BalanceInv, TypeOK
<1>1. /\ \A d \in Claims \ {c} :
           claimStep'[d] = claimStep[d] /\ claimTx'[d] = claimTx[d] /\ paid'[d] = paid[d]
      /\ UNCHANGED <<tx, step, request, misjudged, crashes>>
      /\ faults' \in {faults, faults + 1}
  BY <1>0 DEF CallClaim, ClaimProgress, SendClaim, SendClaimFails, ClaimReceipt, ClaimPollFails,
     CreditBeneficiary, MineClaim, ClaimGo, Fault, NoFault, TypeOK, chainVars, calls, bounds
<1>2. Calm' => Calm /\ faults' = faults
  BY <1>0, <1>1 DEF Calm
<1>3. ASSUME NEW a \in Accounts
      PROVE  /\ balance[a] \in Int /\ settled[a] \in Int /\ unsettled[a] \in Int
             /\ paid[c] \in Nat /\ claimable[a] \in Nat
  BY <1>0 DEF TypeOK
<1>4. CASE CallClaim(c) \/ SendClaim(c) \/ SendClaimFails(c)
  <2>1. /\ claimTx[c] = "none" /\ UNCHANGED <<balance, storage>>
        /\ \/ claimStep'[c] = "gas" /\ claimTx'[c] = "none"
           \/ claimStep'[c] = "receipt" /\ claimTx'[c] = "pending"
           \/ claimStep'[c] = "failed" /\ claimTx'[c] = "none"
           \/ claimStep'[c] = "failed" /\ claimTx'[c] = "pending" /\ faults' # 0
    BY <1>0, <1>4 DEF CallClaim, SendClaim, SendClaimFails, Fault, ClaimGo, TypeOK, ClaimStepInv,
       chainVars
  <2>2. ClaimStepInv(c)' /\ (Calm' => Undisturbed(c)')
    BY <2>1 DEF ClaimStepInv, Calm, Undisturbed
  <2>3. ClaimMove(c)
    BY <1>3, <2>1 DEF ClaimMove, DueClaim, storage
  <2> QED BY <1>0, <1>1, <1>2, <2>1, <2>2, <2>3, ClaimBalanceStep
<1>5. CASE ClaimReceipt(c)
  <2>1. /\ claimStep[c] = "receipt" /\ UNCHANGED <<balance, storage, claimTx, paid>>
        /\ \/ claimStep'[c] = "credit" /\ claimTx[c] = "mined"
           \/ claimStep'[c] = "failed" /\ claimTx[c] = "reverted"
    BY <1>0, <1>5 DEF ClaimReceipt, HasTransferEvent, ClaimGo, TypeOK, chainVars
  <2>2. ClaimStepInv(c)' /\ Undisturbed(c)'
    BY <2>1 DEF ClaimStepInv, Undisturbed
  <2>3. ClaimMove(c)
    BY <1>3, <2>1 DEF ClaimMove, DueClaim, storage
  <2> QED BY <1>0, <1>1, <1>2, <2>1, <2>2, <2>3, ClaimBalanceStep
<1>6. CASE ClaimPollFails(c)
  <2>1. /\ claimStep[c] = "receipt" /\ claimStep'[c] = "dangling"
        /\ UNCHANGED <<balance, storage, claimTx, paid>> /\ faults' # 0
    BY <1>0, <1>6 DEF ClaimPollFails, ClaimGo, TypeOK, chainVars, Fault
  <2>2. ClaimStepInv(c)' /\ ~Calm'
    BY <2>1 DEF ClaimStepInv, Calm
  <2>3. ClaimMove(c)
    BY <1>3, <2>1, <2>2 DEF ClaimMove, DueClaim, storage
  <2> QED BY <1>0, <1>1, <2>2, <2>3, ClaimBalanceStep
<1>7. CASE CreditBeneficiary(c)
  <2>1. /\ claimStep[c] = "credit" /\ claimStep'[c] = "done" /\ claimTx[c] = "mined"
        /\ UNCHANGED <<balance, claimTx, paid>>
        /\ \/ Add(BeneficiaryOf[c], paid[c], 0)
           \/ UNCHANGED storage /\ ~Calm'
    BY <1>0, <1>7 DEF CreditBeneficiary, ClaimGo, TypeOK, ClaimStepInv, chainVars, Fault, Calm
  <2>2. ClaimStepInv(c)' /\ Undisturbed(c)'
    BY <2>1 DEF ClaimStepInv, Undisturbed
  <2>3. ASSUME NEW a \in Accounts
        PROVE  /\ unsettled'[a] = unsettled[a]
               /\ \/ settled'[a] = settled[a] + (IF BeneficiaryOf[c] = a THEN paid[c] ELSE 0)
                  \/ settled'[a] = settled[a] /\ ~Calm'
    BY <1>0, <1>3, <2>1 DEF Add, storage, TypeOK
  <2>4. ClaimMove(c)
    BY <1>3, <2>1, <2>3 DEF ClaimMove, DueClaim
  <2> QED BY <1>0, <1>1, <1>2, <2>1, <2>2, <2>4, ClaimBalanceStep
<1>8. CASE MineClaim(c)
  <2>1. /\ claimTx[c] = "pending" /\ UNCHANGED <<storage, claimStep>>
        /\ \/ claimTx'[c] = "mined"
           \/ claimTx'[c] = "reverted" /\ claimable[BeneficiaryOf[c]] = 0
        /\ paid'[c] = claimable[BeneficiaryOf[c]]
    BY <1>0, <1>3, <1>8 DEF MineClaim, TypeOK, calls
  <2>2. claimStep[c] \in {"receipt", "failed", "dangling", "killed"}
    BY <1>0, <2>1 DEF ClaimStepInv, TypeOK, ClaimWaiting, ClaimEnded
  <2>3. ClaimStepInv(c)'
    BY <2>1, <2>2 DEF ClaimStepInv
  <2>4. Calm' => claimStep[c] = "receipt" /\ Undisturbed(c)'
    BY <1>0, <1>2, <2>1, <2>2 DEF BalanceInv, CalmInv, Undisturbed
  <2>5. ASSUME NEW a \in Accounts
        PROVE  /\ unsettled'[a] = unsettled[a] /\ settled'[a] = settled[a]
               /\ balance'[a] = balance[a] + (IF BeneficiaryOf[c] = a THEN paid'[c] ELSE 0)
    BY <1>0, <1>3, <1>8, <2>1 DEF MineClaim, storage, TypeOK
  <2>6. ClaimMove(c)
    BY <1>0, <1>3, <2>1, <2>4, <2>5 DEF ClaimMove, DueClaim
  <2> QED BY <1>0, <1>1, <1>2, <2>1, <2>3, <2>4, <2>6, ClaimBalanceStep
<1> QED BY <1>4, <1>5, <1>6, <1>7, <1>8 DEF ClaimProgress

-----------------------------------------------------------------------------
(* The kill.                                                                 *)

\* What is due when the process dies is due no longer: the totals shrink.
LEMMA TotalShrinks ==
  ASSUME TypeOK, NEW S, NEW R, \A t \in Transfers : t \in R => t \in S
  PROVE  Total(R) <= Total(S) /\ Total(R) \in Nat /\ Total(S) \in Nat
<1>1. \A t \in Transfers : Shares(R)[t] <= Shares(S)[t]
  BY AmountType DEF Shares, Share
<1> QED BY <1>1, TotalIsSum, SumLe, BrandedTokenTransferAssumption

LEMMA PayoutShrinks ==
  ASSUME TypeOK, NEW S, NEW R, \A c \in Claims : c \in R => c \in S
  PROVE  Payout(R) <= Payout(S) /\ Payout(R) \in Nat /\ Payout(S) \in Nat
<1>1. \A c \in Claims : ClaimShares(R)[c] <= ClaimShares(S)[c]
  BY DEF ClaimShares, ClaimShare, TypeOK
<1> QED BY <1>1, PayoutIsSum, SumLe, BrandedTokenTransferAssumption

LEMMA CrashBalance ==
  ASSUME IInv, Crash PROVE BalanceInv'
<1>0. /\ TypeOK /\ BalanceInv /\ UNCHANGED <<balance, tx, claimTx, paid, storage, request, misjudged>>
      /\ crashes' = crashes + 1 /\ crashes \in Nat
      /\ \A t \in Transfers : step'[t] = IF step[t] \in Waiting THEN "killed" ELSE step[t]
      /\ \A c \in Claims :
           claimStep'[c] = IF claimStep[c] \in ClaimWaiting THEN "killed" ELSE claimStep[c]
  BY BrandedTokenTransferAssumption DEF IInv, CallsInv, TypeOK, Crash, chainVars
<1>1. \A c \in Claims : ClaimStepInv(c)'
  BY <1>0 DEF BalanceInv, ClaimStepInv, ClaimWaiting
<1>2. ~Calm'
  BY <1>0 DEF Calm
<1>3. ASSUME NEW a \in Accounts
      PROVE  /\ \A t \in Transfers : t \in HeldFrom(a)' => t \in HeldFrom(a)
             /\ \A t \in Transfers : t \in DueTo(a)' => t \in DueTo(a)
             /\ \A c \in Claims : c \in DueClaims(a)' => c \in DueClaims(a)
             /\ \A t \in Transfers : t \in Excess(a) => t \in Excess(a)'
  BY <1>0 DEF HeldFrom, DueTo, DueClaims, Excess, From, To, Reserved, Waiting
<1>4. ASSUME NEW a \in Accounts
      PROVE  /\ Total(HeldFrom(a))' = Total(HeldFrom(a)') /\ Total(DueTo(a))' = Total(DueTo(a)')
             /\ Payout(DueClaims(a))' = Payout(DueClaims(a)')
             /\ Total(Excess(a))' = Total(Excess(a)')
  BY <1>0 DEF Total, Payout, Amount
<1>5. LedgerInv'
  <2> SUFFICES ASSUME NEW a \in Accounts
               PROVE  balance'[a] + Total(Excess(a))'
                        >= settled'[a] - unsettled'[a] + Total(HeldFrom(a))'
                             + Total(DueTo(a))' + Payout(DueClaims(a))'
    BY DEF LedgerInv, Available
  <2>1. balance[a] + Total(Excess(a))
          >= settled[a] - unsettled[a] + Total(HeldFrom(a)) + Total(DueTo(a))
               + Payout(DueClaims(a))
    BY <1>0 DEF BalanceInv, LedgerInv, Available
  <2>2. /\ balance'[a] = balance[a] /\ settled'[a] = settled[a] /\ unsettled'[a] = unsettled[a]
        /\ balance[a] \in Int /\ settled[a] \in Int /\ unsettled[a] \in Int
    BY <1>0 DEF TypeOK, storage
  <2>3. /\ Total(HeldFrom(a))' <= Total(HeldFrom(a)) /\ Total(HeldFrom(a))' \in Nat
        /\ Total(DueTo(a))' <= Total(DueTo(a)) /\ Total(DueTo(a))' \in Nat
        /\ Payout(DueClaims(a))' <= Payout(DueClaims(a)) /\ Payout(DueClaims(a))' \in Nat
        /\ Total(HeldFrom(a)) \in Nat /\ Total(DueTo(a)) \in Nat /\ Payout(DueClaims(a)) \in Nat
        /\ Total(Excess(a)) <= Total(Excess(a))' /\ Total(Excess(a)) \in Nat
        /\ Total(Excess(a))' \in Nat
    BY <1>0, <1>3, <1>4, TotalShrinks, PayoutShrinks
  <2> QED BY <2>1, <2>2, <2>3
<1> QED BY <1>1, <1>2, <1>5 DEF BalanceInv, CalmInv

\* At the start the storage agrees with the chain and nothing is under way.
LEMMA BalanceInit == Init => BalanceInv
<1> SUFFICES ASSUME Init PROVE BalanceInv
  OBVIOUS
<1>1. TypeOK
  BY CallsInit DEF CallsInv
<1>2. ASSUME NEW a \in Accounts
      PROVE  /\ Total(HeldFrom(a)) = 0 /\ Total(DueTo(a)) = 0 /\ Payout(DueClaims(a)) = 0
             /\ Total(OwedBy(a)) = 0 /\ Total(Unsettling(a)) = 0 /\ Total(Excess(a)) = 0
             /\ balance[a] = settled[a] /\ unsettled[a] = 0 /\ balance[a] \in Int
  <2>1. misjudged = {} /\ \A t \in Transfers : step[t] = "new" /\ tx[t] = "none"
    BY DEF Init
  <2>2. \A c \in Claims : claimTx[c] = "none"
    BY DEF Init
  <2>3. /\ \A t \in Transfers : t \notin HeldFrom(a) /\ t \notin DueTo(a)
                                /\ t \notin OwedBy(a) /\ t \notin Unsettling(a)
                                /\ t \notin Excess(a)
        /\ \A c \in Claims : c \notin DueClaims(a)
    BY <2>1, <2>2 DEF HeldFrom, DueTo, OwedBy, Unsettling, Excess, DueClaims, Reserved
  <2>4. balance[a] = settled[a] /\ unsettled[a] = 0 /\ balance[a] \in Int
    BY <1>1 DEF Init, TypeOK
  <2> QED BY <1>1, <2>3, <2>4, TotalOfNone, PayoutOfNone
<1>3. LedgerInv
  BY <1>2 DEF LedgerInv, Available
<1>4. CalmInv
  BY <1>2 DEF CalmInv, Init, Undisturbed
<1>5. \A c \in Claims : ClaimStepInv(c)
  BY DEF Init, ClaimStepInv
<1> QED BY <1>3, <1>4, <1>5 DEF BalanceInv

-----------------------------------------------------------------------------
(* What a transfer that is misjudged took.                                   *)
Charged == \/ faults' = faults + 1 /\ lates' = lates
           \/ faults' = faults /\ lates' = lates + 1

LEMMA CostStep ==
  ASSUME TypeOK, CostInv, NEW t,
         \/ InDoubt' \subseteq InDoubt /\ (Charged \/ UNCHANGED <<faults, lates>>)
         \/ InDoubt' \subseteq InDoubt \cup {t} /\ Charged
  PROVE  CostInv'
<1>1. InDoubt \subseteq Transfers
  BY DEF InDoubt, TypeOK
<1>2. IsFiniteSet(InDoubt) /\ Cardinality(InDoubt) \in Nat
  BY <1>1, BrandedTokenTransferAssumption, FS_Subset, FS_CardinalityType
<1>3. /\ IsFiniteSet(InDoubt \cup {t}) /\ Cardinality(InDoubt \cup {t}) \in Nat
      /\ Cardinality(InDoubt \cup {t}) <= Cardinality(InDoubt) + 1
  <2>1. IsFiniteSet(InDoubt \cup {t})
    BY <1>2, FS_AddElement
  <2>2. Cardinality(InDoubt \cup {t})
          = IF t \in InDoubt THEN Cardinality(InDoubt) ELSE Cardinality(InDoubt) + 1
    BY <1>2, FS_AddElement
  <2> QED BY <1>2, <2>1, <2>2
<1>4. faults \in Nat /\ lates \in Nat /\ Cardinality(InDoubt) <= faults + lates
  <2>1. faults \in Nat /\ lates \in Nat
    BY BrandedTokenTransferAssumption DEF TypeOK
  <2> QED BY <2>1 DEF CostInv
<1>5. CASE InDoubt' \subseteq InDoubt /\ (Charged \/ UNCHANGED <<faults, lates>>)
  <2>1. Cardinality(InDoubt') <= Cardinality(InDoubt) /\ Cardinality(InDoubt') \in Nat
    BY <1>2, <1>5, FS_Subset, FS_CardinalityType
  <2>2. Cardinality(InDoubt') <= faults' + lates'
    BY <1>2, <1>4, <1>5, <2>1 DEF Charged
  <2> QED BY <2>2 DEF CostInv
<1>6. CASE InDoubt' \subseteq InDoubt \cup {t} /\ Charged
  <2>1. /\ Cardinality(InDoubt') <= Cardinality(InDoubt \cup {t})
        /\ Cardinality(InDoubt') \in Nat
    BY <1>3, <1>6, FS_Subset, FS_CardinalityType
  <2>2. Cardinality(InDoubt') <= faults' + lates'
    BY <1>2, <1>3, <1>4, <1>6, <2>1 DEF Charged
  <2> QED BY <2>2 DEF CostInv
<1> QED BY <1>5, <1>6

\* Only a failed request or a late transaction of its own brings a transfer into
\* doubt.
LEMMA CostNext == CallsInv /\ CostInv /\ [Next]_vars => CostInv'
<1> SUFFICES ASSUME CallsInv, CostInv, [Next]_vars PROVE CostInv'
  OBVIOUS
<1>1. TypeOK
  BY DEF CallsInv
<1>2. ASSUME UNCHANGED misjudged, Charged \/ UNCHANGED <<faults, lates>>,
             \A t \in Transfers : step'[t] = "search" => step[t] = "search"
      PROVE  CostInv'
  <2>1. InDoubt' \subseteq InDoubt
    BY <1>2 DEF InDoubt
  <2> QED BY <1>1, <1>2, <2>1, CostStep
<1>3. ASSUME NEW t \in Transfers, Call(t) \/ ValidateBalance(t) \/ PessimisticDebit(t)
                                   \/ StorageRefuses(t) \/ EstimateGas(t) \/ EstimateGasFails(t)
      PROVE  CostInv'
  <2>1. /\ UNCHANGED misjudged /\ (Charged \/ UNCHANGED <<faults, lates>>)
        /\ \E s \in {"balance", "reserve", "refused", "gas", "send", "thrown"} : Go(t, s)
    BY <1>3 DEF Call, ValidateBalance, PessimisticDebit, StorageRefuses, EstimateGas,
       EstimateGasFails, Fault, NoFault, bounds, Charged
  <2> QED BY <1>1, <1>2, <2>1 DEF Go, TypeOK
<1>4. ASSUME NEW t \in Transfers, SendTransaction(t) \/ Receipt(t) \/ SearchBreaksOff(t)
                                   \/ CreditRecipient(t) \/ DebitSender(t) \/ Rollback(t)
      PROVE  CostInv'
  <2>1. /\ UNCHANGED misjudged /\ (Charged \/ UNCHANGED <<faults, lates>>)
        /\ \E s \in {"receipt", "credit", "rollback", "dangling", "debit", "done", "failed"} :
             Go(t, s)
    BY <1>4 DEF SendTransaction, Receipt, AfterReceipt, SearchBreaksOff, CreditRecipient, DebitSender,
       Rollback, Fault, NoFault, bounds, Charged
  <2> QED BY <1>1, <1>2, <2>1 DEF Go, TypeOK
<1>5. ASSUME NEW t \in Transfers, SearchFinds(t) \/ SearchGivesUp(t) PROVE CostInv'
  <2>1. UNCHANGED <<faults, lates>> /\ misjudged' \subseteq misjudged \cup {t} /\ step[t] = "search"
    BY <1>5 DEF SearchFinds, SearchGivesUp, bounds
  <2>2. \A u \in Transfers : step'[u] = "search" => step[u] = "search"
    BY <1>1, <1>5 DEF SearchFinds, SearchGivesUp, Go, TypeOK
  <2>3. InDoubt' \subseteq InDoubt
    BY <2>1, <2>2 DEF InDoubt
  <2> QED BY <1>1, <2>1, <2>3, CostStep
<1>6. ASSUME NEW t \in Transfers, SendFails(t) \/ ReceiptFails(t) \/ NotMined(t) PROVE CostInv'
  <2>1. Charged /\ misjudged' \subseteq misjudged \cup {t}
    BY <1>6 DEF SendFails, ReceiptFails, NotMined, Fault, Charged
  <2>2. \A u \in Transfers \ {t} : step'[u] = step[u]
    BY <1>1, <1>6 DEF SendFails, ReceiptFails, NotMined, Go, TypeOK
  <2>3. InDoubt' \subseteq InDoubt \cup {t}
    BY <2>1, <2>2 DEF InDoubt
  <2> QED BY <1>1, <2>1, <2>3, CostStep
<1>7. ASSUME NEW t \in Transfers, MineTransfer(t) PROVE CostInv'
  BY <1>2, <1>7 DEF MineTransfer, calls, bounds
<1>8. ASSUME NEW c \in Claims, CallClaim(c) \/ ClaimProgress(c) \/ MineClaim(c) PROVE CostInv'
  <2>1. UNCHANGED <<step, misjudged>> /\ (Charged \/ UNCHANGED <<faults, lates>>)
    BY <1>8 DEF CallClaim, ClaimProgress, SendClaim, SendClaimFails, ClaimReceipt, ClaimPollFails,
       CreditBeneficiary, MineClaim, Fault, NoFault, calls, bounds, Charged
  <2> QED BY <1>2, <2>1
<1>9. CASE Crash \/ UNCHANGED vars
  BY <1>2, <1>9 DEF Crash, vars, calls, bounds
<1> QED BY <1>3, <1>4, <1>5, <1>6, <1>7, <1>8, <1>9 DEF Next, Progress

-----------------------------------------------------------------------------
(* The whole.                                                                *)
LEMMA InitInv == Init => IInv
<1> SUFFICES ASSUME Init PROVE CostInv
  BY CallsInit, BalanceInit DEF IInv
<1>1. InDoubt = {} /\ faults = 0 /\ lates = 0
  BY DEF Init, InDoubt
<1> QED BY <1>1, FS_EmptySet DEF CostInv

LEMMA NextInv == IInv /\ [Next]_vars => IInv'
<1> SUFFICES ASSUME IInv, [Next]_vars PROVE IInv'
  OBVIOUS
<1>1. CallsInv'
  BY CallsNext DEF IInv
<1>2. BalanceInv'
  <2>1. ASSUME NEW t \in Transfers, Call(t) \/ Progress(t) \/ NotMined(t) \/ MineTransfer(t)
        PROVE  BalanceInv'
    BY <1>1, <2>1, TransferBalance
  <2>2. ASSUME NEW c \in Claims, CallClaim(c) \/ ClaimProgress(c) \/ MineClaim(c)
        PROVE  BalanceInv'
    BY <1>1, <2>2, ClaimBalance
  <2>3. CASE UNCHANGED vars
    <3>1. /\ UNCHANGED <<balance, settled, unsettled, misjudged, faults, crashes, step, tx, request>>
          /\ UNCHANGED <<claimStep, claimTx, paid>>
      BY <2>3 DEF vars, chainVars, storage, calls, bounds
    <3>2. ASSUME NEW a \in Accounts
          PROVE  /\ Total(HeldFrom(a))' = Total(HeldFrom(a)) /\ Total(DueTo(a))' = Total(DueTo(a))
                 /\ Total(OwedBy(a))' = Total(OwedBy(a))
                 /\ Total(Unsettling(a))' = Total(Unsettling(a))
                 /\ Payout(DueClaims(a))' = Payout(DueClaims(a))
                 /\ Total(Excess(a))' = Total(Excess(a))
      BY <3>1 DEF Total, Payout, HeldFrom, DueTo, DueClaims, OwedBy, Unsettling, Excess, From, To,
         Amount
    <3>3. LedgerInv'
      BY <3>1, <3>2 DEF IInv, BalanceInv, LedgerInv, Available
    <3>4. CalmInv'
      BY <3>1, <3>2 DEF IInv, BalanceInv, CalmInv, Calm, Undisturbed
    <3>5. \A c \in Claims : ClaimStepInv(c)'
      BY <3>1 DEF IInv, BalanceInv, ClaimStepInv
    <3> QED BY <3>3, <3>4, <3>5 DEF BalanceInv
  <2> QED BY <2>1, <2>2, <2>3, CrashBalance DEF Next
<1>3. CostInv'
  BY CostNext DEF IInv
<1> QED BY <1>1, <1>2, <1>3 DEF IInv

-----------------------------------------------------------------------------
\* What a transfer awaits, how it ended and what it answered follow its
\* transaction, and the stored balances follow the chain by what is under way,
\* whatever else runs, fails or dies (branded_token.js transfer and claim).
THEOREM TransferInvariant == Spec => []IInv
<1> QED BY InitInv, NextInv, PTL DEF Spec

\* A transfer answers with a receipt only when its tokens have moved and with an
\* error only when they have not and will not; each transfer of which that is not
\* so has taken a request of its own that failed after the transaction was sent,
\* or a transaction that was late (branded_token.js:420-458).
THEOREM AnswersTrueHolds == Spec => []AnswersTrue
<1>1. IInv => AnswersTrue
  <2> SUFFICES ASSUME IInv PROVE AnswersTrue
    OBVIOUS
  <2>1. TypeOK /\ CostInv /\ \A t \in Transfers : StepInv(t) /\ JudgementInv(t) /\ AnswerInv(t)
    BY DEF IInv, CallsInv
  <2>2. Cardinality(misjudged) <= faults + lates
    <3>1. InDoubt \subseteq Transfers /\ misjudged \subseteq InDoubt
      BY <2>1 DEF InDoubt, TypeOK
    <3>2. IsFiniteSet(InDoubt)
      BY <3>1, BrandedTokenTransferAssumption, FS_Subset
    <3>3. /\ Cardinality(misjudged) <= Cardinality(InDoubt)
          /\ Cardinality(misjudged) \in Nat /\ Cardinality(InDoubt) \in Nat
      BY <3>1, <3>2, FS_Subset, FS_CardinalityType
    <3>4. faults \in Nat /\ lates \in Nat
      BY <2>1, BrandedTokenTransferAssumption DEF TypeOK
    <3> QED BY <2>1, <3>3, <3>4 DEF CostInv
  <2> QED BY <2>1, <2>2 DEF StepInv, JudgementInv, AnswerInv, AnswersTrue, BeforeSend
<1> QED BY <1>1, TransferInvariant, PTL

\* However many transfers and claims overlap, whatever fails or is killed, the
\* balance that is shown never exceeds what the chain has less what is sent and
\* not mined, but for the amounts of the transfers that were decided against the
\* chain (_validateBalance, _pessimisticDebit and the settlement in
\* branded_token.js).
THEOREM NeverOverpromisesHolds == Spec => []NeverOverpromises
<1>1. IInv => NeverOverpromises
  <2> SUFFICES ASSUME IInv, NEW a \in Accounts
               PROVE  Available(a) + Total(SentFrom(a)) <= balance[a] + Total(Excess(a))
    BY DEF NeverOverpromises
  <2>1. TypeOK /\ LedgerInv
    BY DEF IInv, CallsInv, BalanceInv
  <2>2. \A t \in Transfers : t \in SentFrom(a) => t \in HeldFrom(a)
    BY DEF SentFrom, HeldFrom
  <2>3. /\ Total(SentFrom(a)) <= Total(HeldFrom(a))
        /\ Total(SentFrom(a)) \in Nat /\ Total(HeldFrom(a)) \in Nat
    BY <2>1, <2>2, TotalShrinks
  <2>4. Total(DueTo(a)) \in Nat /\ Payout(DueClaims(a)) \in Nat /\ Total(Excess(a)) \in Nat
    BY <2>1, TotalIsSum, PayoutIsSum
  <2>5. balance[a] \in Int /\ Available(a) \in Int
    BY <2>1 DEF TypeOK, Available
  <2>6. balance[a] + Total(Excess(a))
          >= Available(a) + Total(HeldFrom(a)) + Total(DueTo(a)) + Payout(DueClaims(a))
    BY <2>1 DEF LedgerInv
  <2> QED BY <2>3, <2>4, <2>5, <2>6
<1> QED BY <1>1, TransferInvariant, PTL

\* When all has come to an end and nothing failed or was killed, the stored
\* balances are the chain's, but for the reservations of the transfers that died
\* at their gas estimate (branded_token.js transfer, outside its catch block).
THEOREM BalancesSettleHolds == Spec => []BalancesSettle
<1>1. IInv => BalancesSettle
  <2> SUFFICES ASSUME IInv, AtRest, Calm, NEW a \in Accounts
               PROVE  settled[a] = balance[a] /\ unsettled[a] = Total(ThrownOf(a))
    BY DEF BalancesSettle, Calm
  <2>1. TypeOK /\ CalmInv
    BY DEF IInv, CallsInv, BalanceInv
  <2>2. /\ \A t \in Transfers : step[t] \notin Waiting
        /\ \A c \in Claims : claimStep[c] \notin ClaimWaiting
    BY DEF AtRest, Waiting, Ended, ClaimWaiting, ClaimEnded
  <2>3. /\ \A t \in Transfers : t \notin DueTo(a) /\ t \notin OwedBy(a)
        /\ \A c \in Claims : c \notin DueClaims(a)
    BY <2>2 DEF DueTo, OwedBy, DueClaims, Waiting, ClaimWaiting
  <2>4. \A t \in Transfers : t \in Unsettling(a) <=> t \in ThrownOf(a)
    BY <2>2 DEF Unsettling, ThrownOf, Reserved, Waiting
  <2>5. Total(DueTo(a)) = 0 /\ Total(OwedBy(a)) = 0 /\ Payout(DueClaims(a)) = 0
    BY <2>1, <2>3, TotalOfNone, PayoutOfNone
  <2>6. Total(Unsettling(a)) = Total(ThrownOf(a))
    BY <2>4 DEF Total
  <2>7. /\ settled[a] + Total(DueTo(a)) + Payout(DueClaims(a)) = balance[a] + Total(OwedBy(a))
        /\ unsettled[a] = Total(Unsettling(a))
    BY <2>1 DEF CalmInv
  <2>8. settled[a] \in Int /\ balance[a] \in Int
    BY <2>1 DEF TypeOK
  <2> QED BY <2>5, <2>6, <2>7, <2>8
<1> QED BY <1>1, TransferInvariant, PTL
-----------------------------------------------------------------------------
(* The minting tool, of which the sum is what its runs have left of the ST  *)
(* they were given: for any number of runs, tokens, failures and kills.     *)

\* What is asked for is divided into the two stakes.
LEMMA Division ==
  ASSUME MintTypeOK, NEW r \in Runs
  PROVE  /\ AmountToStake(r) \in Nat /\ StakeOf(r, "BT") \in Nat /\ StakeOf(r, "STPrime") \in Nat
         /\ StakeOf(r, "BT") + StakeOf(r, "STPrime") = AmountToStake(r)
         /\ \A p \in Parts : StakeOf(r, p) \in Nat
PROOF
  <1>1. mintRequest[r] \in MintRequests \cup {NotAsked}
    BY DEF MintTypeOK
  <1>2. AmountToStake(r) \in Nat
    <2>1. MintRequests \subseteq [token : Tokens, amount : Nat]
      BY MintToolAssumption
    <2>2. mintRequest[r].amount \in Nat
      <3>1. CASE mintRequest[r] \in MintRequests
        <4>1. mintRequest[r] \in [token : Tokens, amount : Nat]
          BY <2>1, <3>1
        <4>2. QED BY <4>1
      <3>2. CASE mintRequest[r] = NotAsked
        <4>1. NotAsked.amount = 0
          BY DEF NotAsked
        <4>2. QED BY <3>2, <4>1
      <3>3. QED BY <1>1, <3>1, <3>2
    <2>3. QED BY <2>2 DEF AmountToStake
  <1>3. ForBT(AmountToStake(r)) \in Nat /\ ForBT(AmountToStake(r)) <= AmountToStake(r)
    BY <1>2 DEF ForBT
  <1>4. "BT" # "STPrime"
    OBVIOUS
  <1>5. /\ StakeOf(r, "BT") = ForBT(AmountToStake(r))
        /\ StakeOf(r, "STPrime") = AmountToStake(r) - ForBT(AmountToStake(r))
    BY <1>4 DEF StakeOf
  <1>6. StakeOf(r, "BT") \in Nat /\ StakeOf(r, "STPrime") \in Nat
        /\ StakeOf(r, "BT") + StakeOf(r, "STPrime") = AmountToStake(r)
    BY <1>2, <1>3, <1>5
  <1>7. QED BY <1>2, <1>6 DEF Parts

LEMMA TokenOf ==
  ASSUME NEW r \in Runs, RunInv(r), mintStep[r] # "new"
  PROVE  Token(r) \in Tokens
PROOF
  BY MintToolAssumption DEF RunInv, Token

\* What moves to or from a reserve besides.
LEMMA MoveType ==
  ASSUME NEW m \in Moved
  PROVE  m.token \in Tokens /\ m.part \in Parts /\ m.amount \in Nat
PROOF
  <1>1. m \in [token : Tokens, part : Parts, amount : Nat]
    BY MintToolAssumption
  <1>2. QED BY <1>1

\* The transaction that is mined next.
LEMMA FirstSent ==
  ASSUME MintTypeOK, sent # <<>>
  PROVE  /\ Head(sent) \in Txs /\ Head(sent).run \in Runs /\ Head(sent) = sent[1]
         /\ 1 \in DOMAIN sent /\ Tail(sent) \in Seq(Txs)
         /\ Len(sent) \in Nat \ {0} /\ DOMAIN sent = 1..Len(sent)
         /\ Len(Tail(sent)) = Len(sent) - 1 /\ DOMAIN Tail(sent) = 1..(Len(sent) - 1)
         /\ \A i \in DOMAIN Tail(sent) : i + 1 \in DOMAIN sent /\ Tail(sent)[i] = sent[i + 1]
PROOF
  <1>1. sent \in Seq(Txs)
    BY DEF MintTypeOK
  <1>2. Head(sent) \in Txs /\ Tail(sent) \in Seq(Txs) /\ Len(sent) \in Nat \ {0}
    BY <1>1
  <1>3. Head(sent).run \in Runs
    BY <1>2 DEF Txs
  <1>4. Head(sent) = sent[1] /\ 1 \in DOMAIN sent /\ DOMAIN sent = 1..Len(sent)
        /\ Len(Tail(sent)) = Len(sent) - 1 /\ DOMAIN Tail(sent) = 1..(Len(sent) - 1)
    BY <1>1, <1>2
  <1>5. \A i \in DOMAIN Tail(sent) : i + 1 \in DOMAIN sent /\ Tail(sent)[i] = sent[i + 1]
    BY <1>1, <1>2, <1>4
  <1>6. QED BY <1>2, <1>3, <1>4, <1>5

\* The queue with one more transaction.
LEMMA OneMoreSent ==
  ASSUME MintTypeOK, NEW entry \in Txs, sent' = Append(sent, entry)
  PROVE  /\ sent' \in Seq(Txs) /\ sent' # <<>> /\ Len(sent') = Len(sent) + 1
         /\ DOMAIN sent = 1..Len(sent) /\ DOMAIN sent' = 1..(Len(sent) + 1)
         /\ Len(sent) \in Nat
         /\ \A i \in DOMAIN sent : sent'[i] = sent[i]
         /\ sent'[Len(sent) + 1] = entry
PROOF
  <1>1. sent \in Seq(Txs)
    BY DEF MintTypeOK
  <1>2. QED BY <1>1

\* Which steps change what.
Moves(r) ==
  /\ mintStep[r] \in Running \/ Begin(r)
  /\ \E s \in Running \cup Exited :
       /\ mintStep' = [mintStep EXCEPT ![r] = s]
       /\ s = "approve" => GetStakerSTBalance(r)
       /\ s \in {"beforeSTPrime", "waitSTPrime"} => mintStep[r] \in {"STPrime", "beforeSTPrime"}
       /\ s \in {"waitBT", "waitSTPrime"} => \E p \in Parts : ReadBefore(r, p) /\ s = Wait(p)
       /\ s \in {"STPrime", "exit 0"} => \E p \in Parts : SeeMint(r, p) /\ s = After(p)

Frame ==
  /\ UNCHANGED mintStep \/ \E r \in Runs : Moves(r)
  /\ UNCHANGED <<mintRequest, disturbed>> \/ \E r \in Runs : Begin(r)
  /\ UNCHANGED gift \/ \E r \in Runs : TransferST(r) \/ TransferFails(r) \/ MineGift(r)
  /\ UNCHANGED foundation \/ \E r \in Runs : MineGift(r)
  /\ UNCHANGED staker \/ MineStake \/ \E r \in Runs : MineGift(r)
  /\ UNCHANGED allowance \/ MineApproval \/ MineStake
  /\ \/ UNCHANGED sent \/ MineApproval \/ MineStake \/ \E r \in Runs : Approve(r)
     \/ \E r \in Runs, p \in Parts : StartStake(r, p)
  /\ UNCHANGED approval \/ MineApproval \/ \E r \in Runs : Approve(r)
  /\ UNCHANGED stake \/ MineStake \/ \E r \in Runs, p \in Parts : StartStake(r, p) \/ Credit(r, p)
  /\ \/ UNCHANGED <<credit, misled>>
     \/ (\E r \in Runs, p \in Parts : Credit(r, p)) \/ \E m \in Moved : MoveReserve(m)
  /\ UNCHANGED drained \/ \E m \in Moved : MoveReserve(m)
  /\ UNCHANGED moves \/ (moves < MaxMoves /\ moves' = moves + 1)
  /\ \/ UNCHANGED seen
     \/ \E r \in Runs : GetStakerSTBalance(r) \/ \E p \in Parts : ReadBefore(r, p)
  /\ UNCHANGED mintFaults \/ (mintFaults < MaxMintFaults /\ mintFaults' = mintFaults + 1)
  /\ UNCHANGED kills \/ (kills < MaxKills /\ kills' = kills + 1)

LEMMA Frames ==
  ASSUME [MintNext]_mintVars
  PROVE  Frame
PROOF
  <1>1. ASSUME NEW r \in Runs, Begin(r) PROVE Frame
    <2>1. UNCHANGED <<foundation, staker, allowance, sent, gift, approval, stake, credit,
                      seen, mintFaults, kills,
                      misled, drained, moves>>
      BY <1>1 DEF Begin, mintBounds, chain, reserves
    <2>2. Moves(r)
      BY <1>1 DEF Begin, Await, Moves, Running, Exited
    <2>3. QED BY <1>1, <2>1, <2>2 DEF Frame
  <1>2. ASSUME NEW r \in Runs, ValidateSTBalance(r) PROVE Frame
    <2>1. UNCHANGED <<foundation, staker, allowance, sent, gift, approval, stake, credit,
                      mintRequest, seen, disturbed, mintFaults, kills,
                      misled, drained, moves>>
      BY <1>2 DEF ValidateSTBalance, mintBounds, chain, reserves
    <2>2. mintStep[r] \in Running
          /\ \E s \in {"transferGas", "balance"} : mintStep' = [mintStep EXCEPT ![r] = s]
      BY <1>2 DEF ValidateSTBalance, Await, Running
    <2>3. Moves(r)
      BY <2>2 DEF Moves, Running, Exited
    <2>4. QED BY <1>2, <2>1, <2>3 DEF Frame
  <1>3. ASSUME NEW r \in Runs, TransferST(r) PROVE Frame
    <2>1. UNCHANGED <<foundation, staker, allowance, sent, approval, stake, credit,
                      mintRequest, seen, disturbed, mintFaults, kills,
                      misled, drained, moves>>
      BY <1>3 DEF TransferST, mintBounds, reserves
    <2>2. Moves(r)
      BY <1>3 DEF TransferST, Await, Moves, Running, Exited
    <2>3. QED BY <1>3, <2>1, <2>2 DEF Frame
  <1>4. ASSUME NEW r \in Runs, TransferReceipt(r) PROVE Frame
    <2>1. UNCHANGED <<foundation, staker, allowance, sent, gift, approval, stake, credit,
                      mintRequest, seen, disturbed, mintFaults, kills,
                      misled, drained, moves>>
      BY <1>4 DEF TransferReceipt, mintBounds, chain, reserves
    <2>2. Moves(r)
      BY <1>4 DEF TransferReceipt, Await, Moves, Running, Exited
    <2>3. QED BY <1>4, <2>1, <2>2 DEF Frame
  <1>5. ASSUME NEW r \in Runs, TransferFails(r) PROVE Frame
    <2>1. UNCHANGED <<foundation, staker, allowance, sent, approval, stake, credit,
                      mintRequest, seen, disturbed, kills,
                      misled, drained, moves>>
      BY <1>5 DEF TransferFails, MintFault, reserves
    <2>2. Moves(r)
      BY <1>5 DEF TransferFails, Await, Moves, Running, Exited
    <2>3. UNCHANGED mintFaults \/ (mintFaults < MaxMintFaults /\ mintFaults' = mintFaults + 1)
      BY <1>5 DEF TransferFails, MintFault
    <2>4. QED BY <1>5, <2>1, <2>2, <2>3 DEF Frame
  <1>6. ASSUME NEW r \in Runs, GetStakerSTBalance(r) PROVE Frame
    <2>1. UNCHANGED <<foundation, staker, allowance, sent, gift, approval, stake, credit,
                      mintRequest, disturbed, mintFaults, kills,
                      misled, drained, moves>>
      BY <1>6 DEF GetStakerSTBalance, mintBounds, chain, reserves
    <2>2. Moves(r)
      BY <1>6 DEF GetStakerSTBalance, Await, Moves, Running, Exited
    <2>3. QED BY <1>6, <2>1, <2>2 DEF Frame
  <1>7. ASSUME NEW r \in Runs, Approve(r) PROVE Frame
    <2>1. UNCHANGED <<foundation, staker, allowance, gift, stake, credit, mintRequest, seen,
                      disturbed, mintFaults, kills,
                      misled, drained, moves>>
      BY <1>7 DEF Approve, mintBounds, reserves
    <2>2. Moves(r)
      BY <1>7 DEF Approve, Await, Moves, Running, Exited
    <2>3. QED BY <1>7, <2>1, <2>2 DEF Frame
  <1>8. ASSUME NEW r \in Runs, ApproveFails(r) PROVE Frame
    <2>1. UNCHANGED <<foundation, staker, allowance, sent, gift, approval, stake, credit,
                      mintRequest, seen, disturbed, kills,
                      misled, drained, moves>>
      BY <1>8 DEF ApproveFails, MintFault, chain, reserves
    <2>2. mintStep[r] \in Running
          /\ \E s \in {"exit 1"} : mintStep' = [mintStep EXCEPT ![r] = s]
      BY <1>8 DEF ApproveFails, Await, Running
    <2>3. Moves(r)
      BY <2>2 DEF Moves, Running, Exited
    <2>4. UNCHANGED mintFaults \/ (mintFaults < MaxMintFaults /\ mintFaults' = mintFaults + 1)
      BY <1>8 DEF ApproveFails, MintFault
    <2>5. QED BY <1>8, <2>1, <2>3, <2>4 DEF Frame
  <1>9. ASSUME NEW r \in Runs, ApprovalReceipt(r) PROVE Frame
    <2>1. UNCHANGED <<foundation, staker, allowance, sent, gift, approval, stake, credit,
                      mintRequest, seen, disturbed, mintFaults, kills,
                      misled, drained, moves>>
      BY <1>9 DEF ApprovalReceipt, mintBounds, chain, reserves
    <2>2. Moves(r)
      BY <1>9 DEF ApprovalReceipt, Await, Moves, Running, Exited
    <2>3. QED BY <1>9, <2>1, <2>2 DEF Frame
  <1>10. ASSUME NEW r \in Runs, NEW p \in Parts, StartStake(r, p) PROVE Frame
    <2>1. UNCHANGED <<foundation, staker, allowance, gift, approval, credit, mintRequest,
                      seen, disturbed, kills,
                      misled, drained, moves>>
      BY <1>10 DEF StartStake, MintFault, NoMintFault, mintBounds, reserves
    <2>2. mintStep[r] \in Running
          /\ \E s \in {"beforeBT", "beforeSTPrime"} : mintStep' = [mintStep EXCEPT ![r] = s]
          /\ (s \in {"beforeSTPrime", "waitSTPrime"} =>
                mintStep[r] \in {"STPrime", "beforeSTPrime"})
      BY <1>10 DEF StartStake, Await, Before, Running, Parts
    <2>3. Moves(r)
      BY <2>2 DEF Moves, Running, Exited
    <2>4. UNCHANGED mintFaults \/ (mintFaults < MaxMintFaults /\ mintFaults' = mintFaults + 1)
      BY <1>10 DEF StartStake, MintFault, NoMintFault, mintBounds
    <2>5. QED BY <1>10, <2>1, <2>3, <2>4 DEF Frame
  <1>11. ASSUME NEW r \in Runs, NEW p \in Parts, ReadBefore(r, p) PROVE Frame
    <2>1. UNCHANGED <<foundation, staker, allowance, sent, gift, approval, stake, credit,
                      mintRequest, disturbed, mintFaults, kills,
                      misled, drained, moves>>
      BY <1>11 DEF ReadBefore, mintBounds, chain, reserves
    <2>2. /\ mintStep[r] = Before(p)
          /\ mintStep' = [mintStep EXCEPT ![r] = Wait(p)]
      BY <1>11 DEF ReadBefore, Await
    <2>3. Moves(r)
      <3>1. mintStep[r] \in Running
        BY <2>2 DEF Before, Running
      <3>2. Wait(p) \in {"waitBT", "waitSTPrime"}
        BY DEF Wait
      <3>3. Wait(p) = "waitSTPrime" => mintStep[r] = "beforeSTPrime"
        BY <2>2 DEF Wait, Before
      <3>4. \E q \in Parts : ReadBefore(r, q) /\ Wait(p) = Wait(q)
        BY <1>11
      <3>5. QED BY <2>2, <3>1, <3>2, <3>3, <3>4 DEF Moves, Running, Exited
    <2>4. QED BY <1>11, <2>1, <2>3 DEF Frame
  <1>12. ASSUME NEW r \in Runs, NEW p \in Parts, ReadBeforeFails(r, p) PROVE Frame
    <2>1. UNCHANGED <<foundation, staker, allowance, sent, gift, approval, stake, credit,
                      mintRequest, seen, disturbed, kills,
                      misled, drained, moves>>
      BY <1>12 DEF ReadBeforeFails, MintFault, chain, reserves
    <2>2. Moves(r)
      BY <1>12 DEF ReadBeforeFails, Await, Before, Moves, Running, Exited
    <2>3. UNCHANGED mintFaults \/ (mintFaults < MaxMintFaults /\ mintFaults' = mintFaults + 1)
      BY <1>12 DEF ReadBeforeFails, MintFault
    <2>4. QED BY <1>12, <2>1, <2>2, <2>3 DEF Frame
  <1>13. ASSUME NEW r \in Runs, NEW p \in Parts, SeeMint(r, p) PROVE Frame
    <2>1. UNCHANGED <<foundation, staker, allowance, sent, gift, approval, stake, credit,
                      mintRequest, seen, disturbed, mintFaults, kills,
                      misled, drained, moves>>
      BY <1>13 DEF SeeMint, mintBounds, chain, reserves
    <2>2. Moves(r)
      BY <1>13 DEF SeeMint, Await, Wait, After, Moves, Running, Exited
    <2>3. QED BY <1>13, <2>1, <2>2 DEF Frame
  <1>14. ASSUME NEW r \in Runs, MineGift(r) PROVE Frame
    <2>1. UNCHANGED <<allowance, sent, approval, stake, credit, mintStep, mintRequest, seen,
                      disturbed, mintFaults, kills,
                      misled, drained, moves>>
      BY <1>14 DEF MineGift, mintBounds, reserves
    <2>2. QED BY <1>14, <2>1 DEF Frame
  <1>15. ASSUME NEW r \in Runs, NEW p \in Parts, Credit(r, p) PROVE Frame
    <2>1. UNCHANGED <<foundation, staker, allowance, sent, gift, approval, mintStep, mintRequest,
                      seen, disturbed, mintFaults, kills,
                      drained, moves>>
      BY <1>15 DEF Credit, mintBounds
    <2>2. QED BY <1>15, <2>1 DEF Frame
  <1>16. ASSUME NEW r \in Runs, ApprovalPollFails(r) PROVE Frame
    <2>1. UNCHANGED <<foundation, staker, allowance, sent, gift, approval, stake, credit,
                      mintRequest, seen, disturbed, kills,
                      misled, drained, moves>>
      BY <1>16 DEF ApprovalPollFails, MintFault, chain, reserves
    <2>2. Moves(r)
      BY <1>16 DEF ApprovalPollFails, Await, Moves, Running, Exited
    <2>3. UNCHANGED mintFaults \/ (mintFaults < MaxMintFaults /\ mintFaults' = mintFaults + 1)
      BY <1>16 DEF ApprovalPollFails, MintFault
    <2>4. QED BY <1>16, <2>1, <2>2, <2>3 DEF Frame
  <1>17. ASSUME NEW r \in Runs, GetBalanceFails(r) PROVE Frame
    <2>1. UNCHANGED <<foundation, staker, allowance, sent, gift, approval, stake, credit,
                      mintRequest, seen, disturbed, kills,
                      misled, drained, moves>>
      BY <1>17 DEF GetBalanceFails, MintFault, chain, reserves
    <2>2. Moves(r)
      BY <1>17 DEF GetBalanceFails, Await, Moves, Running, Exited
    <2>3. UNCHANGED mintFaults \/ (mintFaults < MaxMintFaults /\ mintFaults' = mintFaults + 1)
      BY <1>17 DEF GetBalanceFails, MintFault
    <2>4. QED BY <1>17, <2>1, <2>2, <2>3 DEF Frame
  <1>18. ASSUME NEW r \in Runs, Kill(r) PROVE Frame
    <2>1. UNCHANGED <<foundation, staker, allowance, sent, gift, approval, stake, credit,
                      mintRequest, seen, disturbed, mintFaults,
                      misled, drained, moves>>
      BY <1>18 DEF Kill, chain, reserves
    <2>2. Moves(r)
      BY <1>18 DEF Kill, Await, Moves, Running, Exited
    <2>3. kills < MaxKills /\ kills' = kills + 1
      BY <1>18 DEF Kill
    <2>4. QED BY <1>18, <2>1, <2>2, <2>3 DEF Frame
  <1>19. CASE MineApproval
    <2>1. UNCHANGED <<foundation, staker, gift, stake, credit, mintStep, mintRequest, seen,
                      disturbed, mintFaults, kills,
                      misled, drained, moves>>
      BY <1>19 DEF MineApproval, mintBounds, reserves
    <2>2. QED BY <1>19, <2>1 DEF Frame
  <1>20. CASE MineStake
    <2>1. UNCHANGED <<foundation, gift, approval, credit, mintStep, mintRequest, seen, disturbed,
                      mintFaults, kills,
                      misled, drained, moves>>
      BY <1>20 DEF MineStake, mintBounds, reserves
    <2>2. QED BY <1>20, <2>1 DEF Frame
  <1>21. CASE UNCHANGED mintVars
    BY <1>21 DEF mintVars, chain, mintBounds, reserves, Frame
  <1>22. ASSUME NEW m \in Moved, MoveReserve(m) PROVE Frame
    <2>1. UNCHANGED <<foundation, staker, allowance, sent, gift, approval, stake, mintStep,
                      mintRequest, seen, disturbed, mintFaults, kills>>
      BY <1>22 DEF MoveReserve, mintBounds
    <2>2. moves < MaxMoves /\ moves' = moves + 1
      BY <1>22 DEF MoveReserve
    <2>3. QED BY <1>22, <2>1, <2>2 DEF Frame
  <1>23. QED
    BY <1>1, <1>2, <1>3, <1>4, <1>5, <1>6, <1>7, <1>8, <1>9, <1>10, <1>11, <1>12, <1>13,
         <1>14, <1>15, <1>16, <1>17, <1>18, <1>19, <1>20, <1>21, <1>22
    DEF MintNext, Proceed, Chain

LEMMA MintTypeStep ==
  ASSUME MintTypeOK, \A r \in Runs : RunInv(r), Frame
  PROVE  MintTypeOK'
PROOF
  <1>1. /\ foundation \in Nat /\ staker \in Nat /\ allowance \in Nat
        /\ sent \in Seq(Txs)
        /\ gift \in [Runs -> SentStates] /\ approval \in [Runs -> SentStates]
        /\ stake \in [Runs -> [Parts -> StakeStates]]
        /\ credit \in [Tokens -> [Parts -> Nat]]
        /\ mintStep \in [Runs -> {"new"} \cup Running \cup Exited]
        /\ mintRequest \in [Runs -> MintRequests \cup {NotAsked}]
        /\ seen \in [Runs -> Nat] /\ disturbed \subseteq Runs
        /\ mintFaults \in 0..MaxMintFaults /\ kills \in 0..MaxKills /\ moves \in 0..MaxMoves
        /\ misled \subseteq Runs \X Parts /\ drained \subseteq Runs \X Parts
    BY DEF MintTypeOK
  <1>2. MaxMintFaults \in Nat /\ MaxKills \in Nat /\ MaxMoves \in Nat
    BY MintToolAssumption
  <1>3. /\ mintFaults' \in 0..MaxMintFaults /\ kills' \in 0..MaxKills
        /\ moves' \in 0..MaxMoves
    BY <1>1, <1>2 DEF Frame
  <1>4. mintStep' \in [Runs -> {"new"} \cup Running \cup Exited]
    BY <1>1 DEF Frame, Moves
  <1>5. mintRequest' \in [Runs -> MintRequests \cup {NotAsked}] /\ disturbed' \subseteq Runs
    <2>1. ASSUME NEW r \in Runs, Begin(r)
          PROVE  mintRequest' \in [Runs -> MintRequests \cup {NotAsked}]
                 /\ disturbed' \subseteq Runs
      BY <1>1, <2>1 DEF Begin, Others
    <2>2. QED BY <1>1, <2>1 DEF Frame
  <1>6. gift' \in [Runs -> SentStates]
    BY <1>1 DEF Frame, TransferST, TransferFails, MineGift, SentStates
  <1>7. approval' \in [Runs -> SentStates]
    BY <1>1 DEF Frame, MineApproval, Approve, SentStates
  <1>8. stake' \in [Runs -> [Parts -> StakeStates]]
    <2>1. ASSUME NEW r \in Runs, NEW p \in Parts, NEW v \in StakeStates
          PROVE  [stake EXCEPT ![r][p] = v] \in [Runs -> [Parts -> StakeStates]]
      BY <1>1
    <2>2. ASSUME MineStake PROVE stake' \in [Runs -> [Parts -> StakeStates]]
      <3>1. Head(sent).run \in Runs /\ Head(sent).kind \in Parts
        BY <2>2, FirstSent DEF MineStake
      <3>2. "staked" \in StakeStates /\ "failed" \in StakeStates
        BY DEF StakeStates
      <3>3. \E r \in Runs, p \in Parts, v \in StakeStates : stake' = [stake EXCEPT ![r][p] = v]
        BY <2>2, <3>1, <3>2 DEF MineStake
      <3>4. QED BY <2>1, <3>3
    <2>3. ASSUME NEW r \in Runs, NEW p \in Parts, StartStake(r, p) \/ Credit(r, p)
          PROVE  stake' \in [Runs -> [Parts -> StakeStates]]
      <3>1. {"pending", "refused", "credited"} \subseteq StakeStates
        BY DEF StakeStates
      <3>2. \E v \in StakeStates : stake' = [stake EXCEPT ![r][p] = v]
        BY <2>3, <3>1 DEF StartStake, Credit
      <3>3. QED BY <2>1, <3>2
    <2>4. QED BY <1>1, <2>2, <2>3 DEF Frame
  <1>9. foundation' \in Nat /\ staker' \in Nat
    <2>1. ASSUME NEW r \in Runs, MineGift(r)
          PROVE  foundation' \in Nat /\ staker' \in Nat
      <3>1. AmountToStake(r) \in Nat
        BY <2>1, Division
      <3>2. foundation \in Nat /\ staker \in Nat
        BY <1>1
      <3>3. \/ /\ foundation >= AmountToStake(r)
               /\ foundation' = foundation - AmountToStake(r)
               /\ staker' = staker + AmountToStake(r)
            \/ foundation' = foundation /\ staker' = staker
        BY <2>1 DEF MineGift
      <3>4. QED BY <3>1, <3>2, <3>3
    <2>2. MineStake => staker' \in Nat
      <3>1. SUFFICES ASSUME MineStake PROVE staker' \in Nat
        OBVIOUS
      <3>2. StakeOf(Head(sent).run, Head(sent).kind) \in Nat
        BY <3>1, FirstSent, Division DEF MineStake
      <3>3. QED BY <1>1, <3>1, <3>2 DEF MineStake, Covered
    <2>3. QED BY <1>1, <2>1, <2>2 DEF Frame
  <1>10. allowance' \in Nat
    <2>1. MineApproval => allowance' \in Nat
      BY <1>1, FirstSent DEF MineApproval
    <2>2. MineStake => allowance' \in Nat
      <3>1. SUFFICES ASSUME MineStake PROVE allowance' \in Nat
        OBVIOUS
      <3>2. StakeOf(Head(sent).run, Head(sent).kind) \in Nat
        BY <3>1, FirstSent, Division DEF MineStake
      <3>3. QED BY <1>1, <3>1, <3>2 DEF MineStake, Covered
    <2>3. QED BY <1>1, <2>1, <2>2 DEF Frame
  <1>11. sent' \in Seq(Txs)
    <2>1. MineApproval \/ MineStake => sent' \in Seq(Txs)
      BY FirstSent DEF MineApproval, MineStake
    <2>2. ASSUME NEW r \in Runs, Approve(r) PROVE sent' \in Seq(Txs)
      BY <1>1, <2>2, OneMoreSent DEF Approve, SendTx, Txs
    <2>3. ASSUME NEW r \in Runs, NEW p \in Parts, StartStake(r, p) PROVE sent' \in Seq(Txs)
      <3>1. [run |-> r, kind |-> p] \in Txs
        BY DEF Txs
      <3>2. QED BY <1>1, <2>3, <3>1, OneMoreSent DEF StartStake, SendTx
    <2>4. QED BY <1>1, <2>1, <2>2, <2>3 DEF Frame
  <1>12. credit' \in [Tokens -> [Parts -> Nat]]
    <2>1. ASSUME NEW r \in Runs, NEW p \in Parts, Credit(r, p)
          PROVE  credit' \in [Tokens -> [Parts -> Nat]]
      <3>1. StakeOf(r, p) \in Nat
        BY Division
      <3>2. credit' = [credit EXCEPT ![Token(r)][p] = credit[Token(r)][p] + StakeOf(r, p)]
        BY <2>1 DEF Credit
      <3>3. \A t \in Tokens, q \in Parts : credit[t][q] + StakeOf(r, p) \in Nat
        BY <1>1, <3>1
      <3>4. DOMAIN credit' = Tokens /\ credit' = [t \in Tokens |-> credit'[t]]
        BY <1>1, <3>2
      <3>5. ASSUME NEW t \in Tokens PROVE credit'[t] \in [Parts -> Nat]
        <4>1. CASE t = Token(r)
          BY <1>1, <3>2, <3>3, <4>1
        <4>2. CASE t # Token(r)
          BY <1>1, <3>2, <4>2
        <4>3. QED BY <4>1, <4>2
      <3>6. QED BY <3>4, <3>5
    <2>2. ASSUME NEW m \in Moved, MoveReserve(m) PROVE credit' \in [Tokens -> [Parts -> Nat]]
      <3>1. m.token \in Tokens /\ m.part \in Parts /\ m.amount \in Nat
        BY MoveType
      <3>2. PICK n \in Nat : credit' = [credit EXCEPT ![m.token][m.part] = n]
        <4>1. credit[m.token][m.part] \in Nat
          BY <1>1, <3>1
        <4> DEFINE held == credit[m.token][m.part]
        <4>2. CASE Arrive(m.token, m.part, m.amount)
          <5>1. credit' = [credit EXCEPT ![m.token][m.part] = held + m.amount]
            BY <4>2 DEF Arrive
          <5>2. held \in Nat
            BY <4>1
          <5> HIDE DEF held
          <5>3. held + m.amount \in Nat
            BY <3>1, <5>2
          <5>4. QED BY <5>1, <5>3
        <4>3. CASE Leave(m.token, m.part, m.amount)
          <5>1. /\ credit' = [credit EXCEPT ![m.token][m.part] = held - m.amount]
                /\ held >= m.amount
            BY <4>3 DEF Leave
          <5>2. held \in Nat
            BY <4>1
          <5> HIDE DEF held
          <5>3. held - m.amount \in Nat
            BY <3>1, <5>1, <5>2
          <5>4. QED BY <5>1, <5>3
        <4>4. QED BY <2>2, <4>2, <4>3 DEF MoveReserve
      <3>3. QED BY <1>1, <3>1, <3>2
    <2>3. QED BY <1>1, <2>1, <2>2 DEF Frame
  <1>13. seen' \in [Runs -> Nat]
    <2>1. ASSUME NEW r \in Runs, GetStakerSTBalance(r) PROVE seen' \in [Runs -> Nat]
      BY <1>1, <2>1 DEF GetStakerSTBalance, See
    <2>2. ASSUME NEW r \in Runs, NEW p \in Parts, ReadBefore(r, p)
          PROVE  seen' \in [Runs -> Nat]
      <3>1. mintStep[r] # "new"
        BY <2>2 DEF ReadBefore, Before
      <3>2. credit[Token(r)][p] \in Nat
        BY <1>1, <3>1, TokenOf
      <3>3. QED BY <1>1, <2>2, <3>2 DEF ReadBefore, See
    <2>3. QED BY <1>1, <2>1, <2>2 DEF Frame
  <1>14. {foundation, staker, allowance}' \subseteq Nat
    BY <1>9, <1>10
  <1>15. misled' \subseteq Runs \X Parts /\ drained' \subseteq Runs \X Parts
    <2>1. \A t, p : Waiters(t, p) \subseteq Runs
      BY DEF Waiters
    <2>2. ASSUME NEW r \in Runs, NEW p \in Parts, Credit(r, p) PROVE misled' \subseteq Runs \X Parts
      BY <1>1, <2>1, <2>2 DEF Credit
    <2>3. ASSUME NEW m \in Moved, MoveReserve(m)
          PROVE  misled' \subseteq Runs \X Parts /\ drained' \subseteq Runs \X Parts
      BY <1>1, <2>1, <2>3, MoveType DEF MoveReserve, Arrive, Leave
    <2>4. QED BY <1>1, <2>2, <2>3 DEF Frame
  <1>16. QED
    BY <1>3, <1>4, <1>5, <1>6, <1>7, <1>8, <1>11, <1>12, <1>13, <1>14, <1>15 DEF MintTypeOK

\* No fault now, none before.
LEMMA FaultsStay ==
  ASSUME MintTypeOK, Frame
  PROVE  mintFaults' = 0 => mintFaults = 0 /\ UNCHANGED mintFaults
PROOF
  <1>1. mintFaults \in Nat
    BY DEF MintTypeOK
  <1>2. QED BY <1>1 DEF Frame

\* The functions the steps update.
LEMMA Domains ==
  ASSUME MintTypeOK
  PROVE  /\ gift \in [Runs -> SentStates] /\ approval \in [Runs -> SentStates]
         /\ stake \in [Runs -> [Parts -> StakeStates]]
         /\ mintStep \in [Runs -> {"new"} \cup Running \cup Exited]
         /\ mintRequest \in [Runs -> MintRequests \cup {NotAsked}]
         /\ DOMAIN mintStep = Runs /\ DOMAIN gift = Runs /\ DOMAIN approval = Runs
         /\ DOMAIN stake = Runs /\ DOMAIN mintRequest = Runs
         /\ \A q \in Runs : DOMAIN stake[q] = Parts
PROOF
  BY DEF MintTypeOK

-----------------------------------------------------------------------------
(* Where a run stands.                                                     *)

LEMMA RunStep ==
  ASSUME MintTypeOK, \A r \in Runs : RunInv(r), SentInv, [MintNext]_mintVars
  PROVE  \A r \in Runs : RunInv(r)'
PROOF
  <1> SUFFICES ASSUME NEW s \in Runs PROVE RunInv(s)'
    OBVIOUS
  <1>0. RunInv(s) /\ Frame /\ (mintFaults' = 0 => mintFaults = 0)
    BY Frames, FaultsStay
  <1>1. ASSUME NEW r \in Runs, Begin(r) PROVE RunInv(s)'
    BY <1>0, <1>1, Domains DEF Begin, Await, mintBounds, chain, RunInv, BeforeApproval, Staking,
         NothingStaked, Parts
  <1>2. ASSUME NEW r \in Runs, ValidateSTBalance(r) PROVE RunInv(s)'
    BY <1>0, <1>2, Domains DEF ValidateSTBalance, Await, mintBounds, chain, RunInv,
         BeforeApproval, Staking, NothingStaked, Parts
  <1>3. ASSUME NEW r \in Runs, TransferST(r) PROVE RunInv(s)'
    BY <1>0, <1>3, Domains DEF TransferST, Await, mintBounds, RunInv, BeforeApproval, Staking,
         NothingStaked, Parts
  <1>4. ASSUME NEW r \in Runs, TransferReceipt(r) PROVE RunInv(s)'
    BY <1>0, <1>4, Domains DEF TransferReceipt, Await, mintBounds, chain, RunInv,
         BeforeApproval, Staking, NothingStaked, Parts
  <1>5. ASSUME NEW r \in Runs, TransferFails(r) PROVE RunInv(s)'
    <2>1. mintFaults' # 0
      BY <1>5 DEF TransferFails, MintFault, MintTypeOK
    <2>2. QED
      BY <2>1, <1>0, <1>5, Domains DEF TransferFails, Await, chain, RunInv, BeforeApproval,
           Staking, NothingStaked, Parts
  <1>6. ASSUME NEW r \in Runs, GetStakerSTBalance(r) PROVE RunInv(s)'
    BY <1>0, <1>6, Domains DEF GetStakerSTBalance, Await, mintBounds, chain, RunInv,
         BeforeApproval, Staking, NothingStaked, Parts
  <1>7. ASSUME NEW r \in Runs, Approve(r) PROVE RunInv(s)'
    BY <1>0, <1>7, Domains DEF Approve, Await, mintBounds, RunInv, BeforeApproval, Staking,
         NothingStaked, Parts
  <1>8. ASSUME NEW r \in Runs, ApproveFails(r) PROVE RunInv(s)'
    BY <1>0, <1>8, Domains DEF ApproveFails, Await, chain, RunInv, BeforeApproval, Staking,
         NothingStaked, Parts
  <1>9. ASSUME NEW r \in Runs, ApprovalReceipt(r) PROVE RunInv(s)'
    BY <1>0, <1>9, Domains DEF ApprovalReceipt, Await, Approved, mintBounds, chain, RunInv,
         BeforeApproval, Staking, NothingStaked, Parts
  <1>10. ASSUME NEW r \in Runs, NEW p \in Parts, StartStake(r, p) PROVE RunInv(s)'
    <2>1. /\ mintStep' = [mintStep EXCEPT ![r] = Before(p)] /\ mintStep[r] = p
          /\ UNCHANGED <<gift, approval, mintRequest>>
          /\ \E v \in {"pending", "refused"} : stake' = [stake EXCEPT ![r][p] = v]
      BY <1>10 DEF StartStake, Await
    <2>2. CASE s # r
      <3>1. stake'[s] = stake[s] /\ mintStep'[s] = mintStep[s]
        BY <2>1, <2>2, Domains
      <3>2. QED BY <1>0, <2>1, <3>1 DEF RunInv, NothingStaked
    <2>3. CASE s = r
      <3>1. mintStep'[r] = Before(p) /\ (p = "BT" => stake'[r]["STPrime"] = stake[r]["STPrime"])
        BY <2>1, Domains DEF Parts
      <3>2. mintStep[r] \in {"BT", "STPrime"} /\ (p = "BT" => mintStep[r] = "BT")
        BY <2>1 DEF Parts
      <3>3. approval[r] = "mined" /\ mintRequest[r] \in MintRequests
        BY <1>0, <2>3, <3>2 DEF RunInv, Staking
      <3>4. mintFaults = 0 => gift[r] # "pending"
        BY <1>0, <2>3, <3>2 DEF RunInv
      <3>5. p = "BT" => stake[r]["STPrime"] = "none"
        BY <1>0, <2>3, <3>2 DEF RunInv, NothingStaked, Parts
      <3>6. mintStep'[r] = (IF p = "BT" THEN "beforeBT" ELSE "beforeSTPrime")
        BY <3>1 DEF Before
      <3>7. approval'[r] = "mined" /\ mintRequest'[r] \in MintRequests
            /\ (mintFaults' = 0 => gift'[r] # "pending")
        BY <1>0, <2>1, <3>3, <3>4
      <3>8. mintStep'[r] = "beforeBT" => stake'[r]["STPrime"] = "none"
        BY <3>1, <3>5, <3>6
      <3>9. mintStep'[r] \in {"beforeBT", "beforeSTPrime"}
        BY <3>6
      <3>10. QED
        BY <2>3, <3>7, <3>8, <3>9 DEF RunInv, BeforeApproval, Staking
    <2>4. QED BY <2>2, <2>3
  <1>11. ASSUME NEW r \in Runs, NEW p \in Parts, ReadBefore(r, p) PROVE RunInv(s)'
    BY <1>0, <1>11, Domains DEF ReadBefore, Await, Before, Wait, mintBounds, chain, RunInv,
         BeforeApproval, Staking, NothingStaked, Parts
  <1>12. ASSUME NEW r \in Runs, NEW p \in Parts, ReadBeforeFails(r, p) PROVE RunInv(s)'
    BY <1>0, <1>12, Domains DEF ReadBeforeFails, Await, Before, chain, RunInv,
         BeforeApproval, Staking, NothingStaked, Parts
  <1>13. ASSUME NEW r \in Runs, NEW p \in Parts, SeeMint(r, p) PROVE RunInv(s)'
    BY <1>0, <1>13, Domains DEF SeeMint, Await, Wait, After, mintBounds, chain, RunInv,
         BeforeApproval, Staking, NothingStaked, Parts
  <1>14. ASSUME NEW r \in Runs, MineGift(r) PROVE RunInv(s)'
    BY <1>0, <1>14, Domains DEF MineGift, mintBounds, RunInv, BeforeApproval, Staking,
         NothingStaked, Parts
  <1>15. ASSUME NEW r \in Runs, NEW p \in Parts, Credit(r, p) PROVE RunInv(s)'
    BY <1>0, <1>15, Domains DEF Credit, mintBounds, RunInv, BeforeApproval, Staking,
         NothingStaked, Parts
  <1>16. ASSUME NEW r \in Runs, ApprovalPollFails(r) PROVE RunInv(s)'
    BY <1>0, <1>16, Domains DEF ApprovalPollFails, Await, chain, RunInv, BeforeApproval,
         Staking, NothingStaked, Parts
  <1>17. ASSUME NEW r \in Runs, GetBalanceFails(r) PROVE RunInv(s)'
    BY <1>0, <1>17, Domains DEF GetBalanceFails, Await, chain, RunInv, BeforeApproval,
         Staking, NothingStaked, Parts
  <1>18. ASSUME NEW r \in Runs, Kill(r) PROVE RunInv(s)'
    BY <1>0, <1>18, Domains DEF Kill, Await, chain, RunInv, BeforeApproval, Staking,
         NothingStaked, Parts, Running
  <1>19. CASE MineApproval
    <2>1. Head(sent).run \in Runs /\ approval[Head(sent).run] = "pending"
      BY <1>19, FirstSent DEF SentInv, MineApproval
    <2>2. QED
      BY <2>1, <1>0, <1>19, Domains DEF MineApproval, mintBounds, RunInv, BeforeApproval,
           Staking, NothingStaked, Parts
  <1>20. CASE MineStake
    <2>1. Head(sent).run \in Runs /\ Head(sent).kind \in Parts
          /\ stake[Head(sent).run][Head(sent).kind] = "pending"
      BY <1>20, FirstSent DEF SentInv, MineStake
    <2>2. /\ UNCHANGED <<mintStep, gift, approval, mintRequest>>
          /\ \E v \in {"staked", "failed"} :
               stake' = [stake EXCEPT ![Head(sent).run][Head(sent).kind] = v]
      BY <1>20 DEF MineStake
    <2>3. /\ NothingStaked(s) => NothingStaked(s)'
          /\ stake[s]["STPrime"] = "none" => stake'[s]["STPrime"] = "none"
      BY <2>1, <2>2, Domains DEF NothingStaked, Parts
    <2>4. QED BY <1>0, <2>2, <2>3 DEF RunInv
  <1>21. CASE UNCHANGED mintVars
    BY <1>0, <1>21 DEF mintVars, chain, mintBounds, RunInv, NothingStaked
  <1>22. ASSUME NEW m \in Moved, MoveReserve(m) PROVE RunInv(s)'
    BY <1>0, <1>22 DEF MoveReserve, mintBounds, RunInv, NothingStaked
  <1>23. QED
    BY <1>1, <1>2, <1>3, <1>4, <1>5, <1>6, <1>7, <1>8, <1>9, <1>10, <1>11, <1>12, <1>13,
         <1>14, <1>15, <1>16, <1>17, <1>18, <1>19, <1>20, <1>21, <1>22
    DEF MintNext, Proceed, Chain

-----------------------------------------------------------------------------
(* The queue of the staker.                                                *)

LEMMA SameTx ==
  ASSUME NEW a \in Txs, NEW b \in Txs, a.run = b.run, a.kind = b.kind
  PROVE  a = b
PROOF
  BY DEF Txs

LEMMA SentTypes ==
  ASSUME MintTypeOK
  PROVE  /\ DOMAIN sent = 1..Len(sent) /\ Len(sent) \in Nat
         /\ \A i \in DOMAIN sent : sent[i] \in Txs /\ sent[i].run \in Runs
                                   /\ sent[i].kind \in {"approve"} \cup Parts
PROOF
  <1>1. sent \in Seq(Txs)
    BY DEF MintTypeOK
  <1>2. DOMAIN sent = 1..Len(sent) /\ Len(sent) \in Nat /\ \A i \in DOMAIN sent : sent[i] \in Txs
    BY <1>1
  <1>3. \A a \in Txs : a.run \in Runs /\ a.kind \in {"approve"} \cup Parts
    BY DEF Txs
  <1>4. QED BY <1>2, <1>3

\* What a run sends was not sent before.
LEMMA NotSentYet ==
  ASSUME MintTypeOK, NEW r \in Runs, RunInv(r)
  PROVE  /\ mintStep[r] = "approve" => approval[r] = "none"
         /\ \A p \in Parts : mintStep[r] = p => stake[r][p] = "none" /\ approval[r] = "mined"
                                            /\ mintStep[r] \in Running /\ mintStep[r] # "approve"
PROOF
  <1>1. mintStep[r] = "approve" => approval[r] = "none"
    BY DEF RunInv, BeforeApproval
  <1>2. mintStep[r] = "BT" => stake[r]["BT"] = "none" /\ approval[r] = "mined"
    BY DEF RunInv, NothingStaked, Staking, Parts
  <1>3. mintStep[r] = "STPrime" => stake[r]["STPrime"] = "none" /\ approval[r] = "mined"
    BY DEF RunInv, Staking
  <1>4. QED BY <1>1, <1>2, <1>3 DEF Parts, Running

\* A stake moves on by itself.
LEMMA StakeElsewhere ==
  ASSUME MintTypeOK, NEW r \in Runs, NEW p \in Parts, NEW v,
         stake' = [stake EXCEPT ![r][p] = v],
         NEW s \in Runs, NEW q \in Parts, s # r \/ q # p
  PROVE  stake'[s][q] = stake[s][q]
PROOF
  BY Domains

LEMMA SentStep ==
  ASSUME MintTypeOK, \A r \in Runs : RunInv(r), SentInv, Frame
  PROVE  SentInv'
PROOF
  <1>1. CASE MineApproval \/ MineStake
    <2>1. /\ sent # <<>> /\ sent' = Tail(sent)
          /\ \/ approval' = approval
             \/ /\ Head(sent).kind = "approve"
                /\ approval' = [approval EXCEPT ![Head(sent).run] = "mined"]
          /\ \/ stake' = stake
             \/ /\ Head(sent).kind \in Parts
                /\ \E v \in StakeStates :
                     stake' = [stake EXCEPT ![Head(sent).run][Head(sent).kind] = v]
      <3>1. CASE MineApproval
        BY <3>1 DEF MineApproval
      <3>2. CASE MineStake
        <4>1. \E v \in {"staked", "failed"} :
                stake' = [stake EXCEPT ![Head(sent).run][Head(sent).kind] = v]
          BY <3>2 DEF MineStake
        <4>2. {"staked", "failed"} \subseteq StakeStates
          BY DEF StakeStates
        <4>3. sent # <<>> /\ sent' = Tail(sent) /\ approval' = approval
              /\ Head(sent).kind \in Parts
          BY <3>2 DEF MineStake
        <4>4. \E v \in StakeStates :
                stake' = [stake EXCEPT ![Head(sent).run][Head(sent).kind] = v]
          BY <4>1, <4>2
        <4>5. QED BY <4>3, <4>4
      <3>3. QED BY <1>1, <3>1, <3>2
    <2>2. ASSUME NEW i \in DOMAIN Tail(sent)
          PROVE  /\ i + 1 \in DOMAIN sent /\ Tail(sent)[i] = sent[i + 1]
                 /\ sent[i + 1] # Head(sent) /\ i \in Nat /\ sent[i + 1] \in Txs
      <3>1. i + 1 \in DOMAIN sent /\ Tail(sent)[i] = sent[i + 1] /\ i \in Nat /\ i + 1 # 1
            /\ 1 \in DOMAIN sent /\ Head(sent) = sent[1]
        BY <2>1, FirstSent
      <3>2. QED BY <3>1, SentTypes DEF SentInv
    <2>3. ASSUME NEW i \in DOMAIN sent', NEW j \in DOMAIN sent', sent'[i] = sent'[j]
          PROVE  i = j
      <3>1. sent[i + 1] = sent[j + 1] /\ i + 1 \in DOMAIN sent /\ j + 1 \in DOMAIN sent
            /\ i \in Nat /\ j \in Nat
        BY <2>1, <2>2, <2>3
      <3>2. i + 1 = j + 1
        BY <3>1 DEF SentInv
      <3>3. QED BY <3>1, <3>2
    <2>4. ASSUME NEW i \in DOMAIN sent'
          PROVE  /\ sent'[i].kind = "approve" => approval'[sent'[i].run] = "pending"
                 /\ sent'[i].kind \in Parts => stake'[sent'[i].run][sent'[i].kind] = "pending"
      <3> DEFINE entry == sent[i + 1]
      <3>1. /\ sent'[i] = entry /\ entry \in Txs /\ entry # Head(sent) /\ Head(sent) \in Txs
            /\ entry.run \in Runs /\ Head(sent).run \in Runs /\ i + 1 \in DOMAIN sent
        BY <2>1, <2>2, FirstSent, SentTypes
      <3>2. entry.run # Head(sent).run \/ entry.kind # Head(sent).kind
        BY <3>1, SameTx
      <3>3. /\ entry.kind = "approve" => approval[entry.run] = "pending"
            /\ entry.kind \in Parts => stake[entry.run][entry.kind] = "pending"
        BY <3>1 DEF SentInv
      <3> HIDE DEF entry
      <3>4. entry.kind = "approve" => approval'[entry.run] = "pending"
        BY <2>1, <3>1, <3>2, <3>3, Domains
      <3>5. ASSUME entry.kind \in Parts PROVE stake'[entry.run][entry.kind] = "pending"
        <4>1. CASE stake' = stake
          BY <3>3, <3>5, <4>1
        <4>2. CASE stake' # stake
          <5>1. Head(sent).kind \in Parts
            BY <2>1, <4>2
          <5>2. PICK v \in StakeStates :
                  stake' = [stake EXCEPT ![Head(sent).run][Head(sent).kind] = v]
            BY <2>1, <4>2
          <5>3. QED BY <3>1, <3>2, <3>3, <3>5, <5>1, <5>2, StakeElsewhere
        <4>3. QED BY <4>1, <4>2
      <3>6. QED BY <3>1, <3>4, <3>5
    <2>5. QED BY <2>3, <2>4 DEF SentInv
  <1>2. ASSUME NEW entry \in Txs, sent' = Append(sent, entry),
               \A i \in DOMAIN sent : sent[i] # entry,
               entry.kind = "approve" =>
                 approval' = [approval EXCEPT ![entry.run] = "pending"] /\ stake' = stake,
               entry.kind \in Parts =>
                 approval' = approval
                 /\ stake' = [stake EXCEPT ![entry.run][entry.kind] = "pending"]
        PROVE  SentInv'
    <2>1. entry.run \in Runs /\ entry.kind \in {"approve"} \cup Parts
      BY DEF Txs
    <2>2. /\ DOMAIN sent = 1..Len(sent) /\ DOMAIN sent' = 1..(Len(sent) + 1)
          /\ Len(sent) \in Nat
          /\ \A i \in DOMAIN sent : sent'[i] = sent[i]
          /\ sent'[Len(sent) + 1] = entry
      BY <1>2, OneMoreSent
    <2>3. \A i \in DOMAIN sent' : i \in DOMAIN sent \/ i = Len(sent) + 1
      BY <2>2
    <2>4. \A i, j \in DOMAIN sent' : sent'[i] = sent'[j] => i = j
      BY <1>2, <2>2, <2>3 DEF SentInv
    <2>5. /\ entry.kind = "approve" => approval'[entry.run] = "pending"
          /\ entry.kind \in Parts => stake'[entry.run][entry.kind] = "pending"
      BY <1>2, <2>1, Domains
    <2>6. ASSUME NEW i \in DOMAIN sent
          PROVE  /\ sent[i].kind = "approve" => approval'[sent[i].run] = "pending"
                 /\ sent[i].kind \in Parts => stake'[sent[i].run][sent[i].kind] = "pending"
      <3>1. sent[i] \in Txs /\ sent[i].run \in Runs
        BY SentTypes
      <3>2. /\ sent[i].kind = "approve" => approval[sent[i].run] = "pending"
            /\ sent[i].kind \in Parts => stake[sent[i].run][sent[i].kind] = "pending"
        BY DEF SentInv
      <3>3. sent[i].kind = "approve" => approval'[sent[i].run] = "pending"
        BY <1>2, <2>1, <3>1, <3>2, Domains
      <3>4. ASSUME sent[i].kind \in Parts PROVE stake'[sent[i].run][sent[i].kind] = "pending"
        <4>1. CASE entry.kind = "approve"
          BY <1>2, <3>2, <3>4, <4>1
        <4>2. CASE entry.kind \in Parts
          <5>1. CASE sent[i].run = entry.run /\ sent[i].kind = entry.kind
            BY <1>2, <2>1, <4>2, <5>1, Domains
          <5>2. CASE sent[i].run # entry.run \/ sent[i].kind # entry.kind
            <6>1. stake' = [stake EXCEPT ![entry.run][entry.kind] = "pending"]
              BY <1>2, <4>2
            <6>2. stake'[sent[i].run][sent[i].kind] = stake[sent[i].run][sent[i].kind]
              BY <2>1, <3>1, <3>4, <4>2, <5>2, <6>1, StakeElsewhere
            <6>3. QED BY <3>2, <3>4, <6>2
          <5>3. QED BY <5>1, <5>2
        <4>3. QED BY <2>1, <4>1, <4>2
      <3>5. QED BY <3>3, <3>4
    <2>7. QED BY <2>2, <2>3, <2>4, <2>5, <2>6 DEF SentInv
  <1>3. ASSUME NEW r \in Runs, Approve(r) PROVE SentInv'
    <2> DEFINE entry == [run |-> r, kind |-> "approve"]
    <2>1. entry \in Txs /\ entry.run = r /\ entry.kind = "approve" /\ entry.kind \notin Parts
      BY DEF Txs, Parts
    <2>2. /\ sent' = Append(sent, entry) /\ stake' = stake /\ mintStep[r] = "approve"
          /\ approval' = [approval EXCEPT ![r] = "pending"]
      BY <1>3 DEF Approve, SendTx
    <2>3. \A i \in DOMAIN sent : sent[i] # entry
      BY <2>1, <2>2, NotSentYet DEF SentInv
    <2> HIDE DEF entry
    <2>4. QED BY <1>2, <2>1, <2>2, <2>3
  <1>4. ASSUME NEW r \in Runs, NEW p \in Parts, StartStake(r, p) PROVE SentInv'
    <2> DEFINE entry == [run |-> r, kind |-> p]
    <2>1. entry \in Txs /\ entry.run = r /\ entry.kind = p /\ entry.kind # "approve"
      BY DEF Txs, Parts
    <2>2. /\ mintStep[r] = p /\ approval' = approval
          /\ \/ sent' = Append(sent, entry) /\ stake' = [stake EXCEPT ![r][p] = "pending"]
             \/ sent' = sent /\ stake' = [stake EXCEPT ![r][p] = "refused"]
      BY <1>4 DEF StartStake, SendTx
    <2>3. \A i \in DOMAIN sent : sent[i] # entry
      BY <2>1, <2>2, NotSentYet DEF SentInv
    <2> HIDE DEF entry
    <2>4. CASE sent' = Append(sent, entry) /\ stake' = [stake EXCEPT ![r][p] = "pending"]
      BY <1>2, <2>1, <2>2, <2>3, <2>4
    <2>5. CASE sent' = sent /\ stake' = [stake EXCEPT ![r][p] = "refused"]
      <3>1. ASSUME NEW i \in DOMAIN sent, sent[i].kind \in Parts
            PROVE  stake'[sent[i].run][sent[i].kind] = "pending"
        <4>1. sent[i] \in Txs /\ sent[i].run \in Runs
          BY SentTypes
        <4>2. stake[sent[i].run][sent[i].kind] = "pending"
          BY <3>1 DEF SentInv
        <4>3. sent[i].run # r \/ sent[i].kind # p
          BY <2>1, <2>3, <4>1, SameTx
        <4>4. QED BY <2>5, <3>1, <4>1, <4>2, <4>3, Domains
      <3>2. QED BY <2>2, <2>5, <3>1 DEF SentInv
    <2>6. QED BY <2>2, <2>4, <2>5
  <1>5. CASE UNCHANGED <<sent, approval, stake>>
    BY <1>5 DEF SentInv
  <1>6. ASSUME NEW r \in Runs, NEW p \in Parts, Credit(r, p) PROVE SentInv'
    <2>1. /\ UNCHANGED <<sent, approval>> /\ stake[r][p] = "staked"
          /\ stake' = [stake EXCEPT ![r][p] = "credited"]
      BY <1>6 DEF Credit
    <2>2. ASSUME NEW i \in DOMAIN sent, sent[i].kind \in Parts
          PROVE  stake'[sent[i].run][sent[i].kind] = "pending"
      <3>1. sent[i].run \in Runs
        BY SentTypes
      <3>2. stake[sent[i].run][sent[i].kind] = "pending"
        BY <2>2 DEF SentInv
      <3>3. sent[i].run # r \/ sent[i].kind # p
        BY <2>1, <3>2
      <3>4. QED BY <2>1, <2>2, <3>1, <3>2, <3>3, Domains
    <2>3. QED BY <2>1, <2>2 DEF SentInv
  <1>7. QED BY <1>1, <1>3, <1>4, <1>5, <1>6 DEF Frame

-----------------------------------------------------------------------------
(* Runs that overlap.                                                      *)

LEMMA DisturbedStay ==
  ASSUME Frame
  PROVE  disturbed \subseteq disturbed'
PROOF
  <1>1. ASSUME NEW r \in Runs, Begin(r) PROVE disturbed \subseteq disturbed'
    BY <1>1 DEF Begin
  <1>2. QED BY <1>1 DEF Frame

\* Who is running was, unless it has just begun.
LEMMA WasRunning ==
  ASSUME MintTypeOK, Frame, NEW s \in Runs, mintStep'[s] \in Running
  PROVE  mintStep[s] \in Running \/ Begin(s)
PROOF
  <1>1. ASSUME NEW r \in Runs, Moves(r) PROVE mintStep[s] \in Running \/ Begin(s)
    <2>1. CASE s = r
      BY <1>1, <2>1 DEF Moves
    <2>2. CASE s # r
      BY <1>1, <2>2, Domains DEF Moves
    <2>3. QED BY <2>1, <2>2
  <1>2. QED BY <1>1 DEF Frame

LEMMA AloneStep ==
  ASSUME MintTypeOK, AloneInv, Frame
  PROVE  AloneInv'
PROOF
  <1> SUFFICES ASSUME NEW a \in Runs, NEW b \in Runs, mintStep'[a] \in Running,
                      mintStep'[b] \in Running,
                      a # b
               PROVE  a \in disturbed'
    BY DEF AloneInv, Alone
  <1>1. CASE mintStep[a] \in Running /\ mintStep[b] \in Running
    BY <1>1, DisturbedStay DEF AloneInv, Alone
  <1>2. ASSUME NEW r \in Runs, Begin(r), r = a \/ r = b PROVE a \in disturbed'
    <2>1. PICK s \in Running \cup Exited : mintStep' = [mintStep EXCEPT ![r] = s]
      BY <1>2 DEF Begin, Await, Running, Exited
    <2>2. mintStep[r] = "new"
      BY <1>2 DEF Begin
    <2>3. mintStep'[r] \in Running
      BY <1>2
    <2>4. mintStep'[r] # "exit 1"
      BY <2>3 DEF Running
    <2>5. disturbed' = disturbed \cup Others(r) \cup (IF Others(r) = {} THEN {} ELSE {r})
      BY <1>2, <2>4, Domains DEF Begin, Await
    <2>6. CASE r = a
      <3>1. mintStep[b] \in Running
        BY <2>1, <2>6, Domains
      <3>2. b \in Others(a)
        BY <3>1 DEF Others
      <3>3. QED BY <2>5, <2>6, <3>2
    <2>7. CASE r = b
      <3>1. mintStep[a] \in Running
        BY <2>1, <2>7, Domains
      <3>2. a \in Others(b)
        BY <3>1 DEF Others
      <3>3. QED BY <2>5, <2>7, <3>2
    <2>8. QED BY <1>2, <2>6, <2>7
  <1>3. QED BY <1>1, <1>2, WasRunning

-----------------------------------------------------------------------------
(* The queue of a run that was alone.                                      *)

\* Who sends something is running.
LEMMA Sender ==
  ASSUME NEW q \in Runs
  PROVE  /\ Approve(q) => mintStep[q] \in Running /\ mintStep[q] = "approve"
         /\ \A p \in Parts : StartStake(q, p) => mintStep[q] \in Running /\ mintStep[q] = p
PROOF
  BY DEF Approve, StartStake, Running, Parts

LEMMA QueueStep ==
  ASSUME MintTypeOK, MintTypeOK', \A r \in Runs : RunInv(r), SentInv,
         AloneInv, Frame,
         NEW r \in Runs, QueueInv(r), Alone(r)'
  PROVE  QueueInv(r)'
PROOF
  <1>1. Alone(r)
    BY DisturbedStay DEF Alone
  <1>2. /\ \A i, j \in DOMAIN sent : StakeOfRun(sent[i], r) /\ j < i => StakeOfRun(sent[j], r)
        /\ mintStep[r] \in Running /\ approval[r] = "mined" =>
             \A i \in DOMAIN sent : StakeOfRun(sent[i], r)
        /\ mintStep[r] \in Running /\ approval[r] = "pending" =>
             sent # <<>> /\ sent[Len(sent)] = [run |-> r, kind |-> "approve"]
    BY <1>1 DEF QueueInv
  <1>3. mintStep'[r] \in Running =>
          mintStep[r] \in Running \/ (mintStep[r] = "new" /\ approval[r] = "none")
    BY WasRunning DEF Begin, RunInv, BeforeApproval
  <1>4. \A q \in Runs \ {r} : mintStep[r] \in Running => mintStep[q] \notin Running
    BY <1>1 DEF AloneInv
  <1>5. CASE UNCHANGED <<sent, approval>>
    BY <1>2, <1>3, <1>5 DEF QueueInv, StakeOfRun
  <1>6. CASE MineApproval \/ MineStake
    <2>1. /\ sent # <<>> /\ sent' = Tail(sent) /\ Head(sent) = sent[1] /\ 1 \in DOMAIN sent
          /\ DOMAIN sent = 1..Len(sent) /\ DOMAIN sent' = 1..(Len(sent) - 1)
          /\ Len(sent') = Len(sent) - 1 /\ Len(sent) \in Nat \ {0}
          /\ \A i \in DOMAIN sent' : i + 1 \in DOMAIN sent /\ sent'[i] = sent[i + 1]
      BY <1>6, FirstSent DEF MineApproval, MineStake
    <2>2. \A i, j \in DOMAIN sent' : StakeOfRun(sent'[i], r) /\ j < i => StakeOfRun(sent'[j], r)
      <3>1. SUFFICES ASSUME NEW i \in DOMAIN sent', NEW j \in DOMAIN sent',
                            StakeOfRun(sent'[i], r), j < i
                     PROVE  StakeOfRun(sent'[j], r)
        OBVIOUS
      <3>2. i + 1 \in DOMAIN sent /\ j + 1 \in DOMAIN sent /\ j + 1 < i + 1
            /\ sent'[i] = sent[i + 1] /\ sent'[j] = sent[j + 1]
        BY <2>1, <3>1
      <3>3. QED BY <1>2, <3>1, <3>2
    <2>3. approval' = approval
          \/ (MineApproval /\ approval' = [approval EXCEPT ![Head(sent).run] = "mined"])
      BY <1>6 DEF MineApproval, MineStake
    <2>4. ASSUME mintStep[r] \in Running, approval[r] = "mined", NEW i \in DOMAIN sent'
          PROVE  StakeOfRun(sent'[i], r)
      BY <1>2, <2>1, <2>4
    <2>5. ASSUME mintStep[r] \in Running, approval[r] = "pending"
          PROVE  IF Len(sent) = 1 THEN approval'[r] = "mined" /\ sent' = <<>>
                 ELSE /\ approval'[r] = "pending" /\ sent' # <<>>
                      /\ sent'[Len(sent')] = [run |-> r, kind |-> "approve"]
      <3>1. sent[Len(sent)].run = r /\ sent[Len(sent)].kind = "approve"
            /\ Len(sent) \in DOMAIN sent
            /\ sent[Len(sent)] = [run |-> r, kind |-> "approve"]
        BY <1>2, <2>1, <2>5
      <3>2. CASE Len(sent) = 1
        <4>1. Head(sent).run = r /\ Head(sent).kind = "approve"
          BY <2>1, <3>1, <3>2
        <4>2. MineApproval
          BY <1>6, <4>1 DEF MineStake, Parts
        <4>3. approval'[r] = "mined"
          BY <4>1, <4>2, Domains DEF MineApproval
        <4>4. sent' = <<>>
          BY <2>1, <3>2, FirstSent
        <4>5. QED BY <3>2, <4>3, <4>4
      <3>3. CASE Len(sent) # 1
        <4>1. Head(sent) # sent[Len(sent)]
          BY <2>1, <3>1, <3>3 DEF SentInv
        <4>2. /\ Len(sent) - 1 \in DOMAIN sent' /\ sent'[Len(sent')] = sent[Len(sent)]
              /\ sent' # <<>>
          <5>1. Len(sent) - 1 \in DOMAIN sent' /\ (Len(sent) - 1) + 1 = Len(sent)
            BY <2>1, <3>3
          <5>2. sent'[Len(sent) - 1] = sent[Len(sent)]
            BY <2>1, <5>1
          <5>3. sent' # <<>>
            <6>1. Len(sent') # 0
              BY <2>1, <3>3
            <6>2. QED BY <6>1
          <5>4. QED BY <2>1, <5>1, <5>2, <5>3
        <4>3. CASE approval' = approval
          BY <2>5, <3>1, <3>3, <4>2, <4>3
        <4>4. CASE MineApproval /\ approval' = [approval EXCEPT ![Head(sent).run] = "mined"]
          <5>1. Head(sent).kind = "approve" /\ Head(sent) \in Txs /\ Head(sent).run \in Runs
            BY <2>1, <4>4, FirstSent DEF MineApproval
          <5>2. Head(sent).run # r
            BY <3>1, <4>1, <5>1, SentTypes, SameTx
          <5>3. approval'[r] = "pending"
            BY <2>5, <4>4, <5>1, <5>2, Domains
          <5>4. QED BY <3>1, <3>3, <4>2, <5>3
        <4>5. QED BY <2>3, <4>3, <4>4
      <3>4. QED BY <3>2, <3>3
    <2>6. mintStep' = mintStep
      BY <1>6 DEF MineApproval, MineStake
    <2>7. approval'[r] = "mined" => approval[r] \in {"pending", "mined"}
      <3>1. MineApproval => approval[Head(sent).run] = "pending" /\ Head(sent).run \in Runs
        BY <2>1, FirstSent DEF MineApproval, SentInv
      <3>2. QED BY <2>3, <3>1, Domains
    <2>8. approval'[r] = "pending" => approval[r] = "pending"
      <3>1. MineApproval => Head(sent).run \in Runs
        BY <2>1, FirstSent
      <3>2. QED BY <2>3, <3>1, Domains
    <2>9. mintStep'[r] \in Running /\ approval'[r] = "mined" =>
            \A i \in DOMAIN sent' : StakeOfRun(sent'[i], r)
      <3>1. CASE approval[r] = "mined"
        BY <2>4, <2>6, <3>1
      <3>2. CASE approval[r] = "pending"
        <4>1. mintStep[r] \in Running /\ approval'[r] = "mined" => DOMAIN sent' = {}
          BY <2>1, <2>5, <3>2
        <4>2. QED BY <2>6, <4>1
      <3>3. QED BY <2>7, <3>1, <3>2
    <2>10. mintStep'[r] \in Running /\ approval'[r] = "pending" =>
             sent' # <<>> /\ sent'[Len(sent')] = [run |-> r, kind |-> "approve"]
      BY <2>5, <2>6, <2>8
    <2>11. QED BY <2>2, <2>9, <2>10 DEF QueueInv, StakeOfRun
  <1>7. ASSUME NEW q \in Runs, NEW entry \in Txs, sent' = Append(sent, entry), entry.run = q,
               mintStep[q] \in Running,
               \/ entry.kind = "approve" /\ approval' = [approval EXCEPT ![q] = "pending"]
               \/ entry.kind \in Parts /\ approval' = approval /\ approval[q] = "mined"
        PROVE  QueueInv(r)'
    <2>1. /\ sent' # <<>> /\ Len(sent') = Len(sent) + 1
          /\ DOMAIN sent = 1..Len(sent) /\ DOMAIN sent' = 1..(Len(sent) + 1)
          /\ Len(sent) \in Nat
          /\ \A i \in DOMAIN sent : sent'[i] = sent[i]
          /\ sent'[Len(sent) + 1] = entry
      BY <1>7, OneMoreSent
    <2>2. \A i \in DOMAIN sent' : i \in DOMAIN sent \/ i = Len(sent) + 1
      BY <2>1
    <2>3. CASE q # r
      <3>1. mintStep[r] \notin Running /\ approval'[r] = approval[r]
        BY <1>4, <1>7, <2>3, Domains
      <3>2. mintStep'[r] \in Running => approval'[r] = "none"
        BY <1>3, <3>1
      <3>3. ~StakeOfRun(entry, r)
        BY <1>7, <2>3 DEF StakeOfRun
      <3>4. \A i, j \in DOMAIN sent' :
              StakeOfRun(sent'[i], r) /\ j < i => StakeOfRun(sent'[j], r)
        BY <1>2, <2>1, <2>2, <3>3
      <3>5. QED BY <3>2, <3>4 DEF QueueInv, StakeOfRun
    <2>4. CASE q = r /\ entry.kind = "approve"
      <3>1. approval'[r] = "pending" /\ entry = [run |-> r, kind |-> "approve"]
        BY <1>7, <2>4, Domains DEF Parts, Txs
      <3>2. ~StakeOfRun(entry, r)
        BY <2>4 DEF StakeOfRun, Parts
      <3>3. \A i, j \in DOMAIN sent' :
              StakeOfRun(sent'[i], r) /\ j < i => StakeOfRun(sent'[j], r)
        BY <1>2, <2>1, <2>2, <3>2
      <3>4. QED BY <2>1, <3>1, <3>3 DEF QueueInv, StakeOfRun
    <2>5. CASE q = r /\ entry.kind \in Parts
      <3>1. approval[r] = "mined" /\ approval'[r] = "mined" /\ StakeOfRun(entry, r)
        BY <1>7, <2>5 DEF StakeOfRun, Parts
      <3>2. \A i \in DOMAIN sent : StakeOfRun(sent[i], r)
        BY <1>2, <1>7, <2>5, <3>1
      <3>3. \A i \in DOMAIN sent' : StakeOfRun(sent'[i], r)
        BY <2>1, <2>2, <3>1, <3>2
      <3>4. QED BY <3>1, <3>3 DEF QueueInv, StakeOfRun
    <2>6. QED BY <1>7, <2>3, <2>4, <2>5
  <1>8. ASSUME NEW q \in Runs, Approve(q) PROVE QueueInv(r)'
    <2> DEFINE entry == [run |-> q, kind |-> "approve"]
    <2>1. entry \in Txs /\ entry.run = q /\ entry.kind = "approve"
      BY DEF Txs
    <2>2. /\ sent' = Append(sent, entry) /\ mintStep[q] \in Running
          /\ approval' = [approval EXCEPT ![q] = "pending"]
      BY <1>8, Sender DEF Approve, SendTx
    <2> HIDE DEF entry
    <2>3. QED BY <1>7, <2>1, <2>2
  <1>9. ASSUME NEW q \in Runs, NEW p \in Parts, StartStake(q, p) PROVE QueueInv(r)'
    <2> DEFINE entry == [run |-> q, kind |-> p]
    <2>1. entry \in Txs /\ entry.run = q /\ entry.kind = p
      BY DEF Txs
    <2>2. /\ sent' = Append(sent, entry) \/ sent' = sent
          /\ mintStep[q] \in Running /\ approval' = approval /\ approval[q] = "mined"
      BY <1>9, Sender, NotSentYet DEF StartStake, SendTx
    <2> HIDE DEF entry
    <2>3. QED BY <1>5, <1>7, <2>1, <2>2
  <1>10. QED BY <1>5, <1>6, <1>8, <1>9 DEF Frame

-----------------------------------------------------------------------------
(* The ST of a run.                                                        *)

LEMMA UnspentType ==
  ASSUME MintTypeOK
  PROVE  /\ Unspent \in [Runs -> Nat]
         /\ \A r \in Runs :
              /\ gift[r] # "mined" => Unspent[r] = 0
              /\ gift[r] = "mined" =>
                   /\ Unspent[r] = AmountToStake(r) - Spent(r, "BT") - Spent(r, "STPrime")
                   /\ Unspent[r] <= AmountToStake(r)
                   /\ \A p \in Parts : Spent(r, p) = 0 => StakeOf(r, p) <= Unspent[r]
                   /\ NothingStaked(r) => Unspent[r] = AmountToStake(r)
PROOF
  <1>1. ASSUME NEW r \in Runs
        PROVE  /\ AmountToStake(r) \in Nat /\ Spent(r, "BT") \in Nat
               /\ Spent(r, "STPrime") \in Nat
               /\ AmountToStake(r) - Spent(r, "BT") - Spent(r, "STPrime") \in Nat
               /\ AmountToStake(r) - Spent(r, "BT") - Spent(r, "STPrime") <= AmountToStake(r)
               /\ \A p \in Parts : Spent(r, p) = 0 =>
                    StakeOf(r, p) <= AmountToStake(r) - Spent(r, "BT") - Spent(r, "STPrime")
               /\ NothingStaked(r) =>
                    AmountToStake(r) - Spent(r, "BT") - Spent(r, "STPrime") = AmountToStake(r)
    <2>1. /\ AmountToStake(r) \in Nat /\ StakeOf(r, "BT") \in Nat /\ StakeOf(r, "STPrime") \in Nat
          /\ StakeOf(r, "BT") + StakeOf(r, "STPrime") = AmountToStake(r)
      BY Division
    <2>2. /\ Spent(r, "BT") = 0 \/ Spent(r, "BT") = StakeOf(r, "BT")
          /\ Spent(r, "STPrime") = 0 \/ Spent(r, "STPrime") = StakeOf(r, "STPrime")
      BY DEF Spent
    <2>3. NothingStaked(r) => Spent(r, "BT") = 0 /\ Spent(r, "STPrime") = 0
      BY DEF NothingStaked, Spent, Parts
    <2>4. ASSUME NEW p \in Parts, Spent(r, p) = 0
          PROVE  StakeOf(r, p) <= AmountToStake(r) - Spent(r, "BT") - Spent(r, "STPrime")
      <3>1. CASE p = "BT"
        BY <2>1, <2>2, <2>4, <3>1
      <3>2. CASE p = "STPrime"
        BY <2>1, <2>2, <2>4, <3>2
      <3>3. QED BY <3>1, <3>2 DEF Parts
    <2>5. QED BY <2>1, <2>2, <2>3, <2>4
  <1>2. Unspent \in [Runs -> Nat]
    BY <1>1 DEF Unspent
  <1>3. ASSUME NEW r \in Runs
        PROVE  Unspent[r] = IF gift[r] = "mined"
                            THEN AmountToStake(r) - Spent(r, "BT") - Spent(r, "STPrime") ELSE 0
    BY DEF Unspent
  <1>4. QED BY <1>1, <1>2, <1>3

\* How a stake comes further.
LEMMA StakeMoves ==
  ASSUME MintTypeOK, \A r \in Runs : RunInv(r), SentInv, Frame, NEW r \in Runs, NEW p \in Parts
  PROVE  \/ stake'[r][p] = stake[r][p]
         \/ /\ StartStake(r, p) /\ stake[r][p] = "none" /\ stake'[r][p] \in {"pending", "refused"}
         \/ /\ MineStake /\ sent # <<>> /\ Head(sent).run = r /\ Head(sent).kind = p
            /\ stake[r][p] = "pending"
            /\ stake'[r][p] = IF Covered(r, p) THEN "staked" ELSE "failed"
         \/ /\ Credit(r, p) /\ stake[r][p] = "staked" /\ stake'[r][p] = "credited"
PROOF
  <1> DEFINE Goal == \/ stake'[r][p] = stake[r][p]
                     \/ /\ StartStake(r, p) /\ stake[r][p] = "none"
                        /\ stake'[r][p] \in {"pending", "refused"}
                     \/ /\ MineStake /\ sent # <<>> /\ Head(sent).run = r /\ Head(sent).kind = p
                        /\ stake[r][p] = "pending"
                        /\ stake'[r][p] = IF Covered(r, p) THEN "staked" ELSE "failed"
                     \/ /\ Credit(r, p) /\ stake[r][p] = "staked" /\ stake'[r][p] = "credited"
  <1>1. CASE UNCHANGED stake
    BY <1>1
  <1>2. ASSUME NEW q \in Runs, NEW t \in Parts, StartStake(q, t) PROVE Goal
    <2>1. PICK v \in {"pending", "refused"} : stake' = [stake EXCEPT ![q][t] = v]
      BY <1>2 DEF StartStake
    <2>2. CASE q = r /\ t = p
      <3>1. stake'[r][p] = v
        BY <2>1, <2>2, Domains
      <3>2. stake[r][p] = "none"
        BY <1>2, <2>2, Sender, NotSentYet
      <3>3. QED BY <1>2, <2>2, <3>1, <3>2
    <2>3. CASE q # r \/ t # p
      BY <2>1, <2>3, StakeElsewhere
    <2>4. QED BY <2>2, <2>3
  <1>3. ASSUME NEW q \in Runs, NEW t \in Parts, Credit(q, t) PROVE Goal
    <2>1. stake' = [stake EXCEPT ![q][t] = "credited"] /\ stake[q][t] = "staked"
      BY <1>3 DEF Credit
    <2>2. CASE q = r /\ t = p
      <3>1. stake'[r][p] = "credited"
        BY <2>1, <2>2, Domains
      <3>2. QED BY <1>3, <2>1, <2>2, <3>1
    <2>3. CASE q # r \/ t # p
      BY <2>1, <2>3, StakeElsewhere
    <2>4. QED BY <2>2, <2>3
  <1>4. ASSUME MineStake PROVE Goal
    <2> DEFINE q == Head(sent).run
               t == Head(sent).kind
    <2>1. /\ sent # <<>> /\ q \in Runs /\ t \in Parts /\ stake[q][t] = "pending"
      BY <1>4, FirstSent DEF MineStake, SentInv
    <2>2. stake' = [stake EXCEPT ![q][t] = IF Covered(q, t) THEN "staked" ELSE "failed"]
      <3>1. CASE Covered(q, t)
        BY <1>4, <3>1 DEF MineStake
      <3>2. CASE ~Covered(q, t)
        BY <1>4, <3>2 DEF MineStake
      <3>3. QED BY <3>1, <3>2
    <2> HIDE DEF q, t
    <2>3. CASE q = r /\ t = p
      <3>1. stake'[r][p] = IF Covered(r, p) THEN "staked" ELSE "failed"
        BY <2>1, <2>2, <2>3, Domains
      <3>2. Head(sent).run = r /\ Head(sent).kind = p
        BY <2>3 DEF q, t
      <3>3. QED BY <1>4, <2>1, <2>3, <3>1, <3>2
    <2>4. CASE q # r \/ t # p
      BY <2>1, <2>2, <2>4, StakeElsewhere
    <2>5. QED BY <2>3, <2>4
  <1>5. QED BY <1>1, <1>2, <1>3, <1>4 DEF Frame

LEMMA GiftMoves ==
  ASSUME MintTypeOK, \A r \in Runs : RunInv(r), Frame, NEW r \in Runs
  PROVE  \/ gift'[r] = gift[r]
         \/ /\ TransferST(r) \/ TransferFails(r)
            /\ gift[r] = "none" /\ gift'[r] = "pending"
         \/ MineGift(r) /\ gift[r] = "pending" /\ gift'[r] \in {"mined", "failed"}
PROOF
  <1>1. ASSUME NEW q \in Runs, TransferST(q) \/ TransferFails(q)
        PROVE  gift'[r] = gift[r] \/ (q = r /\ gift[r] = "none" /\ gift'[r] = "pending")
    <2>1. \/ gift' = gift
          \/ gift[q] = "none" /\ gift' = [gift EXCEPT ![q] = "pending"]
      BY <1>1 DEF TransferST, TransferFails, RunInv
    <2>2. QED BY <2>1, Domains
  <1>2. ASSUME NEW q \in Runs, MineGift(q)
        PROVE  \/ gift'[r] = gift[r]
               \/ q = r /\ gift[r] = "pending" /\ gift'[r] \in {"mined", "failed"}
    <2>1. gift[q] = "pending" /\ \E v \in {"mined", "failed"} : gift' = [gift EXCEPT ![q] = v]
      BY <1>2 DEF MineGift
    <2>2. QED BY <2>1, Domains
  <1>3. QED BY <1>1, <1>2 DEF Frame

LEMMA ApprovalMoves ==
  ASSUME MintTypeOK, \A r \in Runs : RunInv(r), SentInv, Frame, NEW r \in Runs
  PROVE  \/ approval'[r] = approval[r]
         \/ /\ Approve(r) /\ mintStep[r] = "approve" /\ approval[r] = "none"
            /\ approval'[r] = "pending"
         \/ /\ MineApproval /\ Head(sent).run = r /\ approval[r] = "pending"
            /\ approval'[r] = "mined" /\ allowance' = seen[r]
PROOF
  <1>1. ASSUME NEW q \in Runs, Approve(q)
        PROVE  \/ approval'[r] = approval[r]
               \/ /\ q = r /\ mintStep[r] = "approve" /\ approval[r] = "none"
                  /\ approval'[r] = "pending"
    <2>1. approval' = [approval EXCEPT ![q] = "pending"] /\ mintStep[q] = "approve"
      BY <1>1 DEF Approve
    <2>2. approval[q] = "none"
      BY <2>1, NotSentYet
    <2>3. QED BY <2>1, <2>2, Domains
  <1>2. ASSUME MineApproval
        PROVE  \/ approval'[r] = approval[r]
               \/ /\ Head(sent).run = r /\ approval[r] = "pending"
                  /\ approval'[r] = "mined" /\ allowance' = seen[r]
    <2>1. /\ approval' = [approval EXCEPT ![Head(sent).run] = "mined"]
          /\ allowance' = seen[Head(sent).run]
      BY <1>2 DEF MineApproval
    <2>2. Head(sent).run \in Runs /\ approval[Head(sent).run] = "pending"
      BY <1>2, FirstSent DEF MineApproval, SentInv
    <2>3. QED BY <2>1, <2>2, Domains
  <1>3. QED BY <1>1, <1>2 DEF Frame

\* What a run was asked for stays.
LEMMA RequestStays ==
  ASSUME MintTypeOK, Frame, NEW r \in Runs, mintStep[r] # "new"
  PROVE  /\ mintRequest'[r] = mintRequest[r] /\ AmountToStake(r)' = AmountToStake(r)
         /\ Token(r)' = Token(r)
         /\ \A p \in Parts : StakeOf(r, p)' = StakeOf(r, p)
PROOF
  <1>1. mintRequest'[r] = mintRequest[r]
    <2>1. ASSUME NEW q \in Runs, Begin(q) PROVE mintRequest'[r] = mintRequest[r]
      BY <2>1, Domains DEF Begin
    <2>2. QED BY <2>1 DEF Frame
  <1>2. QED BY <1>1 DEF AmountToStake, Token, StakeOf

\* Who has not been given its ST has not been given it before.
LEMMA OwnMeansBefore ==
  ASSUME MintTypeOK, \A r \in Runs : RunInv(r), SentInv, Frame, OwnMeans', mintFaults' = 0
  PROVE  OwnMeans /\ mintFaults = 0
PROOF
  <1>1. mintFaults = 0
    BY FaultsStay
  <1>2. ASSUME NEW r \in Runs, NEW p \in Parts, stake[r][p] \notin {"none", "refused"}
        PROVE  gift[r] = "mined"
    <2>1. stake'[r][p] \notin {"none", "refused"}
      BY <1>2, StakeMoves
    <2>2. gift'[r] = "mined"
      BY <2>1 DEF OwnMeans
    <2>3. gift[r] # "pending"
      BY <1>1, <1>2 DEF RunInv, NothingStaked
    <2>4. QED BY <2>2, <2>3, GiftMoves
  <1>3. QED BY <1>1, <1>2 DEF OwnMeans

-----------------------------------------------------------------------------
(* What the staker has.                                                    *)

LEMMA UnspentAfter ==
  ASSUME NEW r \in Runs
  PROVE  Unspent'[r] = IF gift'[r] = "mined"
                       THEN AmountToStake(r)' - Spent(r, "BT")' - Spent(r, "STPrime")' ELSE 0
PROOF
  BY DEF Unspent

LEMMA GiftedIsNotNew ==
  ASSUME NEW r \in Runs, RunInv(r), gift[r] # "none"
  PROVE  mintStep[r] # "new"
PROOF
  BY DEF RunInv

LEMMA UnspentSame ==
  ASSUME MintTypeOK, \A r \in Runs : RunInv(r), Frame, NEW r \in Runs,
         gift'[r] = "mined" <=> gift[r] = "mined",
         \A p \in Parts : stake'[r][p] \in {"staked", "credited"}
                            <=> stake[r][p] \in {"staked", "credited"}
  PROVE  Unspent'[r] = Unspent[r]
PROOF
  <1>1. CASE gift[r] # "mined"
    BY <1>1, UnspentAfter, UnspentType
  <1>2. CASE gift[r] = "mined"
    <2>1. /\ AmountToStake(r)' = AmountToStake(r)
          /\ \A p \in Parts : StakeOf(r, p)' = StakeOf(r, p)
      BY <1>2, GiftedIsNotNew, RequestStays
    <2>2. \A p \in Parts : Spent(r, p)' = Spent(r, p)
      BY <2>1 DEF Spent
    <2>3. "BT" \in Parts /\ "STPrime" \in Parts
      BY DEF Parts
    <2>4. QED BY <1>2, <2>1, <2>2, <2>3, UnspentAfter, UnspentType
  <1>3. QED BY <1>1, <1>2

\* A stake that is mined takes its part of what the run has left.
LEMMA UnspentTaken ==
  ASSUME MintTypeOK, \A r \in Runs : RunInv(r), SentInv, Frame, MineStake,
         NEW q \in Runs, NEW t \in Parts, q = Head(sent).run, t = Head(sent).kind,
         gift[q] = "mined"
  PROVE  /\ stake[q][t] = "pending"
         /\ StakeOf(q, t) \in Nat /\ StakeOf(q, t) <= Unspent[q]
         /\ Unspent'[q] = IF Covered(q, t) THEN Unspent[q] - StakeOf(q, t) ELSE Unspent[q]
         /\ \A r \in Runs \ {q} : Unspent'[r] = Unspent[r]
PROOF
  <1>1. sent # <<>> /\ stake[q][t] = "pending" /\ gift' = gift
    BY FirstSent DEF MineStake, SentInv
  <1>2. stake' = [stake EXCEPT ![q][t] = IF Covered(q, t) THEN "staked" ELSE "failed"]
    <2>1. CASE Covered(q, t)
      BY <2>1 DEF MineStake
    <2>2. CASE ~Covered(q, t)
      BY <2>2 DEF MineStake
    <2>3. QED BY <2>1, <2>2
  <1>3. gift[q] = "mined"
    OBVIOUS
  <1>4. /\ \A p \in Parts : StakeOf(q, p) \in Nat
        /\ AmountToStake(q) \in Nat
        /\ AmountToStake(q)' = AmountToStake(q) /\ \A p \in Parts : StakeOf(q, p)' = StakeOf(q, p)
    BY <1>1, <1>3, Division, GiftedIsNotNew, RequestStays
  <1>5. Spent(q, t) = 0 /\ StakeOf(q, t) <= Unspent[q]
    <2>1. Spent(q, t) = 0
      BY <1>1 DEF Spent
    <2>2. QED BY <1>1, <1>3, <2>1, UnspentType
  <1>6. stake'[q][t] = IF Covered(q, t) THEN "staked" ELSE "failed"
    BY <1>1, <1>2, Domains
  <1>7. Spent(q, t)' = IF Covered(q, t) THEN StakeOf(q, t) ELSE 0
    BY <1>1, <1>4, <1>6 DEF Spent
  <1>8. \A p \in Parts \ {t} : Spent(q, p)' = Spent(q, p)
    <2>1. ASSUME NEW p \in Parts \ {t} PROVE Spent(q, p)' = Spent(q, p)
      <3>1. stake'[q][p] = stake[q][p]
        BY <1>1, <1>2, StakeElsewhere
      <3>2. QED BY <1>4, <3>1 DEF Spent
    <2>2. QED BY <2>1
  <1>9. \A p \in Parts : Spent(q, p) \in Nat
    BY <1>4 DEF Spent
  <1>10. Unspent'[q] = IF Covered(q, t) THEN Unspent[q] - StakeOf(q, t) ELSE Unspent[q]
    <2>1. Unspent[q] = AmountToStake(q) - Spent(q, "BT") - Spent(q, "STPrime")
      BY <1>1, <1>3, UnspentType
    <2>2. Unspent'[q] = AmountToStake(q) - Spent(q, "BT")' - Spent(q, "STPrime")'
      BY <1>1, <1>3, <1>4, UnspentAfter
    <2>3. "BT" \in Parts /\ "STPrime" \in Parts /\ StakeOf(q, t) \in Nat
      BY <1>1, <1>4 DEF Parts
    <2>4. CASE t = "BT"
      BY <1>4, <1>5, <1>7, <1>8, <1>9, <2>1, <2>2, <2>3, <2>4
    <2>5. CASE t = "STPrime"
      BY <1>4, <1>5, <1>7, <1>8, <1>9, <2>1, <2>2, <2>3, <2>5
    <2>6. QED BY <1>1, <2>4, <2>5 DEF Parts
  <1>11. ASSUME NEW r \in Runs \ {q} PROVE Unspent'[r] = Unspent[r]
    <2>1. \A p \in Parts : stake'[r][p] = stake[r][p]
      BY <1>1, <1>2, StakeElsewhere
    <2>2. QED BY <1>1, <2>1, UnspentSame
  <1>12. QED BY <1>1, <1>4, <1>5, <1>10, <1>11

LEMMA StakerStep ==
  ASSUME MintTypeOK, MintTypeOK', \A r \in Runs : RunInv(r), SentInv, Frame,
         OwnMeans, mintFaults = 0, staker = Sum(Unspent)
  PROVE  staker' = Sum(Unspent')
PROOF
  <1>1. IsFiniteSet(Runs) /\ Unspent \in [Runs -> Nat] /\ staker \in Nat
    BY UnspentType, MintToolAssumption DEF MintTypeOK
  <1>2. Unspent' = [r \in Runs |-> Unspent'[r]] /\ Unspent = [r \in Runs |-> Unspent[r]]
    BY DEF Unspent
  <1>3. CASE MineStake
    <2>0. PICK q \in Runs, t \in Parts : q = Head(sent).run /\ t = Head(sent).kind
      BY <1>3, FirstSent DEF MineStake
    <2>1. gift[q] = "mined"
      <3>1. stake[q][t] = "pending"
        BY <1>3, <2>0, FirstSent DEF MineStake, SentInv
      <3>2. QED BY <3>1 DEF OwnMeans
    <2>2. /\ StakeOf(q, t) \in Nat /\ StakeOf(q, t) <= Unspent[q]
          /\ Unspent'[q] = IF Covered(q, t) THEN Unspent[q] - StakeOf(q, t) ELSE Unspent[q]
          /\ \A r \in Runs \ {q} : Unspent'[r] = Unspent[r]
      BY <1>3, <2>0, <2>1, UnspentTaken
    <2>3. staker' = IF Covered(q, t) THEN staker - StakeOf(q, t) ELSE staker
      BY <1>3, <2>0 DEF MineStake
    <2>4. Unspent[q] \in Nat /\ Unspent'[q] \in Nat
      BY <1>1, <2>2
    <2>5. Unspent' \in [Runs -> Nat]
      BY <1>1, <1>2, <2>2, <2>4
    <2>6. Sum(Unspent') = Sum(Unspent) - Unspent[q] + Unspent'[q]
      BY <1>1, <2>2, <2>5, SumUpdate
    <2>7. QED BY <1>1, <2>2, <2>3, <2>4, <2>6
  <1>4. ASSUME NEW q \in Runs, MineGift(q) PROVE staker' = Sum(Unspent')
    <2>1. stake' = stake /\ mintRequest' = mintRequest /\ gift[q] = "pending"
      BY <1>4 DEF MineGift
    <2>2. NothingStaked(q)
      BY <2>1 DEF RunInv
    <2>3. \A r \in Runs \ {q} : Unspent'[r] = Unspent[r]
      <3>1. ASSUME NEW r \in Runs \ {q} PROVE gift'[r] = gift[r]
        BY <1>4, Domains DEF MineGift
      <3>2. QED BY <2>1, <3>1, UnspentSame
    <2>4. CASE foundation >= AmountToStake(q)
      <3>1. gift'[q] = "mined" /\ staker' = staker + AmountToStake(q)
        <4>1. gift' = [gift EXCEPT ![q] = "mined"] \/ foundation < AmountToStake(q)
          BY <1>4 DEF MineGift
        <4>2. foundation \in Nat /\ AmountToStake(q) \in Nat
          BY Division DEF MintTypeOK
        <4>3. ~(foundation < AmountToStake(q))
          BY <2>4, <4>2
        <4>4. QED BY <1>4, <4>1, <4>3, Domains DEF MineGift
      <3>2. Unspent[q] = 0 /\ AmountToStake(q) \in Nat
        BY <2>1, UnspentType, Division
      <3>3. Unspent'[q] = AmountToStake(q)
        <4>1. AmountToStake(q)' = AmountToStake(q) /\ Spent(q, "BT")' = 0
              /\ Spent(q, "STPrime")' = 0
          BY <2>1, <2>2 DEF AmountToStake, Spent, NothingStaked, Parts
        <4>2. QED BY <3>1, <3>2, <4>1, UnspentAfter
      <3>4. Unspent' \in [Runs -> Nat]
        BY <1>1, <1>2, <2>3, <3>2, <3>3
      <3>5. Sum(Unspent') = Sum(Unspent) - Unspent[q] + Unspent'[q]
        BY <1>1, <2>3, <3>4, SumUpdate
      <3>6. QED BY <1>1, <3>1, <3>2, <3>3, <3>5
    <2>5. CASE ~(foundation >= AmountToStake(q))
      <3>1. gift'[q] = "failed" /\ staker' = staker
        BY <1>4, <2>5, Domains DEF MineGift
      <3>2. Unspent'[q] = Unspent[q]
        BY <2>1, <3>1, UnspentSame
      <3>3. Unspent' = Unspent
        BY <1>2, <2>3, <3>2
      <3>4. QED BY <3>1, <3>3
    <2>6. QED BY <2>4, <2>5
  <1>5. CASE ~MineStake /\ \A q \in Runs : ~MineGift(q)
    <2>1. staker' = staker
      BY <1>5 DEF Frame
    <2>2. ASSUME NEW r \in Runs PROVE Unspent'[r] = Unspent[r]
      <3>1. gift'[r] = "mined" <=> gift[r] = "mined"
        BY <1>5, GiftMoves
      <3>2. \A p \in Parts : stake'[r][p] \in {"staked", "credited"}
                               <=> stake[r][p] \in {"staked", "credited"}
        BY <1>5, StakeMoves
      <3>3. QED BY <3>1, <3>2, UnspentSame
    <2>3. Unspent' = Unspent
      BY <1>2, <2>2
    <2>4. QED BY <2>1, <2>3
  <1>6. QED BY <1>3, <1>4, <1>5

\* A run approves at least what it was given.
LEMMA SeenStep ==
  ASSUME MintTypeOK, MintTypeOK', \A r \in Runs : RunInv(r), SentInv, Frame,
         MeansInv, OwnMeans, mintFaults = 0, NEW r \in Runs,
         gift'[r] = "mined", mintStep'[r] = "approve" \/ approval'[r] = "pending"
  PROVE  seen'[r] >= AmountToStake(r)'
PROOF
  <1>1. /\ staker = Sum(Unspent)
        /\ gift[r] = "mined" /\ (mintStep[r] = "approve" \/ approval[r] = "pending") =>
             seen[r] >= AmountToStake(r)
    BY DEF MeansInv
  <1>2. gift[r] = "mined" \/ (MineGift(r) /\ gift[r] = "pending")
    BY GiftMoves
  <1>3. CASE gift[r] = "pending"
    <2>1. mintStep[r] \in {"transferReceipt", "killed"} /\ approval[r] = "none"
      BY <1>3 DEF RunInv
    <2>2. mintStep' = mintStep /\ approval' = approval
      BY <1>2, <1>3 DEF MineGift
    <2>3. QED BY <2>1, <2>2
  <1>4. CASE gift[r] = "mined"
    <2>1. AmountToStake(r)' = AmountToStake(r) /\ AmountToStake(r) \in Nat
      BY <1>4, GiftedIsNotNew, RequestStays, Division
    <2>2. ASSUME GetStakerSTBalance(r) PROVE seen'[r] >= AmountToStake(r)'
      <3>1. seen' = [seen EXCEPT ![r] = staker] /\ mintStep[r] = "balance"
        BY <2>2 DEF GetStakerSTBalance, See
      <3>2. seen'[r] = staker
        BY <3>1 DEF MintTypeOK
      <3>3. NothingStaked(r)
        BY <3>1 DEF RunInv, BeforeApproval
      <3>4. Unspent[r] = AmountToStake(r) /\ Unspent \in [Runs -> Nat]
        BY <1>4, <3>3, UnspentType
      <3>5. /\ Sum(Unspent) = Sum([Unspent EXCEPT ![r] = 0]) + Unspent[r]
            /\ Sum([Unspent EXCEPT ![r] = 0]) \in Nat
        <4>1. IsFiniteSet(Runs) /\ [Unspent EXCEPT ![r] = 0] \in [Runs -> Nat]
          BY <3>4, MintToolAssumption
        <4>2. QED BY <3>4, <4>1, SumWithout, SumType
      <3>6. QED BY <1>1, <2>1, <3>2, <3>4, <3>5
    <2>3. CASE ~GetStakerSTBalance(r)
      <3>1. mintStep'[r] = "approve" => mintStep[r] = "approve"
        <4>1. ASSUME mintStep'[r] = "approve", mintStep[r] # "approve" PROVE FALSE
          <5>1. PICK q \in Runs : Moves(q)
            BY <4>1 DEF Frame
          <5>2. PICK s \in Running \cup Exited :
                  mintStep' = [mintStep EXCEPT ![q] = s] /\ (s = "approve" => GetStakerSTBalance(q))
            BY <5>1 DEF Moves
          <5>3. q = r /\ s = "approve"
            BY <4>1, <5>2, Domains
          <5>4. QED BY <2>3, <5>2, <5>3
        <4>2. QED BY <4>1
      <3>2. approval'[r] = "pending" => approval[r] = "pending" \/ mintStep[r] = "approve"
        BY ApprovalMoves
      <3>3. seen[r] >= AmountToStake(r)
        BY <1>1, <1>4, <3>1, <3>2
      <3>4. seen'[r] = seen[r]
        <4>1. ASSUME NEW q \in Runs, NEW p \in Parts, ReadBefore(q, p) PROVE q # r
          <5>1. mintStep[q] \in {"beforeBT", "beforeSTPrime"}
            BY <4>1 DEF ReadBefore, Before
          <5>2. approval[q] = "mined" /\ mintStep[q] # "approve"
            BY <5>1 DEF RunInv, Staking
          <5>3. QED BY <3>1, <3>2, <5>2
        <4>2. ASSUME NEW q \in Runs, q # r,
                     GetStakerSTBalance(q) \/ \E p \in Parts : ReadBefore(q, p)
              PROVE  seen'[r] = seen[r]
          BY <4>2 DEF GetStakerSTBalance, ReadBefore, See, MintTypeOK
        <4>3. QED BY <2>3, <4>1, <4>2 DEF Frame
      <3>5. QED BY <2>1, <3>3, <3>4
    <2>4. QED BY <2>2, <2>3
  <1>5. QED BY <1>2, <1>3, <1>4

\* What a run that was alone has approved still covers what it has left.
LEMMA AllowanceStep ==
  ASSUME MintTypeOK, MintTypeOK', \A r \in Runs : RunInv(r), SentInv,
         AloneInv, Frame,
         \A r \in Runs : QueueInv(r), MeansInv, OwnMeans, mintFaults = 0,
         NEW r \in Runs, Alone(r)', gift'[r] = "mined", approval'[r] = "mined",
         mintStep'[r] \in Running \/ \E i \in DOMAIN sent' : StakeOfRun(sent'[i], r)
  PROVE  allowance' >= Unspent'[r]
PROOF
  <1>1. Alone(r)
    BY DisturbedStay DEF Alone
  <1>2. /\ gift[r] = "mined" /\ approval[r] = "pending" => seen[r] >= AmountToStake(r)
        /\ /\ gift[r] = "mined" /\ approval[r] = "mined"
           /\ mintStep[r] \in Running \/ \E i \in DOMAIN sent : StakeOfRun(sent[i], r)
           => allowance >= Unspent[r]
    BY <1>1 DEF MeansInv
  <1>3. gift[r] = "mined" /\ gift'[r] = gift[r]
    <2>1. CASE gift[r] = "pending"
      <3>1. approval[r] = "none"
        BY <2>1 DEF RunInv
      <3>2. MineGift(r)
        BY <2>1, GiftMoves
      <3>3. approval' = approval
        BY <3>2 DEF MineGift
      <3>4. QED BY <3>1, <3>3
    <2>2. QED BY <2>1, GiftMoves
  <1>4. CASE approval[r] # "mined"
    <2>1. MineApproval /\ approval[r] = "pending" /\ allowance' = seen[r]
      BY <1>4, ApprovalMoves
    <2>2. stake' = stake
      BY <2>1 DEF MineApproval
    <2>3. Unspent'[r] = Unspent[r] /\ Unspent[r] <= AmountToStake(r) /\ Unspent[r] \in Nat
      BY <1>3, <2>2, UnspentSame, UnspentType
    <2>4. seen[r] \in Nat /\ AmountToStake(r) \in Nat
      BY Division DEF MintTypeOK
    <2>5. QED BY <1>2, <1>3, <2>1, <2>3, <2>4
  <1>5. CASE approval[r] = "mined"
    <2>1. mintStep'[r] \in Running => mintStep[r] \in Running
      <3>1. Begin(r) => approval[r] = "none"
        BY DEF Begin, RunInv, BeforeApproval
      <3>2. QED BY <1>5, <3>1, WasRunning
    <2>2. /\ mintStep[r] \in Running => \A i \in DOMAIN sent : StakeOfRun(sent[i], r)
          /\ \A i, j \in DOMAIN sent : StakeOfRun(sent[i], r) /\ j < i => StakeOfRun(sent[j], r)
      BY <1>1, <1>5 DEF QueueInv
    <2>3. CASE MineApproval \/ MineStake
      <3>1. /\ sent # <<>> /\ sent' = Tail(sent) /\ Head(sent) = sent[1] /\ 1 \in DOMAIN sent
            /\ \A i \in DOMAIN sent' : i \in Nat \ {0} /\ i + 1 \in DOMAIN sent
                                       /\ sent'[i] = sent[i + 1]
        <4>1. sent # <<>> /\ sent' = Tail(sent)
          BY <2>3 DEF MineApproval, MineStake
        <4>2. /\ Head(sent) = sent[1] /\ 1 \in DOMAIN sent
              /\ DOMAIN Tail(sent) = 1..(Len(sent) - 1) /\ Len(sent) \in Nat \ {0}
              /\ \A i \in DOMAIN Tail(sent) : i + 1 \in DOMAIN sent /\ Tail(sent)[i] = sent[i + 1]
          BY <4>1, FirstSent
        <4>3. \A i \in 1..(Len(sent) - 1) : i \in Nat \ {0}
          BY <4>2
        <4>4. QED BY <4>1, <4>2, <4>3
      <3>2. StakeOfRun(Head(sent), r)
        <4>1. CASE mintStep'[r] \in Running
          BY <2>1, <2>2, <3>1, <4>1
        <4>2. CASE \E i \in DOMAIN sent' : StakeOfRun(sent'[i], r)
          <5>1. PICK i \in DOMAIN sent' : StakeOfRun(sent'[i], r)
            BY <4>2
          <5>2. i + 1 \in DOMAIN sent /\ 1 < i + 1 /\ StakeOfRun(sent[i + 1], r)
            BY <3>1, <5>1
          <5>3. QED BY <2>2, <3>1, <5>2
        <4>3. QED BY <4>1, <4>2
      <3>3. MineStake /\ Head(sent).run = r /\ Head(sent).kind \in Parts
        BY <2>3, <3>2 DEF MineApproval, StakeOfRun, Parts
      <3>4. allowance >= Unspent[r]
        BY <1>2, <1>3, <1>5, <3>1, <3>2
      <3>5. PICK t \in Parts : t = Head(sent).kind
        BY <3>3
      <3>6. /\ StakeOf(r, t) \in Nat /\ StakeOf(r, t) <= Unspent[r]
            /\ Unspent'[r] = IF Covered(r, t) THEN Unspent[r] - StakeOf(r, t) ELSE Unspent[r]
        BY <1>3, <3>3, <3>5, UnspentTaken
      <3>7. allowance' = IF Covered(r, t) THEN allowance - StakeOf(r, t) ELSE allowance
        BY <3>3, <3>5 DEF MineStake
      <3>8. allowance \in Nat /\ Unspent[r] \in Nat
        BY UnspentType DEF MintTypeOK
      <3>9. QED BY <3>4, <3>6, <3>7, <3>8
    <2>4. CASE ~MineApproval /\ ~MineStake
      <3>1. allowance' = allowance
        BY <2>4 DEF Frame
      <3>2. \A p \in Parts : stake'[r][p] \in {"staked", "credited"}
                               <=> stake[r][p] \in {"staked", "credited"}
        BY <2>4, StakeMoves
      <3>3. Unspent'[r] = Unspent[r]
        BY <1>3, <3>2, UnspentSame
      <3>4. (\E i \in DOMAIN sent' : StakeOfRun(sent'[i], r)) =>
              mintStep[r] \in Running \/ \E i \in DOMAIN sent : StakeOfRun(sent[i], r)
        <4>1. ASSUME NEW q \in Runs, NEW kind \in {"approve"} \cup Parts,
                     sent' = Append(sent, [run |-> q, kind |-> kind]),
                     kind = "approve" \/ mintStep[q] \in Running,
                     NEW i \in DOMAIN sent', StakeOfRun(sent'[i], r)
              PROVE  mintStep[r] \in Running \/ \E j \in DOMAIN sent : StakeOfRun(sent[j], r)
          <5> DEFINE entry == [run |-> q, kind |-> kind]
          <5>1. entry \in Txs /\ entry.run = q /\ entry.kind = kind
            BY DEF Txs
          <5>2. sent' = Append(sent, entry)
            BY <4>1
          <5> HIDE DEF entry
          <5>3. /\ DOMAIN sent = 1..Len(sent) /\ DOMAIN sent' = 1..(Len(sent) + 1)
                /\ Len(sent) \in Nat /\ sent'[Len(sent) + 1] = entry
                /\ \A j \in DOMAIN sent : sent'[j] = sent[j]
            BY <5>1, <5>2, OneMoreSent
          <5>4. CASE i = Len(sent) + 1
            BY <4>1, <5>1, <5>3, <5>4 DEF StakeOfRun, Parts
          <5>5. CASE i \in DOMAIN sent
            BY <4>1, <5>3, <5>5
          <5>6. QED BY <5>3, <5>4, <5>5
        <4>2. ASSUME NEW q \in Runs, Approve(q)
              PROVE  sent' = Append(sent, [run |-> q, kind |-> "approve"])
          BY <4>2 DEF Approve, SendTx
        <4>3. ASSUME NEW q \in Runs, NEW p \in Parts, StartStake(q, p)
              PROVE  /\ mintStep[q] \in Running
                     /\ sent' = sent \/ sent' = Append(sent, [run |-> q, kind |-> p])
          BY <4>3, Sender DEF StartStake, SendTx
        <4>4. QED BY <2>4, <4>1, <4>2, <4>3 DEF Frame
      <3>5. QED BY <1>2, <1>3, <1>5, <2>1, <3>1, <3>3, <3>4
    <2>5. QED BY <2>3, <2>4
  <1>6. QED BY <1>4, <1>5

LEMMA MeansStep ==
  ASSUME MintTypeOK, MintTypeOK', \A r \in Runs : RunInv(r), SentInv,
         AloneInv, Frame,
         \A r \in Runs : QueueInv(r), MeansInv
  PROVE  MeansInv'
PROOF
  <1> SUFFICES ASSUME OwnMeans', mintFaults' = 0
               PROVE  /\ staker' = Sum(Unspent')
                      /\ \A r \in Runs :
                           gift'[r] = "mined" /\ (mintStep'[r] = "approve" \/ approval'[r] = "pending") =>
                             seen'[r] >= AmountToStake(r)'
                      /\ \A r \in Runs :
                           /\ Alone(r)' /\ gift'[r] = "mined" /\ approval'[r] = "mined"
                           /\ mintStep'[r] \in Running
                              \/ \E i \in DOMAIN sent' : StakeOfRun(sent'[i], r)
                           => allowance' >= Unspent'[r]
    BY DEF MeansInv, StakeOfRun
  <1>1. OwnMeans /\ mintFaults = 0
    BY OwnMeansBefore
  <1>2. staker' = Sum(Unspent')
    BY <1>1, StakerStep DEF MeansInv
  <1>3. QED BY <1>1, <1>2, SeenStep, AllowanceStep

\* So both stakes of a run that was alone are accepted.
LEMMA CoveredAlone ==
  ASSUME MintTypeOK, MeansInv, OwnMeans, mintFaults = 0,
         NEW r \in Runs, NEW p \in Parts, Alone(r), gift[r] = "mined", approval[r] = "mined",
         mintStep[r] \in Running \/ \E i \in DOMAIN sent : StakeOfRun(sent[i], r),
         stake[r][p] \in {"none", "pending"}
  PROVE  Covered(r, p)
PROOF
  <1>1. staker = Sum(Unspent) /\ allowance >= Unspent[r]
    BY DEF MeansInv
  <1>2. Unspent \in [Runs -> Nat] /\ StakeOf(r, p) <= Unspent[r]
    <2>1. Spent(r, p) = 0
      BY DEF Spent
    <2>2. QED BY <2>1, UnspentType
  <1>3. /\ Sum(Unspent) = Sum([Unspent EXCEPT ![r] = 0]) + Unspent[r]
        /\ Sum([Unspent EXCEPT ![r] = 0]) \in Nat
    <2>1. IsFiniteSet(Runs) /\ [Unspent EXCEPT ![r] = 0] \in [Runs -> Nat]
      BY <1>2, MintToolAssumption
    <2>2. QED BY <1>2, <2>1, SumWithout, SumType
  <1>4. Unspent[r] \in Nat /\ StakeOf(r, p) \in Nat /\ allowance \in Nat /\ staker \in Nat
    BY <1>2, Division DEF MintTypeOK
  <1>5. QED BY <1>1, <1>2, <1>3, <1>4 DEF Covered

LEMMA AcceptedStep ==
  ASSUME MintTypeOK, \A r \in Runs : RunInv(r), SentInv, AloneInv, Frame,
         MeansInv, StakesAccepted
  PROVE  StakesAccepted'
PROOF
  <1> SUFFICES ASSUME OwnMeans', mintFaults' = 0, NEW r \in Runs, Alone(r)', gift'[r] = "mined",
                      NEW p \in Parts
               PROVE  stake'[r][p] \notin {"refused", "failed"}
    BY DEF StakesAccepted
  <1>1. OwnMeans /\ mintFaults = 0 /\ UNCHANGED mintFaults
    BY OwnMeansBefore, FaultsStay
  <1>2. Alone(r)
    BY DisturbedStay DEF Alone
  <1>3. CASE gift[r] # "mined"
    <2>1. MineGift(r) /\ gift[r] = "pending"
      BY <1>3, GiftMoves
    <2>2. NothingStaked(r)
      BY <1>1, <2>1 DEF RunInv
    <2>3. stake' = stake
      BY <2>1 DEF MineGift
    <2>4. QED BY <2>2, <2>3 DEF NothingStaked
  <1>4. CASE gift[r] = "mined"
    <2>1. stake[r][p] \notin {"refused", "failed"}
      BY <1>1, <1>2, <1>4 DEF StakesAccepted
    <2>2. CASE StartStake(r, p) /\ stake[r][p] = "none"
      <3>1. approval[r] = "mined" /\ mintStep[r] \in Running
        BY <2>2, Sender, NotSentYet
      <3>2. Covered(r, p)
        BY <1>1, <1>2, <1>4, <2>2, <3>1, CoveredAlone
      <3>3. stake' = [stake EXCEPT ![r][p] = "pending"]
        BY <1>1, <2>2, <3>2 DEF StartStake, MintFault, MintTypeOK
      <3>4. QED BY <3>3, Domains
    <2>3. CASE /\ MineStake /\ sent # <<>> /\ Head(sent).run = r /\ Head(sent).kind = p
               /\ stake[r][p] = "pending"
               /\ stake'[r][p] = IF Covered(r, p) THEN "staked" ELSE "failed"
      <3>1. StakeOfRun(sent[1], r) /\ 1 \in DOMAIN sent
        BY <2>3, FirstSent DEF StakeOfRun
      <3>2. approval[r] = "mined"
        BY <2>3 DEF RunInv, NothingStaked
      <3>3. Covered(r, p)
        BY <1>1, <1>2, <1>4, <2>3, <3>1, <3>2, CoveredAlone
      <3>4. QED BY <2>3, <3>3
    <2>4. QED BY <2>1, <2>2, <2>3, StakeMoves
  <1>5. QED BY <1>3, <1>4

-----------------------------------------------------------------------------
(* What the balances show.                                                 *)

LEMMA NotNewAgain ==
  ASSUME MintTypeOK, Frame, NEW r \in Runs, mintStep[r] # "new"
  PROVE  mintStep'[r] # "new"
PROOF
  <1>1. ASSUME NEW q \in Runs, Moves(q) PROVE mintStep'[r] # "new"
    <2>1. PICK s \in Running \cup Exited : mintStep' = [mintStep EXCEPT ![q] = s]
      BY <1>1 DEF Moves
    <2>2. s # "new"
      BY DEF Running, Exited
    <2>3. QED BY <2>1, <2>2, Domains
  <1>2. QED BY <1>1 DEF Frame

LEMMA CreditedStays ==
  ASSUME MintTypeOK, \A r \in Runs : RunInv(r), SentInv, Frame, NEW r \in Runs, NEW p \in Parts,
         stake[r][p] = "credited"
  PROVE  stake'[r][p] = "credited"
PROOF
  BY StakeMoves

LEMMA MintedStays ==
  ASSUME MintTypeOK, \A r \in Runs : RunInv(r), SentInv, Frame, NEW r \in Runs, NEW p \in Parts,
         Provided(r, p)
  PROVE  Provided(r, p)'
PROOF
  <1>1. misled \subseteq misled'
    <2>1. \A q \in Runs, u \in Parts : Credit(q, u) => misled \subseteq misled'
      BY DEF Credit
    <2>2. \A m \in Moved : MoveReserve(m) => misled \subseteq misled'
      BY DEF MoveReserve, Arrive, Leave
    <2>3. QED BY <2>1, <2>2 DEF Frame
  <1>2. QED BY <1>1, CreditedStays DEF Provided

\* While a run waits, the reserve grows by its own tokens, or by others and then
\* the run is misled.
LEMMA WaitStep ==
  ASSUME MintTypeOK, MintTypeOK', \A r \in Runs : RunInv(r), SentInv, Frame, CreditInv,
         NEW r \in Runs, NEW p \in Parts,
         mintStep'[r] = Wait(p), ~Provided(r, p)'
  PROVE  credit'[Token(r)'][p] <= seen'[r]
PROOF
  <1>1. ~Provided(r, p)
    BY MintedStays
  <1>2. Wait(p) \in {"waitBT", "waitSTPrime"}
    BY DEF Wait
  <1>3. credit \in [Tokens -> [Parts -> Nat]] /\ seen \in [Runs -> Nat]
    BY DEF MintTypeOK
  <1>4. CASE mintStep[r] = Wait(p)
    <2>1. mintStep[r] # "new" /\ Token(r)' = Token(r) /\ Token(r) \in Tokens
      BY <1>2, <1>4, RequestStays, TokenOf
    <2>2. credit[Token(r)][p] <= seen[r] /\ credit[Token(r)][p] \in Nat /\ seen[r] \in Nat
      BY <1>1, <1>3, <1>4, <2>1 DEF CreditInv
    <2>3. seen'[r] = seen[r]
      <3>1. ASSUME NEW q \in Runs, GetStakerSTBalance(q) PROVE seen'[r] = seen[r]
        BY <1>2, <1>3, <1>4, <3>1 DEF GetStakerSTBalance, See
      <3>2. ASSUME NEW q \in Runs, NEW u \in Parts, ReadBefore(q, u) PROVE seen'[r] = seen[r]
        BY <1>2, <1>3, <1>4, <3>2 DEF ReadBefore, Before, See
      <3>3. QED BY <3>1, <3>2 DEF Frame
    <2>4. r \in Waiters(Token(r), p) /\ <<r, p>> \notin misled' /\ stake'[r][p] # "credited"
      BY <1>4 DEF Waiters, Provided
    <2>5. ASSUME NEW q \in Runs, NEW u \in Parts, Credit(q, u)
          PROVE  credit'[Token(r)][p] = credit[Token(r)][p]
      <3>1. /\ credit' = [credit EXCEPT ![Token(q)][u] = credit[Token(q)][u] + StakeOf(q, u)]
            /\ stake' = [stake EXCEPT ![q][u] = "credited"] /\ stake[q][u] = "staked"
            /\ misled' = misled \cup ((Waiters(Token(q), u) \ {q}) \X {u})
        BY <2>5 DEF Credit
      <3>2. ~(q = r /\ u = p)
        BY <2>4, <3>1, Domains
      <3>3. ~(Token(q) = Token(r) /\ u = p)
        BY <2>4, <3>1, <3>2
      <3>4. Token(q) \in Tokens
        <4>1. mintStep[q] # "new"
          BY <3>1 DEF RunInv, BeforeApproval, NothingStaked
        <4>2. QED BY <4>1, TokenOf
      <3>5. QED BY <1>3, <2>1, <3>1, <3>3, <3>4
    <2>6. ASSUME NEW m \in Moved, MoveReserve(m)
          PROVE  credit'[Token(r)][p] <= credit[Token(r)][p]
      <3>1. m.token \in Tokens /\ m.part \in Parts /\ m.amount \in Nat
        BY MoveType
      <3>2. credit[m.token][m.part] \in Nat
        BY <1>3, <3>1
      <3>3. CASE Arrive(m.token, m.part, m.amount)
        <4>1. m.token # Token(r) \/ m.part # p
          BY <2>4, <3>3 DEF Arrive
        <4>2. credit'[Token(r)][p] = credit[Token(r)][p]
          BY <1>3, <2>1, <3>1, <3>3, <4>1 DEF Arrive
        <4>3. QED BY <2>2, <4>2
      <3>4. CASE Leave(m.token, m.part, m.amount)
        <4>1. credit' = [credit EXCEPT ![m.token][m.part] = credit[m.token][m.part] - m.amount]
          BY <3>4 DEF Leave
        <4>2. CASE m.token = Token(r) /\ m.part = p
          <5>1. credit'[Token(r)][p] = credit[Token(r)][p] - m.amount
            BY <1>3, <3>1, <4>1, <4>2
          <5>2. QED BY <2>2, <3>1, <5>1
        <4>3. CASE m.token # Token(r) \/ m.part # p
          <5>1. credit'[Token(r)][p] = credit[Token(r)][p]
            BY <1>3, <2>1, <3>1, <4>1, <4>3
          <5>2. QED BY <2>2, <5>1
        <4>4. QED BY <4>2, <4>3
      <3>5. QED BY <2>6, <3>3, <3>4 DEF MoveReserve
    <2>7. credit' = credit \/ credit'[Token(r)][p] <= credit[Token(r)][p]
      <3>1. \A q \in Runs, u \in Parts : Credit(q, u) => credit'[Token(r)][p] <= credit[Token(r)][p]
        BY <2>2, <2>5
      <3>2. QED BY <2>6, <3>1 DEF Frame
    <2>8. CASE credit' = credit
      BY <2>1, <2>2, <2>3, <2>8
    <2>9. CASE credit' # credit
      <3>1. credit'[Token(r)][p] \in Nat
        BY <2>1 DEF MintTypeOK
      <3>2. QED BY <2>1, <2>2, <2>3, <2>7, <2>9, <3>1
    <2>10. QED BY <2>8, <2>9
  <1>5. CASE mintStep[r] # Wait(p)
    <2>1. PICK q \in Runs : Moves(q)
      BY <1>5 DEF Frame
    <2>2. PICK v \in Running \cup Exited :
            /\ mintStep' = [mintStep EXCEPT ![q] = v]
            /\ v \in {"waitBT", "waitSTPrime"} => \E u \in Parts : ReadBefore(q, u) /\ v = Wait(u)
      BY <2>1 DEF Moves
    <2>3. q = r /\ v = Wait(p)
      BY <1>5, <2>2, Domains
    <2>4. PICK u \in Parts : ReadBefore(r, u) /\ Wait(p) = Wait(u)
      BY <1>2, <2>2, <2>3
    <2>5. u = p
      BY <2>4 DEF Wait, Parts
    <2>6. /\ mintStep[r] = Before(p) /\ seen' = [seen EXCEPT ![r] = credit[Token(r)][p]]
          /\ credit' = credit /\ mintRequest' = mintRequest
      BY <2>4, <2>5 DEF ReadBefore, See, chain
    <2>7. mintStep[r] # "new"
      BY <2>6 DEF Before
    <2>8. seen'[r] = credit[Token(r)][p] /\ Token(r)' = Token(r)
          /\ credit[Token(r)][p] \in Nat
      BY <1>3, <2>6, <2>7, TokenOf DEF Token
    <2>9. QED BY <2>6, <2>8
  <1>6. QED BY <1>4, <1>5

LEMMA CreditStep ==
  ASSUME MintTypeOK, MintTypeOK', \A r \in Runs : RunInv(r), SentInv, Frame, CreditInv
  PROVE  CreditInv'
PROOF
  <1>1. ASSUME NEW r \in Runs, NEW p \in Parts, mintStep'[r] = Wait(p), ~Provided(r, p)'
        PROVE  credit'[Token(r)'][p] <= seen'[r]
    BY <1>1, WaitStep
  <1>2. ASSUME NEW r \in Runs,
               mintStep'[r] \in {"STPrime", "beforeSTPrime", "waitSTPrime", "exit 0"}
        PROVE  Provided(r, "BT")' /\ (mintStep'[r] = "exit 0" => Provided(r, "STPrime")')
    <2>1. "BT" \in Parts /\ "STPrime" \in Parts
      BY DEF Parts
    <2>2. CASE mintStep'[r] = mintStep[r]
      <3>1. Provided(r, "BT") /\ (mintStep[r] = "exit 0" => Provided(r, "STPrime"))
        BY <1>2, <2>2 DEF CreditInv
      <3>2. QED BY <2>1, <2>2, <3>1, MintedStays
    <2>3. CASE mintStep'[r] # mintStep[r]
      <3>1. PICK q \in Runs : Moves(q)
        BY <2>3 DEF Frame
      <3>2. PICK v \in Running \cup Exited :
              /\ mintStep' = [mintStep EXCEPT ![q] = v]
              /\ v \in {"beforeSTPrime", "waitSTPrime"} => mintStep[q] \in {"STPrime", "beforeSTPrime"}
              /\ v \in {"STPrime", "exit 0"} => \E p \in Parts : SeeMint(q, p) /\ v = After(p)
        BY <3>1 DEF Moves
      <3>3. q = r /\ mintStep'[r] = v
        BY <2>3, <3>2, Domains
      <3>4. mintStep[r] \in {"STPrime", "beforeSTPrime", "waitSTPrime", "exit 0"} => Provided(r, "BT")
        BY DEF CreditInv
      <3>5. ASSUME NEW p \in Parts, SeeMint(r, p) PROVE Provided(r, p)
        <4>1. mintStep[r] = Wait(p) /\ credit[Token(r)][p] > seen[r]
          BY <3>5 DEF SeeMint, Increased
        <4>2. Token(r) \in Tokens /\ seen[r] \in Nat /\ credit[Token(r)][p] \in Nat
          <5>1. mintStep[r] # "new"
            BY <4>1 DEF Wait
          <5>2. QED BY <5>1, TokenOf DEF MintTypeOK
        <4>3. ~(credit[Token(r)][p] <= seen[r])
          BY <4>1, <4>2
        <4>4. QED BY <4>1, <4>3 DEF CreditInv
      <3>6. CASE v \in {"beforeSTPrime", "waitSTPrime"}
        <4>1. Provided(r, "BT") /\ v # "exit 0"
          BY <3>2, <3>3, <3>4, <3>6
        <4>2. QED BY <2>1, <3>3, <4>1, MintedStays
      <3>7. CASE v \in {"STPrime", "exit 0"}
        <4>1. PICK p \in Parts : SeeMint(r, p) /\ v = After(p)
          BY <3>2, <3>3, <3>7
        <4>2. CASE p = "BT"
          <5>1. v = "STPrime" /\ Provided(r, "BT")
            BY <3>5, <4>1, <4>2 DEF After
          <5>2. QED BY <2>1, <3>3, <5>1, MintedStays
        <4>3. CASE p = "STPrime"
          <5>1. Provided(r, "STPrime") /\ mintStep[r] = "waitSTPrime"
            BY <3>5, <4>1, <4>3 DEF SeeMint, Wait
          <5>2. QED BY <2>1, <3>4, <5>1, MintedStays
        <4>4. QED BY <4>2, <4>3 DEF Parts
      <3>8. QED BY <1>2, <3>3, <3>6, <3>7
    <2>4. QED BY <2>2, <2>3
  <1>3. QED BY <1>1, <1>2 DEF CreditInv

-----------------------------------------------------------------------------
(* The minting tool as a whole.                                            *)

LEMMA MintStart ==
  ASSUME MintInit
  PROVE  MintInv
PROOF
  <1>1. MintTypeOK
    <2>1. \A r \in Runs : [p \in Parts |-> "none"] \in [Parts -> StakeStates]
      BY DEF StakeStates
    <2>2. \A t \in Tokens : [p \in Parts |-> 0] \in [Parts -> Nat]
      OBVIOUS
    <2>3. "none" \in SentStates
      BY DEF SentStates
    <2>4. sent \in Seq(Txs)
      BY DEF MintInit
    <2>5. stake \in [Runs -> [Parts -> StakeStates]] /\ credit \in [Tokens -> [Parts -> Nat]]
      BY <2>1, <2>2 DEF MintInit
    <2>6. QED BY <2>3, <2>4, <2>5, MintToolAssumption DEF MintTypeOK, MintInit
  <1>2. ASSUME NEW r \in Runs PROVE RunInv(r)
    BY DEF MintInit, RunInv, BeforeApproval, Staking, NothingStaked
  <1>3. SentInv /\ AloneInv
    BY DEF MintInit, SentInv, AloneInv, Running
  <1>4. ASSUME NEW r \in Runs PROVE QueueInv(r)
    BY DEF MintInit, QueueInv, Running
  <1>5. MeansInv
    <2>1. Unspent \in [Runs -> Nat] /\ \A r \in Runs : Unspent[r] = 0
      BY DEF Unspent, MintInit
    <2>2. Sum(Unspent) = 0
      BY <2>1, SumZero
    <2>3. QED BY <2>2 DEF MintInit, MeansInv
  <1>6. StakesAccepted
    BY DEF MintInit, StakesAccepted
  <1>7. CreditInv
    <2>1. \A r \in Runs : mintStep[r] = "new"
      BY DEF MintInit
    <2>2. QED BY <2>1 DEF CreditInv, Wait
  <1>8. QED BY <1>1, <1>2, <1>3, <1>4, <1>5, <1>6, <1>7 DEF MintInv

LEMMA MintStep ==
  ASSUME MintInv, [MintNext]_mintVars
  PROVE  MintInv'
PROOF
  <1>1. /\ MintTypeOK /\ (\A r \in Runs : RunInv(r)) /\ SentInv /\ AloneInv
        /\ (\A r \in Runs : QueueInv(r)) /\ MeansInv /\ StakesAccepted /\ CreditInv
    BY DEF MintInv
  <1>2. Frame
    BY Frames
  <1>3. MintTypeOK'
    BY <1>1, <1>2, MintTypeStep
  <1>4. \A r \in Runs : RunInv(r)'
    BY <1>1, RunStep
  <1>5. SentInv' /\ AloneInv'
    BY <1>1, <1>2, SentStep, AloneStep
  <1>6. \A r \in Runs : QueueInv(r)'
    <2>1. ASSUME NEW r \in Runs PROVE QueueInv(r)'
      <3>1. CASE Alone(r)'
        BY <1>1, <1>2, <1>3, <3>1, QueueStep
      <3>2. CASE ~Alone(r)'
        BY <3>2 DEF QueueInv
      <3>3. QED BY <3>1, <3>2
    <2>2. QED BY <2>1
  <1>7. MeansInv'
    BY <1>1, <1>2, <1>3, MeansStep
  <1>8. StakesAccepted'
    BY <1>1, <1>2, AcceptedStep
  <1>9. CreditInv'
    BY <1>1, <1>2, <1>3, CreditStep
  <1>10. QED BY <1>3, <1>4, <1>5, <1>6, <1>7, <1>8, <1>9 DEF MintInv

\* The inductive invariant of the minting tool.
THEOREM MintInvariant == MintSpec => []MintInv
PROOF
  <1>1. MintInit => MintInv
    BY MintStart
  <1>2. MintInv /\ [MintNext]_mintVars => MintInv'
    BY MintStep
  <1>3. QED BY <1>1, <1>2, PTL DEF MintSpec

\* Both stakes of a run that was given its ST and overlapped with no other are
\* accepted (mint.js:108), whatever runs before it left behind, unless one of them
\* staked ST that it was not given.
THEOREM StakesAcceptedHolds == MintSpec => []StakesAccepted
PROOF
  <1>1. MintInv => StakesAccepted
    BY DEF MintInv
  <1>2. QED BY <1>1, MintInvariant, PTL

\* A run that ends well had both its stakes minted, unless tokens that were not its
\* own arrived at the reserve between its two looks at the balance (mint.js:156,189),
\* whatever other runs, transfers, failures and kills there are.
THEOREM OwnTokensMintedHolds == MintSpec => []OwnTokensMinted
PROOF
  <1>1. MintInv => OwnTokensMinted
    BY DEF MintInv, CreditInv, OwnTokensMinted, Provided, Parts
  <1>2. QED BY <1>1, MintInvariant, PTL
=============================================================================
