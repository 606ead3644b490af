----------------------- MODULE RedeemAndUnstake_proofs -----------------------
(***************************************************************************)
(* Proofs about RedeemAndUnstake, for any number of redemptions, kills and *)
(* failures: IInv is inductive, and the stake behind redeemed tokens is    *)
(* released only after the tokens are burnt.                               *)
(***************************************************************************)
EXTENDS RedeemAndUnstake, TLAPS

\* The initial states satisfy the invariant.
LEMMA InitInv == Init => IInv
PROOF
  <1>1. SUFFICES ASSUME Init PROVE IInv
    OBVIOUS
  <1>2. TypeOK
    BY <1>1, RedeemAndUnstakeAssumption DEF Init, TypeOK, Steps, Phases, Txs
  <1>3. HandlerInv
    BY <1>1 DEF Init, HandlerInv, Comms, Facilitator, Processor
  <1>4. TxInv /\ StageInv /\ ExcuseInv
    BY <1>1 DEF Init, TxInv, StageInv, ExcuseInv
  <1>5. QED BY <1>2, <1>3, <1>4 DEF IInv

-----------------------------------------------------------------------------
(* Every step preserves the invariant: one lemma per part of the system.   *)

\* The type facts the steps rest on, each on its own.
LEMMA Types ==
  ASSUME TypeOK
  PROVE  /\ balance \in Int /\ allowance \in Int
         /\ usedNonce \in Nat /\ seenNonce \in Nat
         /\ step \in [Redemptions -> Steps]
         /\ approval \in [Redemptions -> Int] /\ nonce \in [Redemptions -> Nat]
         /\ phase \in [Comms -> [Redemptions -> Phases]]
         /\ txs \subseteq Txs
         /\ crashes \in Nat /\ faults \in Nat
         /\ Internal \subseteq Redemptions
         /\ Amount \in [Redemptions -> Nat]
PROOF
  BY RedeemAndUnstakeAssumption DEF TypeOK

\* A transaction that was sent is of its type, and the call and the redemption
\* are those it was sent with.
LEMMA SentTx ==
  ASSUME NEW call \in CallerCalls \cup HandlerCalls, NEW r \in Redemptions
  PROVE  /\ Tx(call, r) \in Txs
         /\ Tx(call, r).call = call /\ Tx(call, r).intent = r
PROOF
  BY DEF Tx, Txs

\* Nobody waits any more for a transaction: it is still the same transaction.
LEMMA Unawaited ==
  ASSUME NEW t \in Txs
  PROVE  /\ [t EXCEPT !.awaited = FALSE] \in Txs
         /\ [t EXCEPT !.awaited = FALSE].call = t.call
         /\ [t EXCEPT !.awaited = FALSE].intent = t.intent
PROOF
  BY DEF Txs

\* An event moves to another phase with one communicator, and no other does.
LEMMA EnterPhase ==
  ASSUME TypeOK, NEW c \in Comms, NEW r \in Redemptions, NEW p \in Phases
  PROVE  LET P == [phase EXCEPT ![c][r] = p] IN
           /\ P \in [Comms -> [Redemptions -> Phases]]
           /\ P[c][r] = p
           /\ \A d \in Comms, q \in Redemptions :
                <<d, q>> # <<c, r>> => P[d][q] = phase[d][q]
PROOF
  BY DEF TypeOK

\* The redeemer's own calls leave the communicators alone, and what they send is
\* not of a kind the invariant says something of.
LEMMA CallerStep ==
  ASSUME IInv, NEW r \in Redemptions, CallerNext(r)
  PROVE  IInv'
PROOF
  <1> USE RedeemAndUnstakeAssumption
  <1>1. TypeOK
    BY DEF IInv
  <1>2. PICK call \in CallerCalls : txs' = txs \/ txs' = txs \cup {Tx(call, r)}
    BY DEF CallerNext, GetBTBalance, Approve, GetNextNonce, Redeem, RedeemSTPrime, SendRedeem,
           CallerCalls
  <1>3. /\ Tx(call, r) \in Txs
        /\ Tx(call, r).call \in CallerCalls
    BY SentTx DEF CallerCalls
  <1>4. UNCHANGED <<chainVars, phase, unburnt, crashes>>
    BY DEF CallerNext, GetBTBalance, Approve, GetNextNonce, Redeem, RedeemSTPrime
  <1>5. faults' \in 0..MaxFaults /\ (faults' = 0 => faults = 0)
    BY <1>1, Types
       DEF TypeOK, CallerNext, GetBTBalance, Approve, GetNextNonce, Redeem, RedeemSTPrime,
           SendRedeem, Fault, NoFault
  <1>6. /\ step' \in [Redemptions -> Steps]
        /\ ofSTPrime' \subseteq Internal
        /\ approval' \in [Redemptions -> Int]
        /\ nonce' \in [Redemptions -> Nat]
    BY <1>1, Types
       DEF TypeOK, CallerNext, GetBTBalance, Approve, GetNextNonce, Redeem, RedeemSTPrime,
           SendRedeem, Go, Steps
  <1>7. TypeOK'
    BY <1>1, <1>2, <1>3, <1>4, <1>5, <1>6 DEF TypeOK, chainVars
  <1>8. HandlerInv'
    BY <1>4 DEF IInv, HandlerInv, chainVars
  <1>9. TxInv'
    BY <1>2, <1>3, <1>4 DEF IInv, TxInv, chainVars, CallerCalls
  <1>10. StageInv' /\ ExcuseInv'
    BY <1>4, <1>5 DEF IInv, StageInv, ExcuseInv, chainVars
  <1>11. QED BY <1>7, <1>8, <1>9, <1>10 DEF IInv

\* The approval of the redeemer is mined, or its polling breaks off.
LEMMA ApprovalStep ==
  ASSUME IInv, NEW t \in txs, MineApprove(t) \/ ApprovalPollFails(t)
  PROVE  IInv'
PROOF
  <1>1. TypeOK /\ t \in Txs
    BY DEF IInv, TypeOK
  <1>2. t.intent \in Redemptions
    BY <1>1 DEF Txs
  <1>3. UNCHANGED <<phase, unburnt, crashes, balance, usedNonce, seenNonce, declared, confirmed,
                    burned, released, ofSTPrime, approval, nonce>>
    BY DEF MineApprove, ApprovalPollFails, chainVars
  <1>4. /\ txs' \subseteq txs \cup {[t EXCEPT !.awaited = FALSE]}
        /\ t.call = "approve"
    BY DEF MineApprove, ApprovalPollFails
  <1>5. faults' \in 0..MaxFaults /\ (faults' = 0 => faults = 0)
    BY <1>1, Types, RedeemAndUnstakeAssumption
       DEF TypeOK, MineApprove, ApprovalPollFails, Fault, NoFault
  <1>6. allowance' \in Int /\ step' \in [Redemptions -> Steps]
    BY <1>1, <1>2, Types DEF MineApprove, ApprovalPollFails, Go, Steps, chainVars
  <1>7. txs' \subseteq Txs
    BY <1>1, <1>4, Unawaited DEF TypeOK
  <1>8. TypeOK'
    BY <1>1, <1>3, <1>5, <1>6, <1>7 DEF TypeOK
  <1>9. TxInv'
    BY <1>1, <1>3, <1>4, Unawaited DEF IInv, TxInv
  <1>10. HandlerInv' /\ StageInv' /\ ExcuseInv'
    BY <1>3, <1>5 DEF IInv, HandlerInv, StageInv, ExcuseInv
  <1>11. QED BY <1>8, <1>9, <1>10 DEF IInv

\* A redemption is declared and queued with redeem_and_unstake.
LEMMA MineRedeemStep ==
  ASSUME IInv, NEW t \in txs, MineRedeem(t)
  PROVE  IInv'
PROOF
  <1> DEFINE r == t.intent
  <1>1. TypeOK /\ t \in Txs
    BY DEF IInv, TypeOK
  <1>2. r \in Redemptions /\ Facilitator \in Comms /\ "queued" \in Phases
    BY <1>1 DEF Txs, Comms, Phases
  <1>3. /\ txs' \subseteq txs
        /\ UNCHANGED <<seenNonce, confirmed, burned, released, callerVars, unburnt, crashes>>
    BY DEF MineRedeem
  <1>4. faults' \in 0..MaxFaults /\ (faults' = 0 => faults = 0)
    BY <1>1, Types, RedeemAndUnstakeAssumption DEF TypeOK, MineRedeem, Fault, NoFault
  <1>5. \/ /\ declared' = declared \cup {r}
           /\ phase' = [phase EXCEPT ![Facilitator][r] = "queued"]
        \/ UNCHANGED <<declared, phase>>
    BY DEF MineRedeem, Enter, DeclaredTo
  <1>6. balance' \in Int /\ allowance' \in Int /\ usedNonce' \in Nat
    BY <1>1, <1>2, Types DEF MineRedeem
  <1>7. phase' \in [Comms -> [Redemptions -> Phases]]
    <2>1. CASE phase' = [phase EXCEPT ![Facilitator][r] = "queued"]
      BY <1>1, <1>2, <2>1, EnterPhase
    <2>2. CASE UNCHANGED phase
      BY <1>1, <2>2, Types
    <2>3. QED BY <1>5, <2>1, <2>2
  <1>8. TypeOK'
    BY <1>1, <1>2, <1>3, <1>4, <1>5, <1>6, <1>7 DEF TypeOK, callerVars
  <1>9. HandlerInv'
    <2>1. CASE UNCHANGED <<declared, phase>>
      BY <1>3, <2>1 DEF IInv, HandlerInv
    <2>2. CASE /\ declared' = declared \cup {r}
               /\ phase' = [phase EXCEPT ![Facilitator][r] = "queued"]
      <3>1. /\ phase'[Facilitator][r] = "queued"
            /\ \A q \in Redemptions \ {r} : phase'[Facilitator][q] = phase[Facilitator][q]
            /\ \A q \in Redemptions : phase'[Processor][q] = phase[Processor][q]
        BY <1>1, <1>2, <2>2, EnterPhase DEF Comms, Facilitator, Processor
      <3>2. QED BY <1>2, <1>3, <2>2, <3>1 DEF IInv, HandlerInv
    <2>3. QED BY <1>5, <2>1, <2>2
  <1>10. TxInv'
    BY <1>3, <1>5 DEF IInv, TxInv
  <1>11. StageInv' /\ ExcuseInv'
    BY <1>3, <1>4, <1>5 DEF IInv, StageInv, ExcuseInv
  <1>12. QED BY <1>8, <1>9, <1>10, <1>11 DEF IInv

\* Somebody else declares a redemption.
LEMMA DeclareStep ==
  ASSUME IInv, NEW r \in Redemptions, Declare(r)
  PROVE  IInv'
PROOF
  <1>1. TypeOK
    BY DEF IInv
  <1>2. Facilitator \in Comms /\ Processor \in Comms /\ "queued" \in Phases
    BY DEF Comms, Phases
  <1>3. /\ declared' = declared \cup {r}
        /\ phase' = [phase EXCEPT ![Facilitator][r] = "queued"]
        /\ UNCHANGED <<balance, allowance, usedNonce, seenNonce, confirmed, burned, released,
                       callerVars, txs, unburnt, crashes, faults>>
    BY DEF Declare, Enter, DeclaredTo
  <1>4. phase' \in [Comms -> [Redemptions -> Phases]]
    BY <1>1, <1>2, <1>3, EnterPhase
  <1>5. /\ \A q \in Redemptions \ {r} : phase'[Facilitator][q] = phase[Facilitator][q]
        /\ \A q \in Redemptions : phase'[Processor][q] = phase[Processor][q]
        /\ phase'[Facilitator][r] = "queued"
    BY <1>1, <1>2, <1>3, EnterPhase DEF Facilitator, Processor
  <1>6. TypeOK'
    BY <1>1, <1>3, <1>4 DEF TypeOK, callerVars
  <1>7. HandlerInv'
    BY <1>3, <1>5 DEF IInv, HandlerInv
  <1>8. TxInv' /\ StageInv' /\ ExcuseInv'
    BY <1>3 DEF IInv, TxInv, StageInv, ExcuseInv
  <1>9. QED BY <1>6, <1>7, <1>8 DEF IInv

\* The steps of the two processors: they start, they send, or they are rejected.
LEMMA HandlerStep ==
  ASSUME IInv, NEW r \in Redemptions, HandlerNext(r)
  PROVE  IInv'
PROOF
  <1>1. TypeOK
    BY DEF IInv
  <1>2. UNCHANGED <<chainVars, callerVars, unburnt, crashes>>
    BY DEF HandlerNext, ConfirmIntent, ProcessConfirmed, Send, SendFails
  <1>3. faults' \in 0..MaxFaults /\ (faults' = 0 => faults = 0)
    BY <1>1, Types, RedeemAndUnstakeAssumption
       DEF TypeOK, HandlerNext, ConfirmIntent, ProcessConfirmed, Send, SendFails, Fault
  <1>4. StageInv' /\ ExcuseInv'
    BY <1>2, <1>3 DEF IInv, StageInv, ExcuseInv, chainVars
  <1>5. CASE ConfirmIntent(r) \/ ProcessConfirmed(r) \/ \E c \in Comms : SendFails(c, r)
    <2>1. PICK c \in Comms, p \in Phases :
            /\ phase' = [phase EXCEPT ![c][r] = p]
            /\ phase[c][r] # "none"
            /\ p # "processUnstaking" /\ p # "none"
            /\ c = Facilitator => p # "processRedeeming"
            /\ c = Processor => p # "confirmRedemptionIntent"
      BY <1>5 DEF ConfirmIntent, ProcessConfirmed, SendFails, Enter, FirstCall, Phases,
                  HandlerCalls, Comms, Facilitator, Processor
    <2>2. txs' = txs
      BY <1>5 DEF ConfirmIntent, ProcessConfirmed, SendFails
    <2>3. /\ phase' \in [Comms -> [Redemptions -> Phases]]
          /\ phase'[c][r] = p
          /\ \A d \in Comms, q \in Redemptions :
               <<d, q>> # <<c, r>> => phase'[d][q] = phase[d][q]
      BY <1>1, <2>1, EnterPhase
    <2>4. TypeOK'
      BY <1>1, <1>2, <1>3, <2>2, <2>3 DEF TypeOK, chainVars, callerVars
    <2>5. HandlerInv'
      BY <1>2, <2>1, <2>3 DEF IInv, HandlerInv, chainVars, Comms, Facilitator, Processor
    <2>6. TxInv'
      BY <1>2, <2>2 DEF IInv, TxInv, chainVars
    <2>7. QED BY <1>4, <2>4, <2>5, <2>6 DEF IInv
  <1>6. ASSUME NEW c \in Comms, Send(c, r) PROVE IInv'
    <2> DEFINE call == phase[c][r]
    <2>1. /\ call \in HandlerCalls
          /\ txs' = txs \cup {Tx(call, r)}
          /\ UNCHANGED phase
      BY <1>6 DEF Send
    <2>2. Tx(call, r) \in Txs /\ Tx(call, r).call = call /\ Tx(call, r).intent = r
      BY <2>1, SentTx
    <2>3. TypeOK'
      BY <1>1, <1>2, <1>3, <2>1, <2>2 DEF TypeOK, chainVars, callerVars
    <2>4. HandlerInv'
      BY <1>2, <2>1 DEF IInv, HandlerInv, chainVars
    <2>5. /\ call = "confirmRedemptionIntent" => r \in declared
          /\ call \in {"processRedeeming", "processUnstaking"} => r \in confirmed
          /\ call = "processUnstaking" => r \in burned \cup unburnt
      BY <2>1 DEF IInv, HandlerInv, Comms
    <2>6. TxInv'
      BY <1>2, <2>1, <2>2, <2>5 DEF IInv, TxInv, chainVars
    <2>7. QED BY <1>4, <2>3, <2>4, <2>6 DEF IInv
  <1>7. QED BY <1>5, <1>6 DEF HandlerNext

\* The handler that waits for a transaction goes on, whatever the receipt says.
LEMMA ToldPhase ==
  ASSUME TypeOK, NEW c \in Comms, NEW t \in txs
  PROVE  /\ t \in Txs /\ t.intent \in Redemptions
         /\ Told(c, t) \in [Comms -> [Redemptions -> Phases]]
         /\ t.awaited => Told(c, t)[c][t.intent] = AfterReceipt(t.call)
         /\ \A d \in Comms, q \in Redemptions :
              <<d, q>> # <<c, t.intent>> => Told(c, t)[d][q] = phase[d][q]
         /\ Told(c, t)[c][t.intent] \in {phase[c][t.intent], AfterReceipt(t.call)}
PROOF
  <1>1. t \in Txs /\ t.intent \in Redemptions
    BY DEF TypeOK, Txs
  <1>2. AfterReceipt(t.call) \in Phases
    BY DEF AfterReceipt, Phases, HandlerCalls
  <1>3. CASE t.awaited
    <2>1. Told(c, t) = [phase EXCEPT ![c][t.intent] = AfterReceipt(t.call)]
      BY <1>3 DEF Told
    <2>2. QED BY <1>1, <1>2, <2>1, EnterPhase
  <1>4. CASE ~t.awaited
    BY <1>1, <1>4, Types DEF Told
  <1>5. QED BY <1>1, <1>3, <1>4

\* A confirmation is mined: the redemption is queued with the other communicator.
LEMMA MineConfirmStep ==
  ASSUME IInv, NEW t \in txs, MineConfirm(t)
  PROVE  IInv'
PROOF
  <1> DEFINE r == t.intent
  <1> DEFINE told == Told(Facilitator, t)
  <1>1. TypeOK /\ Facilitator \in Comms /\ Processor \in Comms /\ "queued" \in Phases
    BY DEF IInv, Comms, Phases
  <1>2. /\ t \in Txs /\ r \in Redemptions
        /\ told \in [Comms -> [Redemptions -> Phases]]
        /\ told[Facilitator][r] \in {phase[Facilitator][r], "done"}
        /\ \A q \in Redemptions \ {r} : told[Facilitator][q] = phase[Facilitator][q]
        /\ \A q \in Redemptions : told[Processor][q] = phase[Processor][q]
    BY <1>1, ToldPhase DEF AfterReceipt, MineConfirm, Facilitator, Processor
  <1>3. /\ t.call = "confirmRedemptionIntent"
        /\ txs' \subseteq txs
        /\ UNCHANGED <<balance, allowance, usedNonce, declared, burned, released, callerVars,
                       unburnt, crashes>>
    BY DEF MineConfirm
  <1>4. faults' \in 0..MaxFaults /\ (faults' = 0 => faults = 0)
    BY <1>1, Types, RedeemAndUnstakeAssumption DEF TypeOK, MineConfirm, Fault, NoFault
  <1>5. r \in declared
    BY <1>3 DEF IInv, TxInv
  <1>6. \/ /\ confirmed' = confirmed \cup {r}
           /\ phase' = [told EXCEPT ![Processor][r] = "queued"]
        \/ confirmed' = confirmed /\ phase' = told
    BY DEF MineConfirm, AcceptsConfirm, ConfirmedTo
  <1>7. /\ phase' \in [Comms -> [Redemptions -> Phases]]
        /\ \A q \in Redemptions : phase'[Facilitator][q] \in {phase[Facilitator][q], told[Facilitator][q]}
        /\ \A q \in Redemptions :
             phase'[Processor][q] = phase[Processor][q]
               \/ (phase'[Processor][q] = "queued" /\ q \in confirmed')
    <2>1. CASE /\ confirmed' = confirmed \cup {r}
               /\ phase' = [told EXCEPT ![Processor][r] = "queued"]
      BY <1>1, <1>2, <2>1 DEF Facilitator, Processor
    <2>2. CASE confirmed' = confirmed /\ phase' = told
      BY <1>2, <2>2
    <2>3. QED BY <1>6, <2>1, <2>2
  <1>8. seenNonce' \in Nat
    BY <1>1, <1>2, Types DEF MineConfirm
  <1>9. TypeOK'
    BY <1>1, <1>2, <1>3, <1>4, <1>6, <1>7, <1>8 DEF TypeOK, callerVars
  <1>10. /\ \A q \in Redemptions \ {r} : phase'[Facilitator][q] = phase[Facilitator][q]
         /\ phase'[Facilitator][r] \in {phase[Facilitator][r], "done"}
    BY <1>2, <1>7
  <1>11. confirmed \subseteq confirmed'
    BY <1>6
  <1>12. HandlerInv'
    BY <1>3, <1>5, <1>7, <1>10, <1>11 DEF IInv, HandlerInv
  <1>13. TxInv'
    BY <1>3, <1>11 DEF IInv, TxInv
  <1>14. StageInv' /\ ExcuseInv'
    BY <1>3, <1>4, <1>5, <1>6 DEF IInv, StageInv, ExcuseInv
  <1>15. QED BY <1>9, <1>12, <1>13, <1>14 DEF IInv

\* processRedeeming is mined.  It succeeds, or the handler that waits for it is
\* noted down; only then does that handler go on to processUnstaking.
LEMMA MineRedeemingStep ==
  ASSUME IInv, NEW t \in txs, MineRedeeming(t)
  PROVE  IInv'
PROOF
  <1> DEFINE r == t.intent
  <1>1. TypeOK /\ Facilitator \in Comms /\ Processor \in Comms
    BY DEF IInv, Comms
  <1>2. /\ t \in Txs /\ r \in Redemptions
        /\ phase' \in [Comms -> [Redemptions -> Phases]]
        /\ phase'[Processor][r] =
             IF t.awaited THEN "processUnstaking" ELSE phase[Processor][r]
        /\ \A q \in Redemptions \ {r} : phase'[Processor][q] = phase[Processor][q]
        /\ \A q \in Redemptions : phase'[Facilitator][q] = phase[Facilitator][q]
    <2>1. phase' = Told(Processor, t) /\ t.call = "processRedeeming"
      BY DEF MineRedeeming
    <2>2. ~t.awaited => phase' = phase
      BY <2>1 DEF Told
    <2>3. QED BY <1>1, <2>1, <2>2, ToldPhase DEF AfterReceipt, Facilitator, Processor
  <1>3. /\ t.call = "processRedeeming"
        /\ txs' \subseteq txs
        /\ UNCHANGED <<balance, allowance, usedNonce, seenNonce, declared, confirmed, released,
                       callerVars, crashes>>
    BY DEF MineRedeeming
  <1>4. faults' \in 0..MaxFaults /\ (faults' = 0 => faults = 0)
    BY <1>1, Types, RedeemAndUnstakeAssumption DEF TypeOK, MineRedeeming, Fault, NoFault
  <1>5. r \in confirmed
    BY <1>3 DEF IInv, TxInv
  <1>6. /\ burned' \in {burned, burned \cup {r}}
        /\ unburnt' \in {unburnt, unburnt \cup {r}}
        /\ t.awaited => r \in burned' \cup unburnt'
    BY DEF MineRedeeming
  <1>7. TypeOK'
    BY <1>1, <1>2, <1>3, <1>4, <1>6 DEF TypeOK, callerVars
  <1>8. HandlerInv'
    BY <1>2, <1>3, <1>5, <1>6 DEF IInv, HandlerInv
  <1>9. TxInv'
    BY <1>3, <1>6 DEF IInv, TxInv
  <1>10. StageInv'
    BY <1>3, <1>5, <1>6 DEF IInv, StageInv
  <1>11. ExcuseInv'
    <2>1. SUFFICES ASSUME faults' = 0 PROVE unburnt' \subseteq burned'
      BY DEF ExcuseInv
    <2>2. ~Fault
      BY <1>1, <2>1, Types DEF Fault
    <2>3. unburnt' = unburnt \/ r \in burned
      BY <1>5, <2>2 DEF IInv, StageInv, MineRedeeming, AcceptsRedeeming
    <2>4. QED BY <1>4, <1>6, <2>1, <2>3 DEF IInv, ExcuseInv
  <1>12. QED BY <1>7, <1>8, <1>9, <1>10, <1>11 DEF IInv

\* processUnstaking is mined; it was only ever sent for a redemption that is burnt
\* or noted down.
LEMMA MineUnstakingStep ==
  ASSUME IInv, NEW t \in txs, MineUnstaking(t)
  PROVE  IInv'
PROOF
  <1> DEFINE r == t.intent
  <1>1. TypeOK /\ Facilitator \in Comms /\ Processor \in Comms
    BY DEF IInv, Comms
  <1>2. /\ t.call = "processUnstaking"
        /\ txs' \subseteq txs
        /\ phase' = Told(Processor, t)
        /\ UNCHANGED <<balance, allowance, usedNonce, seenNonce, declared, confirmed, burned,
                       callerVars, unburnt, crashes>>
    BY DEF MineUnstaking
  <1>3. /\ t \in Txs /\ r \in Redemptions
        /\ phase' \in [Comms -> [Redemptions -> Phases]]
        /\ phase'[Processor][r] \in {phase[Processor][r], "done"}
        /\ \A q \in Redemptions \ {r} : phase'[Processor][q] = phase[Processor][q]
        /\ \A q \in Redemptions : phase'[Facilitator][q] = phase[Facilitator][q]
    BY <1>1, <1>2, ToldPhase DEF AfterReceipt, Facilitator, Processor
  <1>4. faults' \in 0..MaxFaults /\ (faults' = 0 => faults = 0)
    BY <1>1, Types, RedeemAndUnstakeAssumption DEF TypeOK, MineUnstaking, Fault, NoFault
  <1>5. r \in confirmed /\ r \in burned \cup unburnt
    BY <1>2 DEF IInv, TxInv
  <1>6. released' \in {released, released \cup {r}}
    BY DEF MineUnstaking
  <1>7. TypeOK'
    BY <1>1, <1>2, <1>3, <1>4, <1>6 DEF TypeOK, callerVars
  <1>8. HandlerInv'
    BY <1>2, <1>3, <1>5 DEF IInv, HandlerInv
  <1>9. TxInv'
    BY <1>2 DEF IInv, TxInv
  <1>10. StageInv' /\ ExcuseInv'
    BY <1>2, <1>4, <1>5, <1>6 DEF IInv, StageInv, ExcuseInv
  <1>11. QED BY <1>7, <1>8, <1>9, <1>10 DEF IInv

\* A handler that polls for a receipt is stuck.
LEMMA PollFailsStep ==
  ASSUME IInv, NEW t \in txs, PollFails(t)
  PROVE  IInv'
PROOF
  <1> DEFINE r == t.intent
  <1> DEFINE c == CommOf(t.call)
  <1> DEFINE u == [t EXCEPT !.awaited = FALSE]
  <1>1. TypeOK /\ t \in Txs /\ c \in Comms /\ "stuck" \in Phases
    BY DEF IInv, TypeOK, CommOf, Comms, Phases
  <1>2. r \in Redemptions
    BY <1>1 DEF Txs
  <1>3. u \in Txs /\ u.call = t.call /\ u.intent = r
    BY <1>1, Unawaited
  <1>4. /\ t.call \in HandlerCalls
        /\ txs' = (txs \ {t}) \cup {u}
        /\ phase' = [phase EXCEPT ![c][r] = "stuck"]
        /\ UNCHANGED <<chainVars, callerVars, unburnt, crashes>>
    BY DEF PollFails, Enter
  <1>5. faults' \in 0..MaxFaults /\ (faults' = 0 => faults = 0)
    BY <1>1, Types, RedeemAndUnstakeAssumption DEF TypeOK, PollFails, Fault
  <1>6. /\ phase' \in [Comms -> [Redemptions -> Phases]]
        /\ phase'[c][r] = "stuck"
        /\ \A d \in Comms, q \in Redemptions :
             <<d, q>> # <<c, r>> => phase'[d][q] = phase[d][q]
    BY <1>1, <1>2, <1>4, EnterPhase
  <1>7. TypeOK'
    BY <1>1, <1>3, <1>4, <1>5, <1>6 DEF TypeOK, chainVars, callerVars
  <1>8. c = Facilitator => r \in declared
    BY <1>4 DEF IInv, TxInv, CommOf, Facilitator, Processor
  <1>9. c = Processor => r \in confirmed
    BY <1>4 DEF IInv, TxInv, CommOf, HandlerCalls, Facilitator, Processor
  <1>10. HandlerInv'
    BY <1>4, <1>6, <1>8, <1>9 DEF IInv, HandlerInv, chainVars, Comms, Facilitator, Processor
  <1>11. TxInv'
    BY <1>3, <1>4 DEF IInv, TxInv, chainVars
  <1>12. StageInv' /\ ExcuseInv'
    BY <1>4, <1>5 DEF IInv, StageInv, ExcuseInv, chainVars
  <1>13. QED BY <1>7, <1>10, <1>11, <1>12 DEF IInv

\* A communicator is killed: what it has sent stays sent, its events are lost.
LEMMA CrashStep ==
  ASSUME IInv, NEW c \in Comms, Crash(c)
  PROVE  IInv'
PROOF
  <1> DEFINE now(t) == IF t.call \in HandlerCalls /\ CommOf(t.call) = c
                         THEN [t EXCEPT !.awaited = FALSE] ELSE t
  <1>1. TypeOK
    BY DEF IInv
  <1>2. /\ UNCHANGED <<chainVars, callerVars, unburnt, faults>>
        /\ txs' = {now(t) : t \in txs}
    BY DEF Crash
  <1>3. \A t \in txs : now(t) \in Txs /\ now(t).call = t.call /\ now(t).intent = t.intent
    BY <1>1, Unawaited DEF TypeOK
  <1>4. \A t \in txs' : \E u \in txs : t.call = u.call /\ t.intent = u.intent
    BY <1>2, <1>3
  <1>5. txs' \subseteq Txs
    BY <1>2, <1>3
  <1>6. crashes' \in 0..MaxCrashes
    BY <1>1, RedeemAndUnstakeAssumption DEF TypeOK, Crash
  <1>7. /\ phase' \in [Comms -> [Redemptions -> Phases]]
        /\ \A d \in Comms, q \in Redemptions :
             \/ phase'[d][q] = phase[d][q]
             \/ phase'[d][q] = "lost" /\ phase[d][q] # "none"
    BY <1>1, Types DEF Crash, Phases
  <1>8. TypeOK'
    BY <1>1, <1>2, <1>5, <1>6, <1>7 DEF TypeOK, chainVars, callerVars
  <1>9. HandlerInv'
    BY <1>2, <1>7 DEF IInv, HandlerInv, chainVars, Comms
  <1>10. TxInv'
    BY <1>2, <1>4 DEF IInv, TxInv, chainVars
  <1>11. StageInv' /\ ExcuseInv'
    BY <1>2 DEF IInv, StageInv, ExcuseInv, chainVars
  <1>12. QED BY <1>8, <1>9, <1>10, <1>11 DEF IInv

\* A step that changes nothing.
LEMMA StutterInv == IInv /\ UNCHANGED vars => IInv'
PROOF
  BY DEF vars, chainVars, callerVars, IInv, TypeOK, HandlerInv, TxInv, StageInv, ExcuseInv

-----------------------------------------------------------------------------
(* What holds of every behaviour.                                          *)

LEMMA NextInv == IInv /\ [Next]_vars => IInv'
PROOF
  <1>1. SUFFICES ASSUME IInv, [Next]_vars PROVE IInv'
    OBVIOUS
  <1>2. ASSUME NEW r \in Redemptions, CallerNext(r) \/ Declare(r) \/ HandlerNext(r) PROVE IInv'
    BY <1>1, <1>2, CallerStep, DeclareStep, HandlerStep
  <1>3. ASSUME NEW t \in txs, Mine(t) \/ ApprovalPollFails(t) \/ PollFails(t) PROVE IInv'
    BY <1>1, <1>3, ApprovalStep, MineRedeemStep, MineConfirmStep, MineRedeemingStep,
       MineUnstakingStep, PollFailsStep DEF Mine
  <1>4. ASSUME NEW c \in Comms, Crash(c) PROVE IInv'
    BY <1>1, <1>4, CrashStep
  <1>5. CASE UNCHANGED vars
    BY <1>1, <1>5, StutterInv
  <1>6. QED BY <1>1, <1>2, <1>3, <1>4, <1>5 DEF Next

\* The invariant holds, for any number of redemptions, of kills and of failures.
THEOREM RedeemInvariant == Spec => []IInv
PROOF
  <1>1. QED BY InitInv, NextInv, PTL DEF Spec

\* The stake behind redeemed tokens is released only when they are burnt, or the
\* handler was told that they could not be; without a failure only when burnt; and
\* tokens are burnt only when the value chain knows of the redemption.
THEOREM ReleaseFollowsBurnHolds == Spec => []ReleaseFollowsBurn
PROOF
  <1>1. IInv => ReleaseFollowsBurn
    BY DEF IInv, StageInv, ExcuseInv, ReleaseFollowsBurn
  <1>2. QED BY <1>1, RedeemInvariant, PTL
=============================================================================
