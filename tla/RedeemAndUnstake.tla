-------------------------- MODULE RedeemAndUnstake --------------------------
(***************************************************************************)
(* Redeem and unstake across the two chains.  A caller approves            *)
(* OpenSTUtility and starts a redemption, which declares an intent on the  *)
(* utility chain.  The communicator redeem_and_unstake confirms it on the  *)
(* value chain; redeem_and_unstake_processor sees the confirmation, burns  *)
(* the tokens with processRedeeming on the utility chain and releases the  *)
(* stake with processUnstaking on the value chain.                         *)
(*                                                                         *)
(* Both communicators keep their events in the queue of module EventQueue. *)
(* Here an event is announced once, so that the queue calls its processor  *)
(* once (EventQueue!AtMostOnce), and a process that is killed is started   *)
(* again at once, without the events it had.  The contracts are not in the *)
(* repository: what they accept is read off their callers.                 *)
(***************************************************************************)
EXTENDS Integers

CONSTANTS
  Redemptions,  \* redemption intent hashes
  Internal,     \* those of coreAddresses.getAddressForUser('redeemer')
  Amount,       \* amount of a redemption
  Opening,      \* branded tokens of the redeemer at the start
  MaxCrashes,   \* bound: a communicator is killed at most this often
  MaxFaults     \* bound: failed requests and failed transactions

ASSUME RedeemAndUnstakeAssumption ==
  /\ Internal \subseteq Redemptions
  /\ Amount \in [Redemptions -> Nat]
  /\ Opening \in Nat
  /\ MaxCrashes \in Nat
  /\ MaxFaults \in Nat

VARIABLES
  balance,    \* branded tokens of the redeemer
  allowance,  \* what OpenSTUtility may take of them
  usedNonce,  \* last nonce of the redeemer on the utility chain
  seenNonce,  \* last nonce of the redeemer on the value chain
  declared,   \* redemptions whose redeem transaction succeeded
  confirmed,  \* redemptions confirmed on the value chain
  burned,     \* redemptions whose processRedeeming succeeded
  released,   \* redemptions whose processUnstaking succeeded
  step,       \* per redemption: where its caller is
  ofSTPrime,  \* redemptions of ST Prime, which need no approval
  approval,   \* per redemption: the value it approves
  nonce,      \* per redemption: the nonce startRedeem has read
  phase,      \* per communicator and redemption: where its event is
  txs,        \* transactions sent and not yet mined
  unburnt,    \* history: handlers told that processRedeeming has failed
  crashes, faults

chainVars  == <<balance, allowance, usedNonce, seenNonce, declared, confirmed,
                burned, released>>
callerVars == <<step, ofSTPrime, approval, nonce>>
vars == <<chainVars, callerVars, phase, txs, unburnt, crashes, faults>>

Facilitator == "redeem_and_unstake"
Processor   == "redeem_and_unstake_processor"
Comms == {Facilitator, Processor}

CallerCalls  == {"approve", "redeem"}
HandlerCalls == {"confirmRedemptionIntent", "processRedeeming", "processUnstaking"}
Steps  == {"new", "approve", "approval", "approved", "redeem", "sent", "failed", "dangling"}
Phases == {"none", "queued", "done", "lost", "stuck"} \cup HandlerCalls

\* awaited: somebody polls for the receipt.
Txs == [call : CallerCalls \cup HandlerCalls, intent : Redemptions, awaited : BOOLEAN]

TypeOK ==
  /\ balance \in Int
  /\ allowance \in Int
  /\ usedNonce \in Nat
  /\ seenNonce \in Nat
  /\ declared \subseteq Redemptions
  /\ confirmed \subseteq Redemptions
  /\ burned \subseteq Redemptions
  /\ released \subseteq Redemptions
  /\ step \in [Redemptions -> Steps]
  /\ ofSTPrime \subseteq Internal
  /\ approval \in [Redemptions -> Int]
  /\ nonce \in [Redemptions -> Nat]
  /\ phase \in [Comms -> [Redemptions -> Phases]]
  /\ txs \subseteq Txs
  /\ unburnt \subseteq Redemptions
  /\ crashes \in 0..MaxCrashes
  /\ faults \in 0..MaxFaults

Init ==
  /\ balance = Opening /\ allowance = 0
  /\ usedNonce = 0 /\ seenNonce = 0
  /\ declared = {} /\ confirmed = {} /\ burned = {} /\ released = {}
  /\ step = [r \in Redemptions |-> "new"]
  /\ ofSTPrime = {}
  /\ approval = [r \in Redemptions |-> 0]
  /\ nonce = [r \in Redemptions |-> 0]
  /\ phase = [c \in Comms |-> [r \in Redemptions |-> "none"]]
  /\ txs = {}
  /\ unburnt = {}
  /\ crashes = 0 /\ faults = 0

Fault   == faults < MaxFaults /\ faults' = faults + 1
NoFault == UNCHANGED faults

Go(r, s)       == step' = [step EXCEPT ![r] = s]
Enter(c, r, p) == phase' = [phase EXCEPT ![c][r] = p]
Tx(call, r)    == [call |-> call, intent |-> r, awaited |-> TRUE]

-----------------------------------------------------------------------------
(* The contracts, as their callers see them.                               *)

\* redeem takes branded tokens out of the allowance, redeemSTPrime the value of
\* the transaction.
Covered(r) ==
  r \notin ofSTPrime => balance >= Amount[r] /\ allowance >= Amount[r]

\* Nothing in src/ tells what redeem does with a nonce it has seen before: it
\* may accept it or not.
AcceptsRedeem(r)  == Covered(r)
MayRefuseRedeem(r) == ~Covered(r) \/ nonce[r] <= usedNonce

AcceptsConfirm(r) ==
  /\ r \in declared \ confirmed
  /\ r \in Internal => nonce[r] > seenNonce
AcceptsRedeeming(r) == r \in declared \ burned
AcceptsUnstaking(r) == r \in confirmed \ released

-----------------------------------------------------------------------------
(* The caller: approve, wait for the approval, start the redemption.       *)

\* approveOpenStUtilityContract reads the balance, all of which it approves.
GetBTBalance(r) ==
  /\ r \in Internal
  /\ step[r] = "new"
  /\ \/ approval' = [approval EXCEPT ![r] = balance] /\ Go(r, "approve") /\ NoFault
     \/ UNCHANGED approval /\ Go(r, "failed") /\ Fault
  /\ UNCHANGED <<chainVars, ofSTPrime, nonce, phase, txs, unburnt, crashes>>

\* The estimate and the transaction hash of approve, or a failed request.
Approve(r) ==
  /\ step[r] = "approve"
  /\ \/ txs' = txs \cup {Tx("approve", r)} /\ Go(r, "approval") /\ NoFault
     \/ UNCHANGED txs /\ Go(r, "failed") /\ Fault
  /\ UNCHANGED <<chainVars, ofSTPrime, approval, nonce, phase, unburnt, crashes>>

\* An approval replaces the one before, whatever is left of that one.  Only a
\* receipt with an Approval event counts for getApprovalStatus.
MineApprove(t) ==
  LET r == t.intent
      Tell(s) == IF t.awaited THEN Go(r, s) ELSE UNCHANGED step
  IN
    /\ t.call = "approve"
    /\ txs' = txs \ {t}
    /\ \/ allowance' = approval[r] /\ Tell("approved") /\ NoFault
       \/ UNCHANGED allowance /\ Tell("failed") /\ Fault
    /\ UNCHANGED <<balance, usedNonce, seenNonce, declared, confirmed, burned,
                   released, ofSTPrime, approval, nonce, phase, unburnt, crashes>>

\* One request of getApprovalStatus is rejected: it never answers.
ApprovalPollFails(t) ==
  /\ t.call = "approve" /\ t.awaited
  /\ Fault
  /\ txs' = (txs \ {t}) \cup {[t EXCEPT !.awaited = FALSE]}
  /\ Go(t.intent, "dangling")
  /\ UNCHANGED <<chainVars, ofSTPrime, approval, nonce, phase, unburnt, crashes>>

\* startRedeem asks the value chain for the nonce; there it only moves when a
\* redemption is confirmed.  ST Prime is redeemed without an approval.
GetNextNonce(r) ==
  /\ r \in Internal
  /\ \/ step[r] = "approved" /\ UNCHANGED ofSTPrime
     \/ step[r] = "new" /\ ofSTPrime' = ofSTPrime \cup {r}
  /\ \/ nonce' = [nonce EXCEPT ![r] = seenNonce + 1] /\ Go(r, "redeem") /\ NoFault
     \/ UNCHANGED nonce /\ Go(r, "failed") /\ Fault
  /\ UNCHANGED <<chainVars, approval, phase, txs, unburnt, crashes>>

\* The estimate is accepted, and the caller gets the transaction hash.
SendRedeem(r) ==
  \/ AcceptsRedeem(r) /\ txs' = txs \cup {Tx("redeem", r)} /\ Go(r, "sent") /\ NoFault
  \/ MayRefuseRedeem(r) /\ Go(r, "failed") /\ UNCHANGED txs /\ NoFault
  \/ Fault /\ Go(r, "failed") /\ UNCHANGED txs

Redeem(r) ==
  /\ step[r] = "redeem" /\ r \notin ofSTPrime
  /\ SendRedeem(r)
  /\ UNCHANGED <<chainVars, ofSTPrime, approval, nonce, phase, unburnt, crashes>>

RedeemSTPrime(r) ==
  /\ step[r] = "redeem" /\ r \in ofSTPrime
  /\ SendRedeem(r)
  /\ UNCHANGED <<chainVars, ofSTPrime, approval, nonce, phase, unburnt, crashes>>

\* RedemptionIntentDeclared is what redeem_and_unstake subscribes to,
\* RedemptionIntentConfirmed what the processor does.
MutantHearsAtOnce == Processor
DeclaredTo  == Facilitator
ConfirmedTo == Processor

\* redeem is mined: the redemption is declared, its event heard and queued.
MineRedeem(t) ==
  LET r == t.intent IN
    /\ t.call = "redeem"
    /\ txs' = txs \ {t}
    /\ \/ /\ AcceptsRedeem(r) /\ NoFault
          /\ declared' = declared \cup {r}
          /\ balance' = IF r \in ofSTPrime THEN balance ELSE balance - Amount[r]
          /\ allowance' = IF r \in ofSTPrime THEN allowance ELSE allowance - Amount[r]
          /\ usedNonce' = nonce[r]
          /\ Enter(DeclaredTo, r, "queued")
       \/ /\ (MayRefuseRedeem(r) /\ NoFault) \/ Fault
          /\ UNCHANGED <<declared, balance, allowance, usedNonce, phase>>
    /\ UNCHANGED <<seenNonce, confirmed, burned, released, callerVars, unburnt, crashes>>

\* Somebody else redeems, with a nonce of his own.
Declare(r) ==
  /\ r \in Redemptions \ (Internal \cup declared)
  /\ declared' = declared \cup {r}
  /\ Enter(DeclaredTo, r, "queued")
  /\ UNCHANGED <<balance, allowance, usedNonce, seenNonce, confirmed, burned, released,
                 callerVars, txs, unburnt, crashes, faults>>

-----------------------------------------------------------------------------
(* The processors of the two communicators.                                *)

\* The processor of redeem_and_unstake is called by the queue.
ConfirmIntent(r) ==
  /\ phase[Facilitator][r] = "queued"
  /\ Enter(Facilitator, r, "confirmRedemptionIntent")
  /\ UNCHANGED <<chainVars, callerVars, txs, unburnt, crashes, faults>>

\* That of redeem_and_unstake_processor, which returns at once when somebody
\* else redeemed.
MutantUnstakesFirst(r) == IF r \in Internal THEN "processUnstaking" ELSE "done"
FirstCall(r) == IF r \in Internal THEN "processRedeeming" ELSE "done"

ProcessConfirmed(r) ==
  /\ phase[Processor][r] = "queued"
  /\ Enter(Processor, r, FirstCall(r))
  /\ UNCHANGED <<chainVars, callerVars, txs, unburnt, crashes, faults>>

\* safeSendFromAddr, without an estimate: the handler polls for the receipt.
InFlight(call, r) == \E t \in txs : t.call = call /\ t.intent = r /\ t.awaited

Send(c, r) ==
  LET call == phase[c][r] IN
    /\ call \in HandlerCalls
    /\ ~InFlight(call, r)
    /\ txs' = txs \cup {Tx(call, r)}
    /\ UNCHANGED <<chainVars, callerVars, phase, unburnt, crashes, faults>>

\* unlockAccount or sendTransaction is rejected, and the handler with it.
SendFails(c, r) ==
  /\ phase[c][r] \in HandlerCalls
  /\ ~InFlight(phase[c][r], r)
  /\ Fault
  /\ Enter(c, r, "done")
  /\ UNCHANGED <<chainVars, callerVars, txs, unburnt, crashes>>

\* A transaction is mined; its event, if it has one, is heard; and its receipt
\* is read by the handler that waits for it.  Whether the receipt is one of a
\* success is not looked at.
MutantStopsHere(call) == "done"
AfterReceipt(call) == IF call = "processRedeeming" THEN "processUnstaking" ELSE "done"

Told(c, t) ==
  IF t.awaited THEN [phase EXCEPT ![c][t.intent] = AfterReceipt(t.call)] ELSE phase

MineConfirm(t) ==
  LET r == t.intent IN
    /\ t.call = "confirmRedemptionIntent"
    /\ txs' = txs \ {t}
    /\ \/ /\ AcceptsConfirm(r) /\ NoFault
          /\ confirmed' = confirmed \cup {r}
          /\ seenNonce' = IF r \in Internal THEN nonce[r] ELSE seenNonce
          /\ phase' = [Told(Facilitator, t) EXCEPT ![ConfirmedTo][r] = "queued"]
       \/ /\ (~AcceptsConfirm(r) /\ NoFault) \/ Fault
          /\ phase' = Told(Facilitator, t)
          /\ UNCHANGED <<confirmed, seenNonce>>
    /\ UNCHANGED <<balance, allowance, usedNonce, declared, burned, released,
                   callerVars, unburnt, crashes>>

MineRedeeming(t) ==
  LET r == t.intent IN
    /\ t.call = "processRedeeming"
    /\ txs' = txs \ {t}
    /\ \/ /\ AcceptsRedeeming(r) /\ NoFault
          /\ burned' = burned \cup {r}
          /\ UNCHANGED unburnt
       \/ /\ (~AcceptsRedeeming(r) /\ NoFault) \/ Fault
          /\ unburnt' = IF t.awaited THEN unburnt \cup {r} ELSE unburnt
          /\ UNCHANGED burned
    /\ phase' = Told(Processor, t)
    /\ UNCHANGED <<balance, allowance, usedNonce, seenNonce, declared, confirmed,
                   released, callerVars, crashes>>

MineUnstaking(t) ==
  LET r == t.intent IN
    /\ t.call = "processUnstaking"
    /\ txs' = txs \ {t}
    /\ \/ AcceptsUnstaking(r) /\ released' = released \cup {r} /\ NoFault
       \/ ~AcceptsUnstaking(r) /\ UNCHANGED released /\ NoFault
       \/ UNCHANGED released /\ Fault
    /\ phase' = Told(Processor, t)
    /\ UNCHANGED <<balance, allowance, usedNonce, seenNonce, declared, confirmed,
                   burned, callerVars, unburnt, crashes>>

\* One request of waitAndGetTransactionReceipt is rejected: the handler never
\* settles.
CommOf(call) == IF call = "confirmRedemptionIntent" THEN Facilitator ELSE Processor

PollFails(t) ==
  /\ t.call \in HandlerCalls /\ t.awaited
  /\ Fault
  /\ txs' = (txs \ {t}) \cup {[t EXCEPT !.awaited = FALSE]}
  /\ Enter(CommOf(t.call), t.intent, "stuck")
  /\ UNCHANGED <<chainVars, callerVars, unburnt, crashes>>

\* A communicator is killed: its queue and its handlers are gone, and the new
\* process hears of later events only.
Crash(c) ==
  /\ crashes < MaxCrashes
  /\ crashes' = crashes + 1
  /\ phase' = [phase EXCEPT ![c] =
                 [r \in Redemptions |->
                    IF phase[c][r] \in {"none", "done"} THEN phase[c][r] ELSE "lost"]]
  /\ txs' = {IF t.call \in HandlerCalls /\ CommOf(t.call) = c
               THEN [t EXCEPT !.awaited = FALSE] ELSE t : t \in txs}
  /\ UNCHANGED <<chainVars, callerVars, unburnt, faults>>

-----------------------------------------------------------------------------
CallerNext(r) ==
  GetBTBalance(r) \/ Approve(r) \/ GetNextNonce(r) \/ Redeem(r) \/ RedeemSTPrime(r)

HandlerNext(r) ==
  \/ ConfirmIntent(r) \/ ProcessConfirmed(r)
  \/ \E c \in Comms : Send(c, r) \/ SendFails(c, r)

Mine(t) ==
  \/ MineApprove(t) \/ MineRedeem(t)
  \/ MineConfirm(t) \/ MineRedeeming(t) \/ MineUnstaking(t)

Next ==
  \/ \E r \in Redemptions : CallerNext(r) \/ Declare(r) \/ HandlerNext(r)
  \/ \E t \in txs : Mine(t) \/ ApprovalPollFails(t) \/ PollFails(t)
  \/ \E c \in Comms : Crash(c)

Spec == Init /\ [][Next]_vars

\* Timers fire, requests are answered and what was sent is mined; callers need
\* not call.
Fairness ==
  /\ \A r \in Redemptions : WF_vars(HandlerNext(r))
  /\ \A call \in CallerCalls \cup HandlerCalls, r \in Redemptions :
       WF_vars(\E t \in txs : t.call = call /\ t.intent = r /\ Mine(t))

FairSpec == Spec /\ Fairness

-----------------------------------------------------------------------------
(* What redeem and unstake must guarantee.                                 *)

\* The stake behind redeemed tokens is released only when the tokens are burnt,
\* or the handler has at least been told that they could not be (173-186): not
\* while their processRedeeming is on its way, be it after a kill.  Without a
\* failed transaction no stake is released for tokens that still exist.  And
\* tokens are burnt only once the value chain knows of the redemption, so one
\* that cannot be confirmed, for its nonce, keeps its tokens.
ReleaseFollowsBurn ==
  /\ released \subseteq burned \cup unburnt
  /\ faults = 0 => released \subseteq burned
  /\ burned \subseteq confirmed

\* Every redemption of the internal address ends in the release of its stake,
\* unless a process is killed, a request or a transaction fails, or another
\* redemption was given the same nonce.
SharesNonce(r) == \E q \in Internal \ {r} : nonce[q] = nonce[r] /\ q \in declared
RedemptionsReleased ==
  \A r \in Internal :
    r \in declared ~> (r \in released \/ crashes > 0 \/ faults > 0 \/ SharesNonce(r))

-----------------------------------------------------------------------------
(* Why ReleaseFollowsBurn holds: where a handler is, and what it has sent,  *)
(* tells what has happened to its redemption.                               *)
HandlerInv ==
  \A r \in Redemptions :
    /\ phase[Facilitator][r] # "none" => r \in declared
    /\ phase[Processor][r] # "none" => r \in confirmed
    /\ phase[Processor][r] = "processUnstaking" => r \in burned \cup unburnt
    /\ phase[Facilitator][r] \notin {"processRedeeming", "processUnstaking"}
    /\ phase[Processor][r] # "confirmRedemptionIntent"

TxInv ==
  \A t \in txs :
    /\ t.call = "confirmRedemptionIntent" => t.intent \in declared
    /\ t.call \in {"processRedeeming", "processUnstaking"} => t.intent \in confirmed
    /\ t.call = "processUnstaking" => t.intent \in burned \cup unburnt

StageInv ==
  /\ released \subseteq burned \cup unburnt
  /\ released \cup burned \subseteq confirmed
  /\ confirmed \subseteq declared

\* A burn fails without a fault only for tokens that are burnt already.
ExcuseInv == faults = 0 => unburnt \subseteq burned

IInv == TypeOK /\ HandlerInv /\ TxInv /\ StageInv /\ ExcuseInv
=============================================================================
