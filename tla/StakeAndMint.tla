---------------------------- MODULE StakeAndMint ----------------------------
(***************************************************************************)
(* Stake and mint across the two chains.  A stake declares an intent on    *)
(* the value chain.  The communicator stake_and_mint sees it and confirms  *)
(* it on the utility chain; stake_and_mint_processor sees the confirmation *)
(* and makes three transactions of it: processStaking on the value chain,  *)
(* then processMinting and claim on the utility chain.                     *)
(*                                                                         *)
(* Both communicators are base.js loops (module Intercom).  Here a block   *)
(* number is a position in the log of the events seen, the blocks are      *)
(* final, and of a turn only its windows, its handlers and its checkpoint  *)
(* are left.  The contracts OpenSTValue, OpenSTUtility and UtilityToken    *)
(* are not in the repository: what they accept is read off their callers.  *)
(***************************************************************************)
EXTENDS Integers, Sequences

CONSTANTS
  Intents,      \* staking intent hashes
  Stakers,
  Internal,     \* coreAddresses.getAddressForUser('staker')
  StakerOf,     \* _staker of an intent
  Beneficiaries,
  BeneficiaryOf,\* _beneficiary of an intent
  MaxCrashes,   \* bound: a communicator is killed at most this often
  MaxUnsaved,   \* bound: a checkpoint cannot be written at most this often
  MaxFaults     \* bound: failed requests and failed transactions

ASSUME StakeAndMintAssumption ==
  /\ Internal \in Stakers
  /\ StakerOf \in [Intents -> Stakers]
  /\ BeneficiaryOf \in [Intents -> Beneficiaries]
  /\ MaxCrashes \in Nat
  /\ MaxUnsaved \in Nat
  /\ MaxFaults \in Nat

VARIABLES
  declared,   \* log of StakingIntentDeclared, value chain
  confirmed,  \* log of StakingIntentConfirmed, utility chain
  processed,  \* intents whose processStaking succeeded
  minted,     \* intents whose processMinting succeeded
  claimed,    \* intents whose tokens were claimed
  cursor,     \* checkpoint of a communicator, a position in its log
  started,    \* last position of the window a handler was called for
  window,     \* last position of the window; cursor when there is none
  phase,      \* the contract call a handler is at
  confirmTxs, \* confirmStakingIntent transactions sent and not yet mined
  txs,        \* the processor's transactions sent and not yet mined
  crashes,
  unsaved,
  faults

chainVars  == <<declared, confirmed, processed, minted, claimed>>
loopVars   == <<cursor, started, window>>
countVars  == <<crashes, unsaved, faults>>
vars == <<chainVars, loopVars, phase, confirmTxs, txs, countVars>>

Facilitator == "stake_and_mint"
Processor   == "stake_and_mint_processor"
Comms == {Facilitator, Processor}

Calls  == {"processStaking", "processMinting", "claim"}
Phases == {"none", "confirmStakingIntent", "stuck"} \cup Calls

\* A transaction of the processor; awaited tells whether a handler still
\* polls for its receipt.
Txs == [call : Calls, intent : Intents, awaited : BOOLEAN]

Elems(s) == {s[k] : k \in DOMAIN s}
Log(c)   == IF c = Facilitator THEN declared ELSE confirmed
IsInternal(i) == StakerOf[i] = Internal

TypeOK ==
  /\ declared \in Seq(Intents)
  /\ confirmed \in Seq(Intents)
  /\ processed \subseteq Intents
  /\ minted \subseteq Intents
  /\ claimed \subseteq Intents
  /\ cursor \in [Comms -> Nat]
  /\ started \in [Comms -> Nat]
  /\ window \in [Comms -> Nat]
  /\ phase \in [Comms -> [Intents -> Phases]]
  /\ confirmTxs \in Seq(Intents)
  /\ txs \subseteq Txs
  /\ crashes \in 0..MaxCrashes
  /\ unsaved \in 0..MaxUnsaved
  /\ faults \in 0..MaxFaults

Init ==
  /\ declared = <<>> /\ confirmed = <<>>
  /\ processed = {} /\ minted = {} /\ claimed = {}
  /\ cursor = [c \in Comms |-> 0]
  /\ started = [c \in Comms |-> 0]
  /\ window = [c \in Comms |-> 0]
  /\ phase = [c \in Comms |-> [i \in Intents |-> "none"]]
  /\ confirmTxs = <<>>
  /\ txs = {}
  /\ crashes = 0 /\ unsaved = 0 /\ faults = 0

Enter(c, i, p) == phase' = [phase EXCEPT ![c][i] = p]

Fault == faults < MaxFaults /\ faults' = faults + 1
NoFault == UNCHANGED faults

-----------------------------------------------------------------------------
(* The contracts, as their callers see them.                               *)

\* Intents of one staker are confirmed in the order of the staking nonces,
\* which is the order they were declared in.
AcceptsConfirm(i) ==
  /\ i \notin Elems(confirmed)
  /\ \A j, k \in DOMAIN declared :
       (declared[j] = i /\ j < k /\ StakerOf[declared[k]] = StakerOf[i])
         => declared[k] \notin Elems(confirmed)

Accepts(call, i) ==
  CASE call = "processStaking" -> i \in Elems(declared) \ processed
    [] call = "processMinting" -> i \in Elems(confirmed) \ minted
    [] call = "claim"          -> TRUE

\* What claim finds for the beneficiary of i.
Unclaimed(i) == {j \in minted \ claimed : BeneficiaryOf[j] = BeneficiaryOf[i]}

Apply(call, i) ==
  /\ processed' = IF call = "processStaking" THEN processed \cup {i} ELSE processed
  /\ minted' = IF call = "processMinting" THEN minted \cup {i} ELSE minted
  /\ claimed' = IF call = "claim" THEN claimed \cup Unclaimed(i) ELSE claimed

\* The stake transaction of start_stake, or of another staker, is mined.
Declare(i) ==
  /\ i \notin Elems(declared)
  /\ declared' = Append(declared, i)
  /\ UNCHANGED <<confirmed, processed, minted, claimed, loopVars, phase,
                 confirmTxs, txs, countVars>>

-----------------------------------------------------------------------------
(* The loop of a communicator.                                             *)

Idle(c) == \A i \in Intents : phase[c][i] = "none"

\* getPastEvents answers with new events.
OpenWindow(c) ==
  /\ window[c] = cursor[c]
  /\ \E k \in cursor[c] + 1 .. Len(Log(c)) : window' = [window EXCEPT ![c] = k]
  /\ UNCHANGED <<chainVars, cursor, started, phase, confirmTxs, txs, countVars>>

\* stake_and_mint waits for the transaction hash of one event before it calls
\* the handler of the next one; the processor does not wait.
MutantOverlap(c) == TRUE
MayStart(c) == c = Facilitator => Idle(c)

\* processEventObj is called.  The processor returns at once when somebody else
\* staked.
StartHandler(c) ==
  /\ started[c] < window[c]
  /\ MayStart(c)
  /\ started' = [started EXCEPT ![c] = @ + 1]
  /\ LET i == Log(c)[started[c] + 1] IN
       \/ c = Facilitator /\ Enter(c, i, "confirmStakingIntent")
       \/ c = Processor /\ IsInternal(i) /\ Enter(c, i, "processStaking")
       \/ c = Processor /\ ~IsInternal(i) /\ UNCHANGED phase
  /\ UNCHANGED <<chainVars, cursor, window, confirmTxs, txs, countVars>>

\* Every handler of the window has settled, well or not.
MutantDoesNotWait(c) == cursor[c] < window[c] /\ started[c] = window[c]
HandlersSettled(c) == cursor[c] < window[c] /\ started[c] = window[c] /\ Idle(c)

CloseWindow(c) ==
  /\ HandlersSettled(c)
  /\ cursor' = [cursor EXCEPT ![c] = window[c]]
  /\ UNCHANGED <<chainVars, started, window, phase, confirmTxs, txs, countVars>>

\* The loop is at its checkpoint again, all events of the window before it.
Rewind(c) ==
  /\ window' = [window EXCEPT ![c] = cursor[c]]
  /\ started' = [started EXCEPT ![c] = cursor[c]]
  /\ UNCHANGED cursor

\* The checkpoint cannot be written: reInit.
SaveFails(c) ==
  /\ HandlersSettled(c)
  /\ unsaved < MaxUnsaved
  /\ unsaved' = unsaved + 1
  /\ Rewind(c)
  /\ UNCHANGED <<chainVars, phase, confirmTxs, txs, crashes, faults>>

\* The process is killed and started again; what it had sent is mined all the
\* same, and nobody waits for it any more.
Crash(c) ==
  /\ crashes < MaxCrashes
  /\ crashes' = crashes + 1
  /\ Rewind(c)
  /\ phase' = [phase EXCEPT ![c] = [i \in Intents |-> "none"]]
  /\ txs' = IF c = Processor THEN {[t EXCEPT !.awaited = FALSE] : t \in txs} ELSE txs
  /\ UNCHANGED <<chainVars, confirmTxs, unsaved, faults>>

-----------------------------------------------------------------------------
(* stake_and_mint: one call per event.                                     *)

\* The gas estimate and the transaction are accepted by the node; the handler
\* is done with the transaction hash.
SendConfirm(i) ==
  /\ phase[Facilitator][i] = "confirmStakingIntent"
  /\ AcceptsConfirm(i)
  /\ confirmTxs' = Append(confirmTxs, i)
  /\ Enter(Facilitator, i, "none")
  /\ UNCHANGED <<chainVars, loopVars, txs, countVars>>

\* estimateGas refuses the call, on the latest block or with the pending
\* transactions, or a request fails: the promise is rejected, and base.js
\* goes on with the next event.
ConfirmFails(i) ==
  /\ phase[Facilitator][i] = "confirmStakingIntent"
  /\ \/ (~AcceptsConfirm(i) \/ i \in Elems(confirmTxs)) /\ NoFault
     \/ Fault
  /\ Enter(Facilitator, i, "none")
  /\ UNCHANGED <<chainVars, loopVars, confirmTxs, txs, crashes, unsaved>>

\* The transactions of one account are mined in the order they were sent in.
MineConfirm ==
  /\ confirmTxs # <<>>
  /\ confirmTxs' = Tail(confirmTxs)
  /\ LET i == Head(confirmTxs) IN
       \/ AcceptsConfirm(i) /\ confirmed' = Append(confirmed, i) /\ NoFault
       \/ ~AcceptsConfirm(i) /\ UNCHANGED confirmed /\ NoFault
       \/ UNCHANGED confirmed /\ Fault
  /\ UNCHANGED <<declared, processed, minted, claimed, loopVars, phase, txs, crashes, unsaved>>

-----------------------------------------------------------------------------
(* stake_and_mint_processor: three calls per event, each followed by the   *)
(* receipt of its transaction.                                             *)

Awaited(i) == {t \in txs : t.awaited /\ t.intent = i}

\* safeSendFromAddr after the estimate: the handler polls for the receipt.
Send(i) ==
  LET call == phase[Processor][i] IN
    /\ call \in Calls
    /\ Awaited(i) = {}
    /\ Accepts(call, i)
    /\ txs' = txs \cup {[call |-> call, intent |-> i, awaited |-> TRUE]}
    /\ UNCHANGED <<chainVars, loopVars, phase, confirmTxs, countVars>>

\* The estimate is refused, or a request fails: the handler is rejected.
SendFails(i) ==
  LET call == phase[Processor][i] IN
    /\ call \in Calls
    /\ Awaited(i) = {}
    /\ \/ /\ \/ ~Accepts(call, i)
             \/ [call |-> call, intent |-> i, awaited |-> FALSE] \in txs
             \/ call = "claim" /\ Unclaimed(i) = {}
          /\ NoFault
       \/ Fault
    /\ Enter(Processor, i, "none")
    /\ UNCHANGED <<chainVars, loopVars, confirmTxs, txs, crashes, unsaved>>

\* What follows a receipt: the next call after a success, else the handler
\* returns the error.
MutantIgnoresStatus(call, ok) ==
  CASE call = "processStaking" -> "processMinting"
    [] call = "processMinting" -> "claim"
    [] call = "claim" -> "none"
AfterReceipt(call, ok) ==
  CASE call = "processStaking" /\ ok -> "processMinting"
    [] call = "processMinting" /\ ok -> "claim"
    [] OTHER -> "none"

\* The transaction is mined and, if a handler waits for it, its receipt read.
Settle(t, ok) ==
  /\ txs' = txs \ {t}
  /\ IF t.awaited THEN Enter(Processor, t.intent, AfterReceipt(t.call, ok))
                  ELSE UNCHANGED phase
  /\ UNCHANGED <<declared, confirmed, loopVars, confirmTxs, crashes, unsaved>>

MineTx(t) ==
  /\ Accepts(t.call, t.intent)
  /\ Apply(t.call, t.intent)
  /\ NoFault
  /\ Settle(t, TRUE)

\* The transaction is reverted: by the contract, or for lack of gas.
RevertTx(t) ==
  /\ \/ ~Accepts(t.call, t.intent) /\ NoFault
     \/ t.call = "claim" /\ Unclaimed(t.intent) = {} /\ NoFault
     \/ Fault
  /\ UNCHANGED <<processed, minted, claimed>>
  /\ Settle(t, FALSE)

\* One request of waitAndGetTransactionReceipt is rejected.  Nothing catches it
\* and no further one is made: the handler's promise never settles.
PollFails(t) ==
  /\ t.awaited
  /\ Fault
  /\ txs' = (txs \ {t}) \cup {[t EXCEPT !.awaited = FALSE]}
  /\ Enter(Processor, t.intent, "stuck")
  /\ UNCHANGED <<chainVars, loopVars, confirmTxs, crashes, unsaved>>

-----------------------------------------------------------------------------
Next ==
  \/ \E i \in Intents : Declare(i)
  \/ \E c \in Comms : OpenWindow(c)
  \/ \E c \in Comms : StartHandler(c)
  \/ \E c \in Comms : CloseWindow(c)
  \/ \E c \in Comms : SaveFails(c)
  \/ \E c \in Comms : Crash(c)
  \/ \E i \in Intents : SendConfirm(i)
  \/ \E i \in Intents : ConfirmFails(i)
  \/ MineConfirm
  \/ \E i \in Intents : Send(i)
  \/ \E i \in Intents : SendFails(i)
  \/ \E t \in txs : MineTx(t)
  \/ \E t \in txs : RevertTx(t)
  \/ \E t \in txs : PollFails(t)

Spec == Init /\ [][Next]_vars

\* The loops go on, handlers get answers, and a transaction that was sent is
\* mined.  Nobody has to stake, nothing has to fail.
Fairness ==
  /\ \A c \in Comms : WF_vars(OpenWindow(c) \/ StartHandler(c) \/ CloseWindow(c))
  /\ \A i \in Intents : WF_vars(SendConfirm(i) \/ ConfirmFails(i) \/ Send(i) \/ SendFails(i))
  /\ WF_vars(MineConfirm \/ \E t \in txs : MineTx(t) \/ RevertTx(t))

FairSpec == Spec /\ Fairness

-----------------------------------------------------------------------------
(* What stake and mint must guarantee.                                     *)

\* No token is minted for a stake that is not locked on the value chain: the
\* utility chain cannot see that, it is up to the order of the processor's
\* calls (187, 238) and to the error return between them, across kills,
\* redelivered events and transactions nobody waits for any more.
MintsAreBacked == minted \subseteq processed

\* Unless a request or a transaction failed, the intents of a staker are
\* confirmed without a gap: an intent that is passed over can never be
\* confirmed again, because its nonce is stale.
NoIntentPassedOver ==
  faults = 0 =>
    \A j, k \in DOMAIN declared :
      (/\ j < k
       /\ StakerOf[declared[j]] = StakerOf[declared[k]]
       /\ declared[k] \in Elems(confirmed)) => declared[j] \in Elems(confirmed)

\* The events of the processor's checkpoint that are its own to carry through.
Behind == {i \in {confirmed[k] : k \in 1..cursor[Processor]} : IsInternal(i)}

\* Without kills and failures, a stake behind the processor's checkpoint has
\* been carried through to the claim, redelivered windows included.
CarriedThrough == (crashes = 0 /\ faults = 0) => Behind \subseteq claimed

\* "if the process restarts, the processing continues from where it left and
\* events are not missed" (CHANGELOG.md:34): once the checkpoint is past a
\* stake, and its transactions are mined, its tokens have been claimed.
RestartsMissNothing ==
  \A i \in Behind : (\A t \in txs : t.intent # i) => i \in claimed

\* Without kills and failures every stake made from the internal address ends in
\* tokens of its beneficiary, windows that are handled again included.
StakesAreMinted ==
  \A i \in Intents :
    (IsInternal(i) /\ i \in Elems(declared)) ~> (i \in claimed \/ crashes > 0 \/ faults > 0)

\* The two communicators together implement the promise of StakeLifecycle.
Lifecycle == INSTANCE StakeLifecycle WITH
  locked <- processed, announced <- Elems(confirmed), paid <- claimed

ImplementsLifecycle == Lifecycle!LifecycleSpec

-----------------------------------------------------------------------------
(* Why MintsAreBacked and ImplementsLifecycle hold: a handler that is at    *)
(* processMinting, and a processMinting transaction whoever sent it, come   *)
(* after the processStaking of the same intent, and all of them after its   *)
(* confirmation.                                                            *)
LoopInv ==
  \A c \in Comms : /\ cursor[c] <= started[c]
                   /\ started[c] <= window[c]
                   /\ window[c] <= Len(Log(c))

Confirmed == Elems(confirmed)

HandlerInv ==
  \A i \in Intents :
    /\ phase[Processor][i] # "none" => i \in Confirmed
    /\ phase[Processor][i] = "processMinting" => i \in processed

TxInv ==
  \A t \in txs :
    /\ t.intent \in Confirmed
    /\ t.call = "processMinting" => t.intent \in processed

StageInv ==
  claimed \subseteq minted /\ minted \subseteq processed /\ processed \subseteq Confirmed

IInv == TypeOK /\ LoopInv /\ HandlerInv /\ TxInv /\ StageInv
=============================================================================
