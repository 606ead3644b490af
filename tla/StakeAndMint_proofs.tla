------------------------ MODULE StakeAndMint_proofs -------------------------
(***************************************************************************)
(* Proofs about StakeAndMint, for any number of intents, stakers, kills    *)
(* and failures: IInv is inductive, no token is minted for a stake that is *)
(* not locked, the two communicators implement StakeLifecycle, and what    *)
(* becomes of the order of the intents.                                    *)
(***************************************************************************)
EXTENDS StakeAndMint, TLAPS

\* What appending to a log does to the set of its elements.
LEMMA ElemsAppend ==
  ASSUME NEW S, NEW s \in Seq(S), NEW e \in S
  PROVE  /\ Elems(Append(s, e)) = Elems(s) \cup {e}
         /\ Append(s, e) \in Seq(S)
         /\ Len(Append(s, e)) = Len(s) + 1
         /\ \A k \in 1..Len(s) : Append(s, e)[k] = s[k]
PROOF
  <1>1. /\ Append(s, e) \in Seq(S)
        /\ Len(Append(s, e)) = Len(s) + 1
        /\ \A k \in 1..Len(s) : Append(s, e)[k] = s[k]
        /\ Append(s, e)[Len(s) + 1] = e
    OBVIOUS
  <1>2. DOMAIN Append(s, e) = 1..(Len(s) + 1) /\ DOMAIN s = 1..Len(s)
    BY <1>1
  <1>3. Len(s) \in Nat
    OBVIOUS
  <1>4. ASSUME NEW x \in Elems(Append(s, e)) PROVE x \in Elems(s) \cup {e}
    <2>1. PICK k \in 1..(Len(s) + 1) : x = Append(s, e)[k]
      BY <1>2, <1>4 DEF Elems
    <2>2. CASE k = Len(s) + 1
      BY <1>1, <2>1, <2>2
    <2>3. CASE k \in 1..Len(s)
      BY <1>1, <1>2, <2>1, <2>3 DEF Elems
    <2>4. QED BY <1>3, <2>2, <2>3
  <1>5. ASSUME NEW x \in Elems(s) \cup {e} PROVE x \in Elems(Append(s, e))
    <2>1. CASE x = e
      BY <1>1, <1>2, <1>3, <2>1 DEF Elems
    <2>2. CASE x \in Elems(s)
      <3>1. PICK k \in 1..Len(s) : x = s[k]
        BY <1>2, <2>2 DEF Elems
      <3>2. k \in 1..(Len(s) + 1) /\ x = Append(s, e)[k]
        BY <1>1, <1>3, <3>1
      <3>3. QED BY <1>2, <3>2 DEF Elems
    <2>3. QED BY <1>5, <2>1, <2>2
  <1>6. QED BY <1>1, <1>4, <1>5

\* The initial states satisfy the invariant.
LEMMA InitInv == Init => IInv
PROOF
  <1>1. SUFFICES ASSUME Init PROVE IInv
    OBVIOUS
  <1>2. TypeOK
    BY <1>1, StakeAndMintAssumption
       DEF Init, TypeOK, Phases, Calls, Txs
  <1>3. LoopInv
    BY <1>1 DEF Init, LoopInv, Log
  <1>4. HandlerInv /\ TxInv
    BY <1>1 DEF Init, HandlerInv, TxInv, Comms, Processor, Facilitator
  <1>5. StageInv
    BY <1>1 DEF Init, StageInv, Confirmed, Elems
  <1>6. QED BY <1>2, <1>3, <1>4, <1>5 DEF IInv

-----------------------------------------------------------------------------
(* Every step preserves the invariant: one lemma per part of the system.   *)

\* The type facts the steps rest on, each on its own.
LEMMA Types ==
  ASSUME TypeOK
  PROVE  /\ declared \in Seq(Intents) /\ confirmed \in Seq(Intents)
         /\ confirmTxs \in Seq(Intents)
         /\ processed \subseteq Intents /\ minted \subseteq Intents
         /\ claimed \subseteq Intents
         /\ cursor \in [Comms -> Nat] /\ started \in [Comms -> Nat]
         /\ window \in [Comms -> Nat]
         /\ phase \in [Comms -> [Intents -> Phases]]
         /\ txs \subseteq Txs
         /\ crashes \in Nat /\ unsaved \in Nat /\ faults \in Nat
PROOF
  BY StakeAndMintAssumption DEF TypeOK

\* A handler's move to another phase keeps the type of phase.
LEMMA EnterType ==
  ASSUME phase \in [Comms -> [Intents -> Phases]],
         NEW c \in Comms, NEW i \in Intents, NEW p \in Phases, Enter(c, i, p)
  PROVE  /\ phase' \in [Comms -> [Intents -> Phases]]
         /\ \A d \in Comms, j \in Intents :
              phase'[d][j] = IF d = c /\ j = i THEN p ELSE phase[d][j]
PROOF
  BY DEF Enter

\* A stake that is declared disturbs nothing but the log.
LEMMA DeclareStep ==
  ASSUME IInv, NEW i \in Intents, Declare(i)
  PROVE  IInv'
PROOF
  <1>1. declared' = Append(declared, i)
    BY DEF Declare
  <1>2. declared' \in Seq(Intents) /\ Len(declared') = Len(declared) + 1
    BY <1>1, Types, ElemsAppend DEF IInv
  <1>3. TypeOK'
    BY <1>2 DEF IInv, TypeOK, Declare, chainVars, loopVars, countVars
  <1>4. LoopInv'
    <2>1. Len(declared) \in Nat
      BY Types DEF IInv
    <2>2. QED
      BY <1>2, <2>1, Types
         DEF IInv, LoopInv, Declare, Log, loopVars, Comms, Facilitator, Processor
  <1>5. HandlerInv' /\ TxInv' /\ StageInv'
    BY DEF IInv, HandlerInv, TxInv, StageInv, Declare, Confirmed, Elems
  <1>6. QED BY <1>3, <1>4, <1>5 DEF IInv

\* The loop's own steps move the three positions of one communicator only.
LEMMA OpenWindowStep ==
  ASSUME IInv, NEW c \in Comms, OpenWindow(c)
  PROVE  IInv'
PROOF
  <1>1. PICK k \in cursor[c] + 1 .. Len(Log(c)) :
          window' = [window EXCEPT ![c] = k]
    BY DEF OpenWindow
  <1>2. Len(Log(c)) \in Nat /\ cursor[c] \in Nat /\ window[c] \in Nat
    BY Types DEF IInv, Log
  <1>3. k \in Nat /\ cursor[c] < k /\ k <= Len(Log(c))
    BY <1>2
  <1>4. TypeOK'
    BY <1>1, <1>3 DEF IInv, TypeOK, OpenWindow, chainVars, countVars
  <1>5. LoopInv'
    BY <1>1, <1>2, <1>3, Types DEF IInv, LoopInv, OpenWindow, Log, chainVars
  <1>6. HandlerInv' /\ TxInv' /\ StageInv'
    BY DEF IInv, HandlerInv, TxInv, StageInv, OpenWindow, chainVars, Confirmed, Elems
  <1>7. QED BY <1>4, <1>5, <1>6 DEF IInv

LEMMA StartHandlerStep ==
  ASSUME IInv, NEW c \in Comms, StartHandler(c)
  PROVE  IInv'
PROOF
  <1> DEFINE i == Log(c)[started[c] + 1]
  <1>1. Log(c) \in Seq(Intents) /\ Len(Log(c)) \in Nat
    BY Types DEF IInv, Log
  <1>2. started[c] \in Nat /\ window[c] \in Nat /\ started[c] < window[c]
    BY Types DEF IInv, StartHandler
  <1>3. started[c] + 1 \in 1..Len(Log(c))
    BY <1>1, <1>2 DEF IInv, LoopInv
  <1>4. i \in Intents /\ i \in Elems(Log(c))
    BY <1>1, <1>3 DEF Elems
  <1>5. started' = [started EXCEPT ![c] = started[c] + 1]
    BY DEF StartHandler
  <1>6. \/ c = Facilitator /\ Enter(c, i, "confirmStakingIntent")
        \/ c = Processor /\ Enter(c, i, "processStaking")
        \/ UNCHANGED phase
    BY DEF StartHandler
  <1> HIDE DEF i
  <1>7. /\ phase' \in [Comms -> [Intents -> Phases]]
        /\ \A j \in Intents : \/ phase'[Processor][j] = phase[Processor][j]
                              \/ /\ j = i /\ c = Processor
                                 /\ phase'[Processor][j] = "processStaking"
    <2>1. "confirmStakingIntent" \in Phases /\ "processStaking" \in Phases
      BY DEF Phases, Calls
    <2>2. Processor \in Comms /\ Facilitator \in Comms /\ Processor # Facilitator
      BY DEF Comms, Processor, Facilitator
    <2>3. CASE c = Facilitator /\ Enter(c, i, "confirmStakingIntent")
      BY <1>4, <2>1, <2>2, <2>3, Types, EnterType DEF IInv
    <2>4. CASE c = Processor /\ Enter(c, i, "processStaking")
      BY <1>4, <2>1, <2>2, <2>4, Types, EnterType DEF IInv
    <2>5. CASE UNCHANGED phase
      BY <2>5, Types DEF IInv
    <2>6. QED BY <1>6, <2>3, <2>4, <2>5
  <1>8. started' \in [Comms -> Nat]
    BY <1>2, <1>5, Types DEF IInv
  <1>9. TypeOK'
    BY <1>7, <1>8 DEF IInv, TypeOK, StartHandler, chainVars, countVars
  <1>10. LoopInv'
    BY <1>2, <1>5, Types DEF IInv, LoopInv, StartHandler, Log, chainVars
  <1>11. HandlerInv'
    <2>1. Log(Processor) = confirmed
      BY DEF Log, Processor, Facilitator
    <2>2. confirmed' = confirmed /\ processed' = processed
      BY DEF StartHandler, chainVars
    <2>3. QED BY <1>4, <1>7, <2>1, <2>2 DEF IInv, HandlerInv, Confirmed, Elems
  <1>12. TxInv' /\ StageInv'
    BY DEF IInv, TxInv, StageInv, StartHandler, chainVars, Confirmed, Elems
  <1>13. QED BY <1>9, <1>10, <1>11, <1>12 DEF IInv

LEMMA CloseWindowStep ==
  ASSUME IInv, NEW c \in Comms, CloseWindow(c)
  PROVE  IInv'
PROOF
  <1>1. cursor' = [cursor EXCEPT ![c] = window[c]] /\ started[c] = window[c]
    BY DEF CloseWindow, HandlersSettled
  <1>2. TypeOK'
    BY <1>1, Types DEF IInv, TypeOK, CloseWindow, chainVars, countVars
  <1>3. LoopInv'
    BY <1>1, Types DEF IInv, LoopInv, CloseWindow, Log, chainVars
  <1>4. HandlerInv' /\ TxInv' /\ StageInv'
    BY DEF IInv, HandlerInv, TxInv, StageInv, CloseWindow, chainVars, Confirmed, Elems
  <1>5. QED BY <1>2, <1>3, <1>4 DEF IInv

\* Going back to the checkpoint, for want of a written file or of a process.
LEMMA RewindLoop ==
  ASSUME IInv, NEW c \in Comms, Rewind(c), UNCHANGED chainVars
  PROVE  /\ LoopInv'
         /\ cursor' \in [Comms -> Nat] /\ started' \in [Comms -> Nat]
         /\ window' \in [Comms -> Nat]
PROOF
  <1>1. /\ window' = [window EXCEPT ![c] = cursor[c]]
        /\ started' = [started EXCEPT ![c] = cursor[c]]
        /\ cursor' = cursor
    BY DEF Rewind
  <1>2. /\ cursor' \in [Comms -> Nat] /\ started' \in [Comms -> Nat]
        /\ window' \in [Comms -> Nat]
    BY <1>1, Types DEF IInv
  <1>3. /\ cursor[c] <= Len(Log(c))
        /\ Len(Log(c)) \in Nat
    <2>1. Len(Log(c)) \in Nat /\ cursor[c] \in Nat /\ started[c] \in Nat /\ window[c] \in Nat
      BY Types DEF IInv, Log
    <2>2. QED BY <2>1 DEF IInv, LoopInv
  <1>4. LoopInv'
    BY <1>1, <1>3, Types DEF IInv, LoopInv, Log, chainVars
  <1>5. QED BY <1>2, <1>4

LEMMA SaveFailsStep ==
  ASSUME IInv, NEW c \in Comms, SaveFails(c)
  PROVE  IInv'
PROOF
  <1>1. Rewind(c) /\ UNCHANGED chainVars
    BY DEF SaveFails
  <1>2. unsaved' \in 0..MaxUnsaved
    BY StakeAndMintAssumption, Types DEF IInv, SaveFails
  <1>3. TypeOK'
    BY <1>1, <1>2, RewindLoop DEF IInv, TypeOK, SaveFails, chainVars
  <1>4. HandlerInv' /\ TxInv' /\ StageInv'
    BY DEF IInv, HandlerInv, TxInv, StageInv, SaveFails, chainVars, Confirmed, Elems
  <1>5. QED BY <1>1, <1>3, <1>4, RewindLoop DEF IInv

LEMMA CrashStep ==
  ASSUME IInv, NEW c \in Comms, Crash(c)
  PROVE  IInv'
PROOF
  <1>1. Rewind(c) /\ UNCHANGED chainVars
    BY DEF Crash
  <1>2. crashes' \in 0..MaxCrashes
    BY StakeAndMintAssumption, Types DEF IInv, Crash
  <1>3. phase' = [phase EXCEPT ![c] = [i \in Intents |-> "none"]]
    BY DEF Crash
  <1>4. "none" \in Phases
    BY DEF Phases
  <1>5. phase' \in [Comms -> [Intents -> Phases]]
    BY <1>3, <1>4, Types DEF IInv
  <1>6. \A t \in txs' : \E u \in txs : /\ t.call = u.call /\ t.intent = u.intent
                                       /\ t \in Txs
    <2>1. TAKE t \in txs'
    <2>2. CASE t \in txs
      BY <2>2, Types DEF IInv
    <2>3. CASE t \in {[u EXCEPT !.awaited = FALSE] : u \in txs}
      <3>1. PICK u \in txs : t = [u EXCEPT !.awaited = FALSE]
        BY <2>3
      <3>2. u \in Txs
        BY Types DEF IInv
      <3>3. t \in Txs /\ t.call = u.call /\ t.intent = u.intent
        BY <3>1, <3>2 DEF Txs
      <3>4. QED BY <3>3
    <2>4. txs' = txs \/ txs' = {[u EXCEPT !.awaited = FALSE] : u \in txs}
      BY DEF Crash
    <2>5. QED BY <2>2, <2>3, <2>4
  <1>7. txs' \subseteq Txs
    BY <1>6
  <1>8. TypeOK'
    BY <1>1, <1>2, <1>5, <1>7, RewindLoop DEF IInv, TypeOK, Crash, chainVars
  <1>9. HandlerInv'
    <2>1. \A j \in Intents : \/ phase'[Processor][j] = "none"
                             \/ phase'[Processor][j] = phase[Processor][j]
      BY <1>3, Types DEF IInv, Comms
    <2>2. QED BY <1>1, <2>1 DEF IInv, HandlerInv, chainVars, Confirmed, Elems
  <1>10. TxInv'
    BY <1>1, <1>6 DEF IInv, TxInv, chainVars, Confirmed, Elems
  <1>11. StageInv'
    BY <1>1 DEF IInv, StageInv, chainVars, Confirmed, Elems
  <1>12. QED BY <1>1, <1>8, <1>9, <1>10, <1>11, RewindLoop DEF IInv

-----------------------------------------------------------------------------
(* stake_and_mint.                                                         *)

LEMMA SendConfirmStep ==
  ASSUME IInv, NEW i \in Intents, SendConfirm(i)
  PROVE  IInv'
PROOF
  <1>1. "none" \in Phases /\ Facilitator \in Comms /\ Processor \in Comms
        /\ Processor # Facilitator
    BY DEF Phases, Comms, Processor, Facilitator
  <1>2. Enter(Facilitator, i, "none") /\ confirmTxs' = Append(confirmTxs, i)
    BY DEF SendConfirm
  <1>3. phase' \in [Comms -> [Intents -> Phases]] /\ phase'[Processor] = phase[Processor]
    <2>1. /\ phase' \in [Comms -> [Intents -> Phases]]
          /\ \A j \in Intents : phase'[Processor][j] = phase[Processor][j]
      BY <1>1, <1>2, Types, EnterType DEF IInv
    <2>2. QED BY <1>1, <1>2, <2>1, Types DEF IInv, Enter
  <1>4. confirmTxs' \in Seq(Intents)
    BY <1>2, Types, ElemsAppend DEF IInv
  <1>5. TypeOK'
    BY <1>3, <1>4 DEF IInv, TypeOK, SendConfirm, chainVars, loopVars, countVars
  <1>6. LoopInv'
    BY DEF IInv, LoopInv, SendConfirm, Log, chainVars, loopVars
  <1>7. HandlerInv' /\ TxInv' /\ StageInv'
    BY <1>3 DEF IInv, HandlerInv, TxInv, StageInv, SendConfirm, chainVars, Confirmed, Elems
  <1>8. QED BY <1>5, <1>6, <1>7 DEF IInv

LEMMA ConfirmFailsStep ==
  ASSUME IInv, NEW i \in Intents, ConfirmFails(i)
  PROVE  IInv'
PROOF
  <1>1. "none" \in Phases /\ Facilitator \in Comms /\ Processor \in Comms
        /\ Processor # Facilitator
    BY DEF Phases, Comms, Processor, Facilitator
  <1>2. Enter(Facilitator, i, "none")
    BY DEF ConfirmFails
  <1>3. phase' \in [Comms -> [Intents -> Phases]] /\ phase'[Processor] = phase[Processor]
    <2>1. phase' \in [Comms -> [Intents -> Phases]]
      BY <1>1, <1>2, Types, EnterType DEF IInv
    <2>2. QED BY <1>1, <1>2, <2>1, Types DEF IInv, Enter
  <1>4. faults' \in 0..MaxFaults
    BY Types, StakeAndMintAssumption DEF IInv, TypeOK, ConfirmFails, Fault, NoFault
  <1>5. TypeOK'
    BY <1>3, <1>4 DEF IInv, TypeOK, ConfirmFails, chainVars, loopVars
  <1>6. LoopInv'
    BY DEF IInv, LoopInv, ConfirmFails, Log, chainVars, loopVars
  <1>7. HandlerInv' /\ TxInv' /\ StageInv'
    BY <1>3 DEF IInv, HandlerInv, TxInv, StageInv, ConfirmFails, chainVars, Confirmed, Elems
  <1>8. QED BY <1>5, <1>6, <1>7 DEF IInv

\* A confirmation that is mined makes the log longer, so nothing said of the
\* intents in it is lost.
LEMMA MineConfirmStep ==
  ASSUME IInv, MineConfirm
  PROVE  IInv'
PROOF
  <1> DEFINE i == Head(confirmTxs)
  <1>1. i \in Intents /\ Tail(confirmTxs) \in Seq(Intents)
    BY Types DEF IInv, MineConfirm
  <1>2. confirmed' = Append(confirmed, i) \/ confirmed' = confirmed
    BY DEF MineConfirm
  <1>3. /\ confirmed' \in Seq(Intents)
        /\ Confirmed \subseteq Confirmed'
        /\ Len(confirmed) <= Len(confirmed')
    <2>1. confirmed \in Seq(Intents) /\ Len(confirmed) \in Nat
      BY Types DEF IInv
    <2>2. CASE confirmed' = Append(confirmed, i)
      <3>1. /\ Elems(Append(confirmed, i)) = Elems(confirmed) \cup {i}
            /\ Append(confirmed, i) \in Seq(Intents)
            /\ Len(Append(confirmed, i)) = Len(confirmed) + 1
        BY <1>1, <2>1, ElemsAppend
      <3>2. Confirmed' = Elems(Append(confirmed, i))
        BY <2>2 DEF Confirmed, Elems
      <3>3. QED BY <2>1, <2>2, <3>1, <3>2 DEF Confirmed
    <2>3. CASE confirmed' = confirmed
      BY <2>1, <2>3 DEF Confirmed, Elems
    <2>4. QED BY <1>2, <2>2, <2>3
  <1>4. faults' \in 0..MaxFaults
    BY Types, StakeAndMintAssumption DEF IInv, TypeOK, MineConfirm, Fault, NoFault
  <1>5. TypeOK'
    BY <1>1, <1>3, <1>4 DEF IInv, TypeOK, MineConfirm, loopVars
  <1>6. LoopInv'
    <2>1. Len(confirmed) \in Nat /\ Len(confirmed') \in Nat /\ Len(declared) \in Nat
      BY <1>3, Types DEF IInv
    <2>2. QED
      BY <1>3, <2>1, Types
         DEF IInv, LoopInv, MineConfirm, Log, loopVars, Comms, Facilitator, Processor
  <1>7. HandlerInv' /\ TxInv'
    BY <1>3 DEF IInv, HandlerInv, TxInv, MineConfirm
  <1>8. StageInv'
    BY <1>3 DEF IInv, StageInv, MineConfirm
  <1>9. QED BY <1>5, <1>6, <1>7, <1>8 DEF IInv

-----------------------------------------------------------------------------
(* stake_and_mint_processor.                                               *)

LEMMA SendStep ==
  ASSUME IInv, NEW i \in Intents, Send(i)
  PROVE  IInv'
PROOF
  <1> DEFINE call == phase[Processor][i]
             t0   == [call |-> call, intent |-> i, awaited |-> TRUE]
  <1>1. call \in Calls /\ txs' = txs \cup {t0}
    BY DEF Send
  <1>2. call # "none"
    BY <1>1 DEF Calls
  <1>3. t0 \in Txs
    BY <1>1 DEF Txs
  <1>4. TypeOK'
    BY <1>1, <1>3 DEF IInv, TypeOK, Send, chainVars, loopVars, countVars
  <1>5. LoopInv'
    BY DEF IInv, LoopInv, Send, Log, chainVars, loopVars
  <1>6. TxInv'
    <2>1. i \in Confirmed /\ (call = "processMinting" => i \in processed)
      BY <1>2 DEF IInv, HandlerInv
    <2>2. Confirmed' = Confirmed /\ processed' = processed
      BY DEF Send, chainVars, Confirmed, Elems
    <2>3. QED BY <1>1, <2>1, <2>2 DEF IInv, TxInv
  <1>7. HandlerInv' /\ StageInv'
    BY DEF IInv, HandlerInv, StageInv, Send, chainVars, Confirmed, Elems
  <1>8. QED BY <1>4, <1>5, <1>6, <1>7 DEF IInv

LEMMA SendFailsStep ==
  ASSUME IInv, NEW i \in Intents, SendFails(i)
  PROVE  IInv'
PROOF
  <1>1. "none" \in Phases /\ Processor \in Comms
    BY DEF Phases, Comms
  <1>2. Enter(Processor, i, "none")
    BY DEF SendFails
  <1>3. /\ phase' \in [Comms -> [Intents -> Phases]]
        /\ \A j \in Intents : \/ phase'[Processor][j] = "none"
                              \/ phase'[Processor][j] = phase[Processor][j]
    BY <1>1, <1>2, Types, EnterType DEF IInv
  <1>4. faults' \in 0..MaxFaults
    BY Types, StakeAndMintAssumption DEF IInv, TypeOK, SendFails, Fault, NoFault
  <1>5. TypeOK'
    BY <1>3, <1>4 DEF IInv, TypeOK, SendFails, chainVars, loopVars
  <1>6. LoopInv'
    BY DEF IInv, LoopInv, SendFails, Log, chainVars, loopVars
  <1>7. HandlerInv' /\ TxInv' /\ StageInv'
    BY <1>3 DEF IInv, HandlerInv, TxInv, StageInv, SendFails, chainVars, Confirmed, Elems
  <1>8. QED BY <1>5, <1>6, <1>7 DEF IInv

\* Where a handler is after a receipt: only a successful processStaking leads
\* to processMinting.
LEMMA SettlePhase ==
  ASSUME IInv, NEW t \in txs, NEW ok \in BOOLEAN, Settle(t, ok)
  PROVE  /\ t \in Txs /\ t.intent \in Intents
         /\ phase' \in [Comms -> [Intents -> Phases]]
         /\ \A j \in Intents :
              \/ phase'[Processor][j] = phase[Processor][j]
              \/ /\ j = t.intent
                 /\ phase'[Processor][j] = "processMinting" =>
                      t.call = "processStaking" /\ ok
PROOF
  <1>1. t \in Txs /\ t.intent \in Intents
    BY Types DEF IInv, Txs
  <1>2. AfterReceipt(t.call, ok) \in Phases
    BY DEF AfterReceipt, Phases, Calls
  <1>3. Processor \in Comms
    BY DEF Comms
  <1>4. AfterReceipt(t.call, ok) = "processMinting" => t.call = "processStaking" /\ ok
    BY DEF AfterReceipt
  <1>5. CASE Enter(Processor, t.intent, AfterReceipt(t.call, ok))
    BY <1>1, <1>2, <1>3, <1>4, <1>5, Types, EnterType DEF IInv
  <1>6. CASE UNCHANGED phase
    BY <1>1, <1>6, Types DEF IInv
  <1>7. QED BY <1>5, <1>6 DEF Settle

\* The tokens a claim pays out were minted.
LEMMA MineTxStep ==
  ASSUME IInv, NEW t \in txs, MineTx(t)
  PROVE  IInv'
PROOF
  <1>1. Settle(t, TRUE) /\ Apply(t.call, t.intent) /\ Accepts(t.call, t.intent)
    BY DEF MineTx
  <1>2. /\ t \in Txs /\ t.intent \in Intents
        /\ phase' \in [Comms -> [Intents -> Phases]]
        /\ \A j \in Intents :
             \/ phase'[Processor][j] = phase[Processor][j]
             \/ /\ j = t.intent
                /\ phase'[Processor][j] = "processMinting" => t.call = "processStaking"
    BY <1>1, SettlePhase
  <1>3. t.intent \in Confirmed /\ (t.call = "processMinting" => t.intent \in processed)
    BY DEF IInv, TxInv
  <1>4. /\ processed \subseteq processed' /\ minted \subseteq minted'
        /\ processed' \subseteq processed \cup {t.intent}
        /\ minted' \subseteq minted \cup {t.intent}
        /\ t.call = "processStaking" => t.intent \in processed'
        /\ t.intent \in minted' \ minted => t.call = "processMinting"
        /\ claimed' \subseteq claimed \cup minted
    BY <1>1 DEF Apply, Unclaimed
  <1>5. Confirmed' = Confirmed
    BY <1>1 DEF Settle, Confirmed, Elems
  <1>6. txs' = txs \ {t}
    BY <1>1 DEF Settle
  <1>7. TypeOK'
    BY <1>1, <1>2, <1>4, <1>6
       DEF IInv, TypeOK, Settle, MineTx, NoFault, loopVars
  <1>8. LoopInv'
    BY <1>1 DEF IInv, LoopInv, Settle, Log, loopVars
  <1>9. HandlerInv'
    BY <1>2, <1>3, <1>4, <1>5 DEF IInv, HandlerInv
  <1>10. TxInv'
    BY <1>4, <1>5, <1>6 DEF IInv, TxInv
  <1>11. StageInv'
    BY <1>3, <1>4, <1>5 DEF IInv, StageInv
  <1>12. QED BY <1>7, <1>8, <1>9, <1>10, <1>11 DEF IInv

LEMMA RevertTxStep ==
  ASSUME IInv, NEW t \in txs, RevertTx(t)
  PROVE  IInv'
PROOF
  <1>1. Settle(t, FALSE) /\ UNCHANGED <<processed, minted, claimed>>
    BY DEF RevertTx
  <1>2. /\ t \in Txs /\ t.intent \in Intents
        /\ phase' \in [Comms -> [Intents -> Phases]]
        /\ \A j \in Intents :
             \/ phase'[Processor][j] = phase[Processor][j]
             \/ j = t.intent /\ phase'[Processor][j] # "processMinting"
    BY <1>1, SettlePhase
  <1>3. t.intent \in Confirmed
    BY DEF IInv, TxInv
  <1>4. Confirmed' = Confirmed /\ txs' = txs \ {t}
    BY <1>1 DEF Settle, Confirmed, Elems
  <1>5. faults' \in 0..MaxFaults
    BY Types, StakeAndMintAssumption DEF IInv, TypeOK, RevertTx, Fault, NoFault
  <1>6. TypeOK'
    BY <1>1, <1>2, <1>4, <1>5 DEF IInv, TypeOK, Settle, loopVars
  <1>7. LoopInv'
    BY <1>1 DEF IInv, LoopInv, Settle, Log, loopVars
  <1>8. HandlerInv'
    BY <1>1, <1>2, <1>3, <1>4 DEF IInv, HandlerInv
  <1>9. TxInv' /\ StageInv'
    BY <1>1, <1>4 DEF IInv, TxInv, StageInv
  <1>10. QED BY <1>6, <1>7, <1>8, <1>9 DEF IInv

LEMMA PollFailsStep ==
  ASSUME IInv, NEW t \in txs, PollFails(t)
  PROVE  IInv'
PROOF
  <1> DEFINE u == [t EXCEPT !.awaited = FALSE]
  <1>1. t \in Txs /\ t.intent \in Intents
    BY Types DEF IInv, Txs
  <1>2. u \in Txs /\ u.call = t.call /\ u.intent = t.intent
    BY <1>1 DEF Txs
  <1>3. txs' = (txs \ {t}) \cup {u} /\ Enter(Processor, t.intent, "stuck")
    BY DEF PollFails
  <1> HIDE DEF u
  <1>4. "stuck" \in Phases /\ Processor \in Comms
    BY DEF Phases, Comms
  <1>5. /\ phase' \in [Comms -> [Intents -> Phases]]
        /\ \A j \in Intents :
             \/ phase'[Processor][j] = phase[Processor][j]
             \/ j = t.intent /\ phase'[Processor][j] = "stuck"
    BY <1>1, <1>3, <1>4, Types, EnterType DEF IInv
  <1>6. Confirmed' = Confirmed /\ processed' = processed
    BY DEF PollFails, chainVars, Confirmed, Elems
  <1>7. faults' \in 0..MaxFaults
    BY Types, StakeAndMintAssumption DEF IInv, TypeOK, PollFails, Fault
  <1>8. TypeOK'
    BY <1>2, <1>3, <1>5, <1>7 DEF IInv, TypeOK, PollFails, chainVars, loopVars
  <1>9. LoopInv'
    BY DEF IInv, LoopInv, PollFails, Log, chainVars, loopVars
  <1>10. HandlerInv'
    <2>1. t.intent \in Confirmed
      BY DEF IInv, TxInv
    <2>2. QED BY <1>5, <1>6, <2>1 DEF IInv, HandlerInv
  <1>11. TxInv'
    BY <1>2, <1>3, <1>6 DEF IInv, TxInv
  <1>12. StageInv'
    BY <1>6 DEF IInv, StageInv, PollFails, chainVars
  <1>13. QED BY <1>8, <1>9, <1>10, <1>11, <1>12 DEF IInv

-----------------------------------------------------------------------------
(* The theorems.                                                           *)

LEMMA StutterStep ==
  ASSUME IInv, UNCHANGED vars
  PROVE  IInv'
PROOF
  <1>1. TypeOK'
    BY DEF IInv, TypeOK, vars, chainVars, loopVars, countVars
  <1>2. LoopInv' /\ HandlerInv' /\ TxInv' /\ StageInv'
    BY DEF IInv, LoopInv, HandlerInv, TxInv, StageInv, Log, Confirmed, Elems,
           vars, chainVars, loopVars, countVars
  <1>3. QED BY <1>1, <1>2 DEF IInv

LEMMA NextInv == IInv /\ [Next]_vars => IInv'
PROOF
  <1>1. SUFFICES ASSUME IInv, [Next]_vars PROVE IInv'
    OBVIOUS
  <1>2. CASE \E i \in Intents : Declare(i)
    BY <1>1, <1>2, DeclareStep
  <1>3. CASE \E c \in Comms : OpenWindow(c)
    BY <1>1, <1>3, OpenWindowStep
  <1>4. CASE \E c \in Comms : StartHandler(c)
    BY <1>1, <1>4, StartHandlerStep
  <1>5. CASE \E c \in Comms : CloseWindow(c)
    BY <1>1, <1>5, CloseWindowStep
  <1>6. CASE \E c \in Comms : SaveFails(c)
    BY <1>1, <1>6, SaveFailsStep
  <1>7. CASE \E c \in Comms : Crash(c)
    BY <1>1, <1>7, CrashStep
  <1>8. CASE \E i \in Intents : SendConfirm(i)
    BY <1>1, <1>8, SendConfirmStep
  <1>9. CASE \E i \in Intents : ConfirmFails(i)
    BY <1>1, <1>9, ConfirmFailsStep
  <1>10. CASE MineConfirm
    BY <1>1, <1>10, MineConfirmStep
  <1>11. CASE \E i \in Intents : Send(i)
    BY <1>1, <1>11, SendStep
  <1>12. CASE \E i \in Intents : SendFails(i)
    BY <1>1, <1>12, SendFailsStep
  <1>13. CASE \E t \in txs : MineTx(t)
    BY <1>1, <1>13, MineTxStep
  <1>14. CASE \E t \in txs : RevertTx(t)
    BY <1>1, <1>14, RevertTxStep
  <1>15. CASE \E t \in txs : PollFails(t)
    BY <1>1, <1>15, PollFailsStep
  <1>16. CASE UNCHANGED vars
    BY <1>1, <1>16, StutterStep
  <1>17. QED
    BY <1>1, <1>2, <1>3, <1>4, <1>5, <1>6, <1>7, <1>8, <1>9, <1>10, <1>11,
       <1>12, <1>13, <1>14, <1>15, <1>16 DEF Next

\* IInv holds in every reachable state, for every set of intents and every
\* number of kills, unwritten checkpoints and failures.
THEOREM StakeInvariant == Spec => []IInv
PROOF
  BY InitInv, NextInv, PTL DEF Spec

\* No token is minted for a stake that is not locked on the value chain.
THEOREM MintsAreBackedHolds == Spec => []MintsAreBacked
PROOF
  <1>1. IInv => MintsAreBacked
    BY DEF IInv, StageInv, MintsAreBacked
  <1>2. QED BY <1>1, StakeInvariant, PTL

\* A step of stake and mint is a step of a stake's lifecycle, or none of it.
LEMMA LifecycleStep ==
  ASSUME IInv, Next
  PROVE  [Lifecycle!LifecycleNext]_(Lifecycle!lifecycleVars)
PROOF
  <1> USE DEF Lifecycle!LifecycleNext, Lifecycle!lifecycleVars
  <1>1. CASE MineConfirm
    <2> DEFINE i == Head(confirmTxs)
    <2>1. i \in Intents /\ confirmed \in Seq(Intents)
      BY <1>1, Types DEF IInv, MineConfirm
    <2>2. UNCHANGED <<processed, minted, claimed>>
      BY <1>1 DEF MineConfirm
    <2>3. CASE AcceptsConfirm(i) /\ confirmed' = Append(confirmed, i)
      <3>1. i \notin Elems(confirmed)
        BY <2>3 DEF AcceptsConfirm
      <3>2. Elems(Append(confirmed, i)) = Elems(confirmed) \cup {i}
        BY <2>1, ElemsAppend
      <3>3. Elems(confirmed)' = Elems(Append(confirmed, i))
        BY <2>3 DEF Elems
      <3>4. Lifecycle!Announce(i)
        BY <2>2, <3>1, <3>2, <3>3 DEF Lifecycle!Announce
      <3>5. QED BY <2>1, <3>4
    <2>4. CASE UNCHANGED confirmed
      BY <2>2, <2>4 DEF Elems
    <2>5. QED BY <1>1, <2>3, <2>4 DEF MineConfirm
  <1>2. CASE \E t \in txs : MineTx(t)
    <2>1. PICK t \in txs : MineTx(t)
      BY <1>2
    <2>2. t \in Txs /\ t.intent \in Intents /\ t.call \in Calls
      BY Types DEF IInv, Txs
    <2>3. /\ Accepts(t.call, t.intent) /\ Apply(t.call, t.intent)
          /\ Elems(confirmed)' = Elems(confirmed)
      BY <2>1 DEF MineTx, Settle, Elems
    <2>4. t.intent \in Elems(confirmed)
      BY DEF IInv, TxInv, Confirmed
    <2>5. CASE t.call = "processStaking"
      <3>1. Lifecycle!Lock(t.intent)
        BY <2>3, <2>4, <2>5 DEF Lifecycle!Lock, Accepts, Apply
      <3>2. QED BY <2>2, <3>1
    <2>6. CASE t.call = "processMinting"
      <3>1. t.intent \in processed
        BY <2>6 DEF IInv, TxInv
      <3>2. Lifecycle!Mint(t.intent)
        BY <2>3, <2>6, <3>1 DEF Lifecycle!Mint, Accepts, Apply
      <3>3. QED BY <2>2, <3>2
    <2>7. CASE t.call = "claim"
      <3>1. Lifecycle!Pay
        BY <2>3, <2>7 DEF IInv, StageInv, Lifecycle!Pay, Apply, Unclaimed
      <3>2. QED BY <3>1
    <2>8. QED BY <2>2, <2>5, <2>6, <2>7 DEF Calls
  <1>3. CASE UNCHANGED <<confirmed, processed, minted, claimed>>
    BY <1>3 DEF Elems
  <1>4. ASSUME ~MineConfirm, ~\E t \in txs : MineTx(t)
        PROVE  UNCHANGED <<confirmed, processed, minted, claimed>>
    BY <1>4 DEF Next, Declare, OpenWindow, StartHandler, CloseWindow, SaveFails,
                Crash, SendConfirm, ConfirmFails, Send, SendFails, RevertTx,
                PollFails, Settle, chainVars
  <1>5. QED BY <1>1, <1>2, <1>3, <1>4

\* The two communicators implement StakeLifecycle: each intent is confirmed,
\* locked, minted and paid out at most once and in this order, whatever is
\* killed, redelivered or refused.
THEOREM LifecycleRefinement == Spec => ImplementsLifecycle
PROOF
  <1>1. Init => Lifecycle!LifecycleInit
    BY DEF Init, Lifecycle!LifecycleInit, Elems
  <1>2. IInv /\ [Next]_vars => [Lifecycle!LifecycleNext]_(Lifecycle!lifecycleVars)
    <2>1. CASE Next
      BY <2>1, LifecycleStep
    <2>2. CASE UNCHANGED vars
      BY <2>2 DEF vars, chainVars, Lifecycle!lifecycleVars, Elems
    <2>3. QED BY <2>1, <2>2
  <1>3. QED
    BY <1>1, <1>2, StakeInvariant, PTL DEF Spec, ImplementsLifecycle, Lifecycle!LifecycleSpec

-----------------------------------------------------------------------------
(* The order of the intents.  Without failures no intent is passed over, for *)
(* any number of kills and redelivered windows; without kills too every stake *)
(* behind the processor's checkpoint was carried through: the facilitator's  *)
(* handlers are called in the order of the log, one at a time, and the       *)
(* confirmations they leave behind are mined in that order; the processor's  *)
(* overlap, but each has its intent to itself.                               *)

\* i is an earlier intent of the staker of j.
Precedes(i, j) ==
  /\ StakerOf[i] = StakerOf[j]
  /\ \E p, q \in DOMAIN declared : p < q /\ declared[p] = i /\ declared[q] = j

\* An intent is declared once, and before anything is done about it.
LogInv ==
  /\ \A p, q \in DOMAIN declared : declared[p] = declared[q] => p = q
  /\ Confirmed \cup Elems(confirmTxs) \subseteq Elems(declared)

\* A handler of the facilitator is that of the last event started.
AtInv ==
  \A i \in Intents :
    phase[Facilitator][i] # "none" =>
      /\ phase[Facilitator][i] = "confirmStakingIntent"
      /\ cursor[Facilitator] < started[Facilitator]
      /\ declared[started[Facilitator]] = i

\* What was started is confirmed, or on its way.
Sent(i) == i \in Confirmed \cup Elems(confirmTxs)
SentInv ==
  \A p \in 1..started[Facilitator] : Sent(declared[p]) \/ phase[Facilitator][declared[p]] # "none"

\* A confirmation on its way has its predecessors before it.
TxOrderInv ==
  \A k \in DOMAIN confirmTxs, i \in Intents :
    Precedes(i, confirmTxs[k]) => i \in Confirmed \/ \E m \in 1..(k - 1) : confirmTxs[m] = i

PassInv == \A i, j \in Intents : Precedes(i, j) /\ j \in Confirmed => i \in Confirmed

OrderInv == LogInv /\ AtInv /\ (faults = 0 => PassInv /\ SentInv /\ TxOrderInv)

-----------------------------------------------------------------------------
(* What the definitions say of each other.                                 *)

\* The contract refuses a nonce that was used or overtaken.
LEMMA AcceptsFirst ==
  ASSUME TypeOK, NEW i \in Intents
  PROVE  AcceptsConfirm(i) <=>
           i \notin Confirmed /\ \A j \in Intents : Precedes(i, j) => j \notin Confirmed
PROOF
  <1>1. \A k \in DOMAIN declared : declared[k] \in Intents
    BY Types
  <1>2. QED BY <1>1 DEF AcceptsConfirm, Precedes, Confirmed

\* The positions of the facilitator are positions of its log.
LEMMA Positions ==
  ASSUME IInv
  PROVE  /\ declared \in Seq(Intents) /\ Len(declared) \in Nat
         /\ DOMAIN declared = 1..Len(declared)
         /\ cursor[Facilitator] \in Nat /\ started[Facilitator] \in Nat
         /\ window[Facilitator] \in Nat
         /\ cursor[Facilitator] <= started[Facilitator]
         /\ started[Facilitator] <= window[Facilitator]
         /\ window[Facilitator] <= Len(declared)
         /\ Facilitator \in Comms /\ Processor \in Comms /\ Processor # Facilitator
PROOF
  <1>1. declared \in Seq(Intents)
    BY Types DEF IInv
  <1>2. Facilitator \in Comms /\ Processor \in Comms /\ Processor # Facilitator
    BY DEF Comms, Facilitator, Processor
  <1>3. /\ cursor[Facilitator] \in Nat /\ started[Facilitator] \in Nat
        /\ window[Facilitator] \in Nat
    BY <1>2, Types DEF IInv
  <1>4. /\ cursor[Facilitator] <= started[Facilitator]
        /\ started[Facilitator] <= window[Facilitator]
        /\ window[Facilitator] <= Len(declared)
    BY <1>2 DEF IInv, LoopInv, Log
  <1>5. QED BY <1>1, <1>2, <1>3, <1>4

\* A handler that is under way is the only one, at the last position started.
LEMMA OnlyOne ==
  ASSUME IInv, OrderInv, NEW p \in 1..started[Facilitator],
         phase[Facilitator][declared[p]] # "none"
  PROVE  p = started[Facilitator] /\ cursor[Facilitator] < p
PROOF
  <1>1. p \in DOMAIN declared /\ started[Facilitator] \in DOMAIN declared
    BY Positions
  <1>2. declared[p] \in Intents
    BY <1>1, Positions
  <1>3. /\ declared[started[Facilitator]] = declared[p]
        /\ cursor[Facilitator] < started[Facilitator]
    BY <1>2 DEF OrderInv, AtInv
  <1>4. QED BY <1>1, <1>3 DEF OrderInv, LogInv

\* A failure is never forgotten.
LEMMA FaultsGrow ==
  ASSUME TypeOK, Fault \/ UNCHANGED faults, faults' = 0
  PROVE  faults = 0 /\ ~Fault
PROOF
  BY Types DEF Fault

-----------------------------------------------------------------------------
(* The steps.                                                              *)

\* The facilitator and its log are left alone.
LEMMA OrderFrame ==
  ASSUME OrderInv, UNCHANGED <<declared, confirmed, confirmTxs>>,
         phase'[Facilitator] = phase[Facilitator],
         started'[Facilitator] = started[Facilitator],
         cursor'[Facilitator] = cursor[Facilitator],
         faults' = 0 => faults = 0
  PROVE  OrderInv'
PROOF
  BY DEF OrderInv, LogInv, AtInv, PassInv, SentInv, Sent, TxOrderInv, Precedes, Confirmed, Elems

\* Nothing precedes another intent, or follows one, because a new one is declared.
LEMMA OrderDeclare ==
  ASSUME IInv, OrderInv, NEW i \in Intents, Declare(i)
  PROVE  OrderInv'
PROOF
  <1>1. /\ i \notin Elems(declared) /\ declared' = Append(declared, i)
        /\ UNCHANGED <<confirmed, confirmTxs, phase, started, cursor, faults>>
    BY DEF Declare, loopVars, countVars
  <1> DEFINE n == Len(declared)
  <1>2. /\ n \in Nat /\ DOMAIN declared = 1..n /\ DOMAIN declared' = 1..(n + 1)
        /\ declared'[n + 1] = i
        /\ \A k \in 1..n : declared'[k] = declared[k] /\ declared[k] \in Elems(declared)
        /\ Elems(declared)' = Elems(declared) \cup {i}
    <2>1. declared \in Seq(Intents) /\ n \in Nat /\ DOMAIN declared = 1..n
      BY Positions
    <2>2. /\ Append(declared, i) \in Seq(Intents) /\ Len(Append(declared, i)) = n + 1
          /\ \A k \in 1..n : Append(declared, i)[k] = declared[k]
          /\ Elems(Append(declared, i)) = Elems(declared) \cup {i}
      BY <2>1, ElemsAppend
    <2>3. Append(declared, i)[n + 1] = i
      BY <2>1
    <2>4. DOMAIN Append(declared, i) = 1..(n + 1)
      BY <2>2
    <2>5. Elems(declared)' = Elems(Append(declared, i))
      BY <1>1 DEF Elems
    <2>6. QED BY <1>1, <2>1, <2>2, <2>3, <2>4, <2>5 DEF Elems
  <1> HIDE DEF n
  <1>3. Confirmed' = Confirmed /\ Elems(confirmTxs)' = Elems(confirmTxs)
    BY <1>1 DEF Confirmed, Elems
  <1>4. LogInv'
    <2>1. ASSUME NEW p \in 1..(n + 1), NEW q \in 1..(n + 1), declared'[p] = declared'[q]
          PROVE  p = q
      <3>1. CASE p \in 1..n /\ q \in 1..n
        BY <1>2, <2>1, <3>1 DEF OrderInv, LogInv
      <3>2. CASE p = n + 1 /\ q \in 1..n
        BY <1>1, <1>2, <2>1, <3>2
      <3>3. CASE p \in 1..n /\ q = n + 1
        BY <1>1, <1>2, <2>1, <3>3
      <3>4. QED BY <1>2, <3>1, <3>2, <3>3
    <2>2. QED BY <1>2, <1>3, <2>1 DEF OrderInv, LogInv
  <1>5. AtInv'
    <2>1. \A j \in Intents : phase[Facilitator][j] # "none" => started[Facilitator] \in 1..n
      BY Positions DEF OrderInv, AtInv, n
    <2>2. QED BY <1>1, <1>2, <2>1 DEF OrderInv, AtInv
  <1>6. \A j, k \in Intents : k \in Elems(declared) /\ Precedes(j, k)' => Precedes(j, k)
    <2>1. SUFFICES ASSUME NEW j \in Intents, NEW k \in Intents, k \in Elems(declared),
                          Precedes(j, k)'
                   PROVE  Precedes(j, k)
      OBVIOUS
    <2>2. PICK p \in 1..(n + 1), q \in 1..(n + 1) :
            p < q /\ declared'[p] = j /\ declared'[q] = k
      BY <1>2, <2>1 DEF Precedes
    <2>3. q # n + 1
      BY <1>1, <1>2, <2>1, <2>2
    <2>4. p \in 1..n /\ q \in 1..n
      BY <1>2, <2>2, <2>3
    <2>5. QED BY <1>2, <2>1, <2>2, <2>4 DEF Precedes
  <1>7. Confirmed \cup Elems(confirmTxs) \subseteq Elems(declared)
    BY DEF OrderInv, LogInv
  <1>8. ASSUME faults' = 0 PROVE (PassInv /\ SentInv /\ TxOrderInv)'
    <2>1. PassInv /\ SentInv /\ TxOrderInv
      BY <1>1, <1>8 DEF OrderInv
    <2>2. PassInv'
      BY <1>3, <1>6, <1>7, <2>1 DEF PassInv
    <2>3. SentInv'
      <3>1. \A p \in 1..started[Facilitator] : p \in 1..n
        BY Positions DEF n
      <3>2. \A p \in 1..started[Facilitator] : declared'[p] = declared[p]
        BY <1>2, <3>1
      <3>3. QED BY <1>1, <1>3, <2>1, <3>2 DEF SentInv, Sent
    <2>4. TxOrderInv'
      <3>1. \A k \in DOMAIN confirmTxs : confirmTxs[k] \in Elems(declared)
        BY <1>7 DEF Elems
      <3>2. \A k \in DOMAIN confirmTxs : confirmTxs[k] \in Intents
        BY Types DEF IInv
      <3>3. QED BY <1>1, <1>3, <1>6, <2>1, <3>1, <3>2 DEF TxOrderInv
    <2>5. QED BY <2>2, <2>3, <2>4
  <1>9. QED BY <1>4, <1>5, <1>8 DEF OrderInv

\* The next event's handler is called: it waited until the one before was done.
LEMMA OrderStart ==
  ASSUME IInv, OrderInv, StartHandler(Facilitator)
  PROVE  OrderInv'
PROOF
  <1> DEFINE s == started[Facilitator]
  <1> DEFINE i == declared[s + 1]
  <1>1. /\ s < window[Facilitator] /\ Idle(Facilitator)
        /\ started' = [started EXCEPT ![Facilitator] = s + 1]
        /\ UNCHANGED <<chainVars, cursor, confirmTxs, faults>>
    BY DEF StartHandler, MayStart, countVars
  <1>2. Enter(Facilitator, i, "confirmStakingIntent")
    BY Positions DEF StartHandler, Log
  <1>3. s \in Nat /\ s + 1 \in DOMAIN declared /\ i \in Intents
    BY <1>1, Positions
  <1>4. "confirmStakingIntent" \in Phases
    BY DEF Phases
  <1>5. \A j \in Intents : phase'[Facilitator][j] =
          IF j = i THEN "confirmStakingIntent" ELSE "none"
    BY <1>1, <1>2, <1>3, <1>4, Types, EnterType, Positions DEF IInv, Idle
  <1>6. started'[Facilitator] = s + 1
    BY <1>1, Types, Positions DEF IInv
  <1>7. cursor[Facilitator] < s + 1
    BY <1>3, Positions
  <1>8. /\ declared' = declared /\ Confirmed' = Confirmed /\ confirmTxs' = confirmTxs
        /\ Elems(confirmTxs)' = Elems(confirmTxs) /\ faults' = faults /\ cursor' = cursor
    BY <1>1 DEF chainVars, Confirmed, Elems
  <1> HIDE DEF i, s
  <1>9. LogInv'
    BY <1>8 DEF OrderInv, LogInv, Elems
  <1>10. AtInv'
    BY <1>5, <1>6, <1>7, <1>8 DEF AtInv, i
  <1>11. ASSUME faults' = 0 PROVE (PassInv /\ SentInv /\ TxOrderInv)'
    <2>1. PassInv /\ SentInv /\ TxOrderInv
      BY <1>8, <1>11 DEF OrderInv
    <2>2. PassInv' /\ TxOrderInv'
      BY <1>8, <2>1 DEF PassInv, TxOrderInv, Precedes
    <2>3. ASSUME NEW p \in 1..(s + 1)
          PROVE  Sent(declared[p]) \/ phase'[Facilitator][declared[p]] # "none"
      <3>1. CASE p = s + 1
        BY <1>3, <1>5, <3>1 DEF i
      <3>2. CASE p \in 1..s
        <4>1. declared[p] \in Intents
          BY <3>2, Positions DEF s
        <4>2. QED BY <1>1, <2>1, <3>2, <4>1 DEF SentInv, Idle, s
      <3>3. QED BY <1>3, <3>1, <3>2
    <2>4. QED BY <1>6, <1>8, <2>2, <2>3 DEF SentInv, Sent
  <1>12. QED BY <1>9, <1>10, <1>11 DEF OrderInv

\* The window is closed, or started again at its checkpoint, by a process that is
\* idle or new.
LEMMA OrderLoop ==
  ASSUME IInv, OrderInv, CloseWindow(Facilitator) \/ SaveFails(Facilitator) \/ Crash(Facilitator)
  PROVE  OrderInv'
PROOF
  <1>1. UNCHANGED <<chainVars, confirmTxs, faults>>
    BY DEF CloseWindow, SaveFails, Crash, countVars
  <1>2. \A i \in Intents : phase'[Facilitator][i] = "none"
    BY Types, Positions DEF IInv, CloseWindow, SaveFails, Crash, HandlersSettled, Idle
  <1>3. \/ started'[Facilitator] = cursor[Facilitator]
        \/ started'[Facilitator] = started[Facilitator] /\ Idle(Facilitator)
    BY Types, Positions DEF IInv, CloseWindow, SaveFails, Crash, HandlersSettled, Rewind
  <1>4. /\ declared' = declared /\ Confirmed' = Confirmed /\ confirmTxs' = confirmTxs
        /\ Elems(confirmTxs)' = Elems(confirmTxs) /\ Elems(declared)' = Elems(declared)
        /\ faults' = faults
    BY <1>1 DEF chainVars, Confirmed, Elems
  <1>5. LogInv' /\ AtInv'
    <2>1. LogInv'
      BY <1>4 DEF OrderInv, LogInv
    <2>2. AtInv'
      BY <1>2 DEF AtInv
    <2>3. QED BY <2>1, <2>2
  <1>6. ASSUME faults' = 0 PROVE (PassInv /\ SentInv /\ TxOrderInv)'
    <2>1. PassInv /\ SentInv /\ TxOrderInv
      BY <1>4, <1>6 DEF OrderInv
    <2>2. PassInv' /\ TxOrderInv'
      BY <1>4, <2>1 DEF PassInv, TxOrderInv, Precedes
    <2>3. ASSUME NEW p \in 1..started'[Facilitator] PROVE Sent(declared[p])
      <3>1. p \in 1..started[Facilitator] /\ declared[p] \in Intents
        BY <1>3, Positions
      <3>2. CASE started'[Facilitator] = cursor[Facilitator]
        <4>1. ~(cursor[Facilitator] < p)
          BY <3>2, Positions
        <4>2. phase[Facilitator][declared[p]] = "none"
          BY <3>1, <4>1, OnlyOne
        <4>3. QED BY <2>1, <3>1, <4>2 DEF SentInv
      <3>3. CASE started'[Facilitator] = started[Facilitator] /\ Idle(Facilitator)
        BY <2>1, <3>1, <3>3 DEF SentInv, Idle
      <3>4. QED BY <1>3, <3>2, <3>3
    <2>4. QED BY <1>4, <2>2, <2>3 DEF SentInv, Sent
  <1>7. QED BY <1>5, <1>6 DEF OrderInv

\* A handler ends: everything before its event was sent, and so is its own, unless
\* it was confirmed already.
LEMMA OrderHandlerEnds ==
  ASSUME IInv, OrderInv, NEW i \in Intents, SendConfirm(i) \/ ConfirmFails(i)
  PROVE  OrderInv'
PROOF
  <1> DEFINE s == started[Facilitator]
  <1>1. /\ phase[Facilitator][i] = "confirmStakingIntent" /\ Enter(Facilitator, i, "none")
        /\ UNCHANGED <<chainVars, loopVars>>
    BY DEF SendConfirm, ConfirmFails
  <1>2. \A j \in Intents : phase'[Facilitator][j] =
          IF j = i THEN "none" ELSE phase[Facilitator][j]
    BY <1>1, Types, EnterType, Positions DEF IInv, Phases
  <1>3. declared[s] = i /\ cursor[Facilitator] < s
    BY <1>1 DEF OrderInv, AtInv
  <1>4. s \in 1..s /\ s \in DOMAIN declared /\ s \in Nat
    BY <1>3, Positions
  <1>5. \/ confirmTxs' = Append(confirmTxs, i)
        \/ UNCHANGED confirmTxs
    BY DEF SendConfirm, ConfirmFails
  <1>6. /\ declared' = declared /\ Confirmed' = Confirmed
        /\ started' = started /\ cursor' = cursor
    BY <1>1 DEF chainVars, loopVars, Confirmed, Elems
  <1>7. /\ confirmTxs \in Seq(Intents) /\ Len(confirmTxs) \in Nat
        /\ DOMAIN confirmTxs = 1..Len(confirmTxs)
    BY Types DEF IInv
  <1>8. Elems(confirmTxs)' = Elems(confirmTxs) \cup {i} \/ UNCHANGED confirmTxs
    <2>1. Elems(Append(confirmTxs, i)) = Elems(confirmTxs) \cup {i}
      BY <1>7, ElemsAppend
    <2>2. QED BY <1>5, <2>1 DEF Elems
  <1>9. LogInv'
    <2>1. i \in Elems(declared) /\ Elems(declared)' = Elems(declared)
      BY <1>3, <1>4, <1>6 DEF Elems
    <2>2. Elems(confirmTxs)' \subseteq Elems(confirmTxs) \cup {i}
      BY <1>8 DEF Elems
    <2>3. QED BY <1>6, <2>1, <2>2 DEF OrderInv, LogInv
  <1>10. AtInv'
    BY <1>2, <1>6 DEF OrderInv, AtInv
  <1>11. ASSUME faults' = 0 PROVE (PassInv /\ SentInv /\ TxOrderInv)'
    <2>1. faults = 0 /\ ~Fault
      <3>1. Fault \/ UNCHANGED faults
        BY DEF SendConfirm, ConfirmFails, countVars, NoFault
      <3>2. QED BY <1>11, <3>1, FaultsGrow DEF IInv
    <2>2. PassInv /\ SentInv /\ TxOrderInv
      BY <2>1 DEF OrderInv
    <2>3. PassInv'
      BY <1>6, <2>2 DEF PassInv, Precedes
    <2>4. Sent(i)'
      <3>1. CASE SendConfirm(i)
        <4>1. confirmTxs' = Append(confirmTxs, i)
          BY <3>1 DEF SendConfirm
        <4>2. i \in Elems(Append(confirmTxs, i))
          BY <1>7, ElemsAppend
        <4>3. QED BY <4>1, <4>2 DEF Sent, Elems
      <3>2. CASE ConfirmFails(i)
        <4>1. ~AcceptsConfirm(i) \/ i \in Elems(confirmTxs)
          BY <2>1, <3>2 DEF ConfirmFails
        <4>2. AcceptsConfirm(i) \/ i \in Confirmed
          BY <2>2, AcceptsFirst DEF IInv, PassInv
        <4>3. UNCHANGED confirmTxs
          BY <3>2 DEF ConfirmFails
        <4>4. QED BY <1>6, <4>1, <4>2, <4>3 DEF Sent, Elems
      <3>3. QED BY <3>1, <3>2
    <2>5. SentInv'
      <3>1. ASSUME NEW p \in 1..s
            PROVE  Sent(declared[p])' \/ phase'[Facilitator][declared[p]] # "none"
        <4>1. declared[p] \in Intents
          BY Positions
        <4>2. CASE declared[p] = i
          BY <1>6, <2>4, <4>2
        <4>3. CASE declared[p] # i
          <5>1. Sent(declared[p]) \/ phase'[Facilitator][declared[p]] # "none"
            BY <1>2, <2>2, <4>1, <4>3 DEF SentInv
          <5>2. Elems(confirmTxs) \subseteq Elems(confirmTxs)'
            BY <1>8 DEF Elems
          <5>3. QED BY <1>6, <5>1, <5>2 DEF Sent
        <4>4. QED BY <4>2, <4>3
      <3>2. QED BY <1>6, <3>1 DEF SentInv, Sent
    <2>6. TxOrderInv'
      <3>1. CASE UNCHANGED confirmTxs
        BY <1>6, <2>2, <3>1 DEF TxOrderInv, Precedes
      <3>2. CASE confirmTxs' = Append(confirmTxs, i)
        <4> DEFINE n == Len(confirmTxs)
        <4>1. /\ DOMAIN confirmTxs' = 1..(n + 1) /\ confirmTxs'[n + 1] = i
              /\ \A k \in 1..n : confirmTxs'[k] = confirmTxs[k]
              /\ n \in Nat
          BY <1>7, <3>2
        <4> HIDE DEF n
        <4>2. SUFFICES ASSUME NEW k \in 1..(n + 1), NEW j \in Intents,
                              Precedes(j, confirmTxs'[k])
                       PROVE  j \in Confirmed \/ \E m \in 1..(k - 1) : confirmTxs'[m] = j
          BY <1>6, <4>1 DEF TxOrderInv, Precedes
        <4>3. CASE k \in 1..n
          <5>1. j \in Confirmed \/ \E m \in 1..(k - 1) : confirmTxs[m] = j
            BY <1>7, <2>2, <4>1, <4>2, <4>3 DEF TxOrderInv, n
          <5>2. \A m \in 1..(k - 1) : m \in 1..n
            BY <4>1, <4>3
          <5>3. QED BY <4>1, <5>1, <5>2
        <4>4. CASE k = n + 1
          <5>1. PICK p \in DOMAIN declared, q \in DOMAIN declared :
                  p < q /\ declared[p] = j /\ declared[q] = i
            BY <4>1, <4>2, <4>4 DEF Precedes
          <5>2. q = s
            BY <1>3, <1>4, <5>1 DEF OrderInv, LogInv
          <5>3. p \in 1..s /\ p # s
            BY <1>4, <5>1, <5>2, Positions
          <5>4. phase[Facilitator][declared[p]] = "none"
            BY <5>3, OnlyOne
          <5>5. Sent(j)
            BY <2>2, <5>1, <5>3, <5>4 DEF SentInv
          <5>6. CASE j \in Elems(confirmTxs)
            <6>1. PICK m \in 1..n : confirmTxs[m] = j
              BY <1>7, <5>6 DEF Elems, n
            <6>2. m \in 1..(k - 1) /\ confirmTxs'[m] = j
              BY <4>1, <4>4, <6>1
            <6>3. QED BY <6>2
          <5>7. QED BY <5>5, <5>6 DEF Sent
        <4>5. QED BY <4>1, <4>3, <4>4
      <3>3. QED BY <1>5, <3>1, <3>2
    <2>7. QED BY <2>3, <2>5, <2>6
  <1>12. QED BY <1>9, <1>10, <1>11 DEF OrderInv

\* The first confirmation on its way is mined: its predecessors were confirmed.
LEMMA OrderMine ==
  ASSUME IInv, OrderInv, MineConfirm
  PROVE  OrderInv'
PROOF
  <1> DEFINE h == Head(confirmTxs)
  <1> DEFINE n == Len(confirmTxs)
  <1>1. /\ confirmTxs # <<>> /\ confirmTxs' = Tail(confirmTxs)
        /\ UNCHANGED <<declared, loopVars, phase>>
    BY DEF MineConfirm
  <1>2. /\ confirmTxs \in Seq(Intents) /\ n \in Nat \ {0} /\ DOMAIN confirmTxs = 1..n
        /\ h = confirmTxs[1] /\ h \in Intents
        /\ DOMAIN confirmTxs' = 1..(n - 1)
        /\ \A k \in 1..(n - 1) : confirmTxs'[k] = confirmTxs[k + 1]
    BY <1>1, Types DEF IInv
  <1> HIDE DEF n
  <1>3. Elems(confirmTxs) = {h} \cup Elems(confirmTxs)'
    <2>1. ASSUME NEW x \in Elems(confirmTxs) PROVE x = h \/ x \in Elems(confirmTxs)'
      <3>1. PICK k \in 1..n : x = confirmTxs[k]
        BY <1>2, <2>1 DEF Elems
      <3>2. CASE k = 1
        BY <1>2, <3>1, <3>2
      <3>3. CASE k # 1
        <4>1. k - 1 \in 1..(n - 1) /\ confirmTxs'[k - 1] = x
          BY <1>2, <3>1, <3>3
        <4>2. QED BY <1>2, <4>1 DEF Elems
      <3>4. QED BY <3>2, <3>3
    <2>2. ASSUME NEW x \in Elems(confirmTxs)' PROVE x \in Elems(confirmTxs)
      <3>1. PICK k \in 1..(n - 1) : x = confirmTxs'[k]
        BY <1>2, <2>2 DEF Elems
      <3>2. k + 1 \in 1..n /\ confirmTxs[k + 1] = x
        BY <1>2, <3>1
      <3>3. QED BY <1>2, <3>2 DEF Elems
    <2>3. h \in Elems(confirmTxs)
      BY <1>2 DEF Elems
    <2>4. QED BY <2>1, <2>2, <2>3
  <1>4. \/ confirmed' = Append(confirmed, h) /\ Confirmed' = Confirmed \cup {h}
        \/ UNCHANGED confirmed /\ Confirmed' = Confirmed
    <2>1. Elems(Append(confirmed, h)) = Elems(confirmed) \cup {h}
      BY <1>2, Types, ElemsAppend DEF IInv
    <2>2. confirmed' = Append(confirmed, h) \/ UNCHANGED confirmed
      BY DEF MineConfirm
    <2>3. QED BY <2>1, <2>2 DEF Confirmed, Elems
  <1>5. Elems(declared)' = Elems(declared) /\ started' = started /\ cursor' = cursor
    BY <1>1 DEF Elems, loopVars
  <1>6. LogInv'
    BY <1>1, <1>3, <1>4, <1>5 DEF OrderInv, LogInv
  <1>7. AtInv'
    BY <1>1, <1>5 DEF OrderInv, AtInv
  <1>8. ASSUME faults' = 0 PROVE (PassInv /\ SentInv /\ TxOrderInv)'
    <2>1. faults = 0 /\ ~Fault
      <3>1. Fault \/ UNCHANGED faults
        BY DEF MineConfirm, NoFault
      <3>2. QED BY <1>8, <3>1, FaultsGrow DEF IInv
    <2>2. PassInv /\ SentInv /\ TxOrderInv
      BY <2>1 DEF OrderInv
    <2>3. Confirmed' = Confirmed \cup {h}
      <3>1. CASE AcceptsConfirm(h)
        <4>1. confirmed' = Append(confirmed, h)
          BY <2>1, <3>1 DEF MineConfirm
        <4>2. Elems(Append(confirmed, h)) = Elems(confirmed) \cup {h}
          BY <1>2, Types, ElemsAppend DEF IInv
        <4>3. QED BY <4>1, <4>2 DEF Confirmed, Elems
      <3>2. CASE ~AcceptsConfirm(h)
        <4>1. h \in Confirmed
          BY <1>2, <2>2, <3>2, AcceptsFirst DEF IInv, PassInv
        <4>2. QED BY <1>4, <4>1
      <3>3. QED BY <3>1, <3>2
    <2>4. \A i \in Intents : Precedes(i, h) => i \in Confirmed
      BY <1>2, <2>2 DEF TxOrderInv
    <2>5. PassInv'
      BY <1>1, <2>2, <2>3, <2>4 DEF PassInv, Precedes
    <2>6. SentInv'
      BY <1>1, <1>3, <1>5, <2>2, <2>3 DEF SentInv, Sent
    <2>7. TxOrderInv'
      <3>1. SUFFICES ASSUME NEW k \in 1..(n - 1), NEW i \in Intents, Precedes(i, confirmTxs'[k])
                     PROVE  i \in Confirmed' \/ \E m \in 1..(k - 1) : confirmTxs'[m] = i
        <4>1. \A i, j : Precedes(i, j)' <=> Precedes(i, j)
          BY <1>1 DEF Precedes
        <4>2. SUFFICES ASSUME NEW k \in DOMAIN confirmTxs', NEW i \in Intents,
                              Precedes(i, confirmTxs[k])'
                       PROVE  i \in Confirmed' \/ \E m \in 1..(k - 1) : confirmTxs'[m] = i
          BY DEF TxOrderInv
        <4>3. k \in 1..(n - 1) /\ Precedes(i, confirmTxs'[k])
          BY <1>1, <1>2, <4>2 DEF Precedes
        <4>4. QED BY <3>1, <4>3
      <3>2. k + 1 \in 1..n /\ confirmTxs'[k] = confirmTxs[k + 1]
        BY <1>2, <3>1
      <3>3. i \in Confirmed \/ \E m \in 1..((k + 1) - 1) : confirmTxs[m] = i
        BY <1>2, <2>2, <3>1, <3>2 DEF TxOrderInv
      <3>4. ASSUME NEW m \in 1..((k + 1) - 1), confirmTxs[m] = i, m # 1
            PROVE  m - 1 \in 1..(k - 1) /\ confirmTxs'[m - 1] = i
        <4>1. m - 1 \in 1..(k - 1) /\ m - 1 \in 1..(n - 1) /\ (m - 1) + 1 = m
          BY <1>2, <3>1, <3>4
        <4>2. QED BY <1>2, <3>4, <4>1
      <3>5. QED BY <1>2, <2>3, <3>3, <3>4
    <2>8. QED BY <2>5, <2>6, <2>7
  <1>9. QED BY <1>6, <1>7, <1>8 DEF OrderInv

\* The processor's steps.
LEMMA OrderProcessor ==
  ASSUME IInv, OrderInv,
         \/ \E i \in Intents : Send(i) \/ SendFails(i)
         \/ \E t \in txs : MineTx(t) \/ RevertTx(t) \/ PollFails(t)
  PROVE  OrderInv'
PROOF
  <1>1. /\ UNCHANGED <<declared, confirmed, confirmTxs, loopVars>>
        /\ Fault \/ UNCHANGED faults
    BY DEF Send, SendFails, MineTx, RevertTx, PollFails, Settle, NoFault, chainVars, countVars
  <1>2. UNCHANGED phase \/ \E i \in Intents, p \in Phases : Enter(Processor, i, p)
    <2>1. ASSUME NEW i \in Intents, Send(i) \/ SendFails(i)
          PROVE  UNCHANGED phase \/ Enter(Processor, i, "none")
      BY <2>1 DEF Send, SendFails
    <2>2. ASSUME NEW t \in txs, MineTx(t) \/ RevertTx(t) \/ PollFails(t)
          PROVE  \/ UNCHANGED phase
                 \/ t.intent \in Intents /\ \E p \in Phases : Enter(Processor, t.intent, p)
      <3>1. t.intent \in Intents
        BY Types DEF IInv, Txs
      <3>2. /\ AfterReceipt(t.call, TRUE) \in Phases /\ AfterReceipt(t.call, FALSE) \in Phases
            /\ "stuck" \in Phases
        BY DEF AfterReceipt, Phases, Calls
      <3>3. \/ UNCHANGED phase \/ Enter(Processor, t.intent, "stuck")
            \/ Enter(Processor, t.intent, AfterReceipt(t.call, TRUE))
            \/ Enter(Processor, t.intent, AfterReceipt(t.call, FALSE))
        BY <2>2 DEF MineTx, RevertTx, PollFails, Settle
      <3>4. QED BY <3>1, <3>2, <3>3
    <2>3. "none" \in Phases
      BY DEF Phases
    <2>4. QED BY <2>1, <2>2, <2>3
  <1>3. phase'[Facilitator] = phase[Facilitator]
    BY <1>2, Types, Positions DEF IInv, Enter
  <1>4. faults' = 0 => faults = 0
    BY <1>1, FaultsGrow DEF IInv
  <1>5. QED BY <1>1, <1>3, <1>4, OrderFrame DEF loopVars

\* The processor's loop, and a window of the facilitator that opens.
LEMMA OrderOtherLoop ==
  ASSUME IInv, OrderInv,
         \/ \E c \in Comms : OpenWindow(c)
         \/ StartHandler(Processor) \/ CloseWindow(Processor) \/ SaveFails(Processor)
         \/ Crash(Processor)
  PROVE  OrderInv'
PROOF
  <1>1. /\ UNCHANGED <<declared, confirmed, confirmTxs, faults>>
        /\ cursor'[Facilitator] = cursor[Facilitator]
        /\ started'[Facilitator] = started[Facilitator]
    BY Types, Positions DEF IInv, OpenWindow, StartHandler, CloseWindow, SaveFails, Crash, Rewind,
       chainVars, countVars
  <1>2. phase'[Facilitator] = phase[Facilitator]
    BY Types, Positions DEF IInv, OpenWindow, StartHandler, CloseWindow, SaveFails, Crash, Enter
  <1>3. QED BY <1>1, <1>2, OrderFrame

\* Every step keeps the order.
LEMMA OrderNext == IInv /\ OrderInv /\ [Next]_vars => OrderInv'
PROOF
  <1>1. SUFFICES ASSUME IInv, OrderInv, [Next]_vars PROVE OrderInv'
    OBVIOUS
  <1>2. \A c \in Comms : c = Facilitator \/ c = Processor
    BY DEF Comms
  <1>3. CASE \E i \in Intents : Declare(i)
    BY <1>1, <1>3, OrderDeclare
  <1>4. CASE \E c \in Comms : OpenWindow(c)
    BY <1>1, <1>4, OrderOtherLoop
  <1>5. CASE \E c \in Comms : StartHandler(c) \/ CloseWindow(c) \/ SaveFails(c) \/ Crash(c)
    BY <1>1, <1>2, <1>5, OrderStart, OrderLoop, OrderOtherLoop
  <1>6. CASE \E i \in Intents : SendConfirm(i) \/ ConfirmFails(i)
    BY <1>1, <1>6, OrderHandlerEnds
  <1>7. CASE MineConfirm
    BY <1>1, <1>7, OrderMine
  <1>8. CASE \/ \E i \in Intents : Send(i) \/ SendFails(i)
             \/ \E t \in txs : MineTx(t) \/ RevertTx(t) \/ PollFails(t)
    BY <1>1, <1>8, OrderProcessor
  <1>9. CASE UNCHANGED vars
    BY <1>1, <1>9, OrderFrame DEF vars, chainVars, loopVars, countVars
  <1>10. QED BY <1>1, <1>3, <1>4, <1>5, <1>6, <1>7, <1>8, <1>9 DEF Next

-----------------------------------------------------------------------------
\* Unless a request or a transaction failed, no intent of a staker is overtaken by
\* a later one, and so lost, whatever is killed and handled again.
THEOREM NoIntentPassedOverHolds == Spec => []NoIntentPassedOver
PROOF
  <1>1. Init => OrderInv
    BY DEF Init, OrderInv, LogInv, AtInv, PassInv, SentInv, TxOrderInv, Precedes, Confirmed, Elems,
           Comms
  <1>2. IInv /\ OrderInv => NoIntentPassedOver
    <2>1. SUFFICES ASSUME IInv, OrderInv, faults = 0,
                          NEW j \in DOMAIN declared, NEW k \in DOMAIN declared, j < k,
                          StakerOf[declared[j]] = StakerOf[declared[k]],
                          declared[k] \in Elems(confirmed)
                   PROVE  declared[j] \in Elems(confirmed)
      BY DEF NoIntentPassedOver
    <2>2. declared[j] \in Intents /\ declared[k] \in Intents
      BY <2>1, Positions
    <2>3. Precedes(declared[j], declared[k])
      BY <2>1 DEF Precedes
    <2>4. QED BY <2>1, <2>2, <2>3 DEF OrderInv, PassInv, Confirmed
  <1>3. QED BY <1>1, <1>2, OrderNext, StakeInvariant, PTL DEF Spec

-----------------------------------------------------------------------------
(* The processor.                                                          *)

At(i) == phase[Processor][i]

\* An intent is confirmed once.
Once == \A p, q \in DOMAIN confirmed : confirmed[p] = confirmed[q] => p = q

\* What has been done for an intent is known to its handler, or all of it was.
StageOf(i) ==
  /\ At(i) \in {"none"} \cup Calls
  /\ At(i) # "none" => \E p \in 1..started[Processor] : confirmed[p] = i
  /\ At(i) = "processMinting" => i \notin minted
  /\ At(i) = "claim" => i \in minted
  /\ i \in processed => At(i) \in {"processMinting", "claim"} \/ i \in claimed

\* A transaction is that of the handler that waits for it.
OwnTxInv == \A t \in txs : t.awaited /\ At(t.intent) = t.call

\* A handler was called for what was started, and has seen it through if it is gone.
Carried(p) ==
  IsInternal(confirmed[p]) =>
    confirmed[p] \in claimed \/ (cursor[Processor] < p /\ At(confirmed[p]) # "none")

CarryInv ==
  OwnTxInv /\ (\A i \in Intents : StageOf(i)) /\ \A p \in 1..started[Processor] : Carried(p)

Calm == crashes = 0 /\ faults = 0

\* The positions of the processor are positions of its log.
LEMMA ProcessorPositions ==
  ASSUME IInv
  PROVE  /\ confirmed \in Seq(Intents) /\ Len(confirmed) \in Nat
         /\ DOMAIN confirmed = 1..Len(confirmed)
         /\ cursor[Processor] \in Nat /\ started[Processor] \in Nat
         /\ window[Processor] \in Nat
         /\ cursor[Processor] <= started[Processor]
         /\ started[Processor] <= window[Processor]
         /\ window[Processor] <= Len(confirmed)
PROOF
  <1>1. confirmed \in Seq(Intents)
    BY Types DEF IInv
  <1>2. Facilitator # Processor /\ Processor \in Comms
    BY Positions
  <1>3. cursor[Processor] \in Nat /\ started[Processor] \in Nat /\ window[Processor] \in Nat
    BY <1>2, Types DEF IInv
  <1>4. /\ cursor[Processor] <= started[Processor]
        /\ started[Processor] <= window[Processor]
        /\ window[Processor] <= Len(confirmed)
    BY <1>2 DEF IInv, LoopInv, Log
  <1>5. QED BY <1>1, <1>3, <1>4

\* The log only grows, by an intent that is not in it.
LEMMA OnceNext ==
  ASSUME IInv, Once, [Next]_vars
  PROVE  Once' /\ \A p \in 1..Len(confirmed) : confirmed'[p] = confirmed[p]
PROOF
  <1>1. CASE UNCHANGED confirmed
    BY <1>1, ProcessorPositions DEF Once
  <1>2. CASE MineConfirm /\ ~UNCHANGED confirmed
    <2> DEFINE h == Head(confirmTxs)
    <2> DEFINE n == Len(confirmed)
    <2>1. h \notin Elems(confirmed) /\ confirmed' = Append(confirmed, h)
      BY <1>2 DEF MineConfirm, AcceptsConfirm
    <2>2. h \in Intents
      BY <1>2, Types DEF IInv, MineConfirm
    <2>3. /\ n \in Nat /\ DOMAIN confirmed = 1..n /\ DOMAIN confirmed' = 1..(n + 1)
          /\ confirmed'[n + 1] = h
          /\ \A k \in 1..n : confirmed'[k] = confirmed[k] /\ confirmed[k] # h
      BY <2>1, <2>2, ProcessorPositions DEF Elems
    <2> HIDE DEF h, n
    <2>4. ASSUME NEW p \in 1..(n + 1), NEW q \in 1..(n + 1), confirmed'[p] = confirmed'[q]
          PROVE  p = q
      <3>1. CASE p \in 1..n /\ q \in 1..n
        BY <2>3, <2>4, <3>1 DEF Once
      <3>2. CASE p = n + 1 \/ q = n + 1
        BY <2>3, <2>4, <3>2
      <3>3. QED BY <2>3, <3>1, <3>2
    <2>5. QED BY <2>3, <2>4 DEF Once, n
  <1>3. ~MineConfirm => UNCHANGED confirmed
    BY DEF Next, Declare, OpenWindow, StartHandler, CloseWindow, SaveFails, Crash, SendConfirm,
           ConfirmFails, Send, SendFails, MineTx, RevertTx, PollFails, Settle, chainVars, vars
  <1>4. QED BY <1>1, <1>2, <1>3

\* The processor is left alone, and so is what it has started.
LEMMA CarryFrame ==
  ASSUME IInv, CarryInv, UNCHANGED <<txs, processed, minted, claimed>>,
         phase'[Processor] = phase[Processor],
         started'[Processor] = started[Processor], cursor'[Processor] = cursor[Processor],
         \A p \in 1..Len(confirmed) : confirmed'[p] = confirmed[p]
  PROVE  CarryInv'
PROOF
  <1>1. \A p \in 1..started[Processor] : confirmed'[p] = confirmed[p]
    BY ProcessorPositions
  <1>2. \A i : At(i)' = At(i)
    BY DEF At
  <1>3. OwnTxInv'
    BY <1>2 DEF CarryInv, OwnTxInv
  <1>4. \A i \in Intents : StageOf(i)'
    BY <1>1, <1>2 DEF CarryInv, StageOf
  <1>5. \A p \in 1..started[Processor] : Carried(p)'
    BY <1>1, <1>2 DEF CarryInv, Carried, IsInternal, At
  <1>6. QED BY <1>3, <1>4, <1>5 DEF CarryInv

\* A handler is called: it finds its intent as nobody has touched it, or as one that
\* was carried through before.
LEMMA CarryStart ==
  ASSUME IInv, Once, CarryInv, StartHandler(Processor)
  PROVE  CarryInv'
PROOF
  <1> DEFINE s == started[Processor]
  <1>1. /\ s < window[Processor] /\ started' = [started EXCEPT ![Processor] = s + 1]
        /\ UNCHANGED <<confirmed, processed, minted, claimed, txs, cursor>>
    BY DEF StartHandler, chainVars
  <1>2. PICK i \in Intents :
          /\ s \in Nat /\ s + 1 \in DOMAIN confirmed /\ i = confirmed[s + 1]
          /\ \A p \in 1..s : p \in DOMAIN confirmed /\ p # s + 1
          /\ cursor[Processor] < s + 1
    BY <1>1, ProcessorPositions
  <1>3. started'[Processor] = s + 1
    BY <1>1, Types, Positions DEF IInv
  <1>4. At(i) = "none"
    BY <1>2 DEF CarryInv, StageOf, Once
  <1>5. \A j \in Intents :
          /\ j # i => At(j)' = At(j)
          /\ At(i)' = IF IsInternal(i) THEN "processStaking" ELSE "none"
    <2>1. Processor # Facilitator /\ "processStaking" \in Phases
      BY Positions DEF Phases, Calls
    <2>2. \/ IsInternal(i) /\ Enter(Processor, i, "processStaking")
          \/ ~IsInternal(i) /\ UNCHANGED phase
      BY <1>2, <2>1 DEF StartHandler, Log
    <2>3. CASE IsInternal(i)
      <3>1. /\ phase' \in [Comms -> [Intents -> Phases]]
            /\ \A d \in Comms, j \in Intents :
                 phase'[d][j] = IF d = Processor /\ j = i THEN "processStaking" ELSE phase[d][j]
        BY <2>1, <2>2, <2>3, Types, EnterType, Positions DEF IInv
      <3>2. QED BY <2>3, <3>1, Positions DEF At
    <2>4. CASE ~IsInternal(i)
      BY <1>4, <2>2, <2>4 DEF At
    <2>5. QED BY <2>3, <2>4
  <1> HIDE DEF s
  <1>6. OwnTxInv'
    <2>1. ASSUME NEW t \in txs PROVE t.awaited /\ At(t.intent)' = t.call
      <3>1. t.intent \in Intents /\ t.call \in Calls
        BY Types DEF IInv, Txs
      <3>2. t.awaited /\ At(t.intent) = t.call
        BY DEF CarryInv, OwnTxInv
      <3>3. t.intent # i
        BY <1>4, <3>1, <3>2 DEF Calls
      <3>4. QED BY <1>5, <3>1, <3>2, <3>3
    <2>2. QED BY <1>1, <2>1 DEF OwnTxInv
  <1>7. ASSUME NEW j \in Intents PROVE StageOf(j)'
    <2>1. \A p \in 1..s : p \in 1..(s + 1)
      BY <1>2
    <2>2. CASE j # i
      <3>1. StageOf(j) /\ At(j)' = At(j)
        BY <1>5, <2>2 DEF CarryInv
      <3>2. At(j) # "none" => \E p \in 1..(s + 1) : confirmed[p] = j
        BY <2>1, <3>1 DEF StageOf, s
      <3>3. QED BY <1>1, <1>3, <3>1, <3>2 DEF StageOf
    <2>3. CASE j = i
      <3>1. At(j)' \in {"none", "processStaking"}
        BY <1>5, <2>3
      <3>2. j \in processed => j \in claimed
        BY <1>2, <1>4, <2>3 DEF CarryInv, StageOf
      <3>3. s + 1 \in 1..(s + 1) /\ confirmed[s + 1] = j
        BY <1>2, <2>3
      <3>4. QED BY <1>1, <1>3, <3>1, <3>2, <3>3 DEF StageOf, Calls
    <2>4. QED BY <2>2, <2>3
  <1>8. ASSUME NEW p \in 1..(s + 1) PROVE Carried(p)'
    <2>1. CASE p = s + 1
      BY <1>1, <1>2, <1>5, <2>1 DEF Carried
    <2>2. CASE p \in 1..s
      <3>1. Carried(p) /\ confirmed[p] \in Intents
        BY <1>2, <2>2, ProcessorPositions DEF CarryInv, s
      <3>2. confirmed[p] # i
        BY <1>2, <2>2 DEF Once
      <3>3. QED BY <1>1, <1>5, <3>1, <3>2 DEF Carried, IsInternal
    <2>3. QED BY <1>2, <2>1, <2>2
  <1>9. QED BY <1>3, <1>6, <1>7, <1>8 DEF CarryInv

\* All handlers are done: nothing is left to be carried through.
LEMMA CarryLoop ==
  ASSUME IInv, CarryInv, CloseWindow(Processor) \/ SaveFails(Processor)
  PROVE  CarryInv'
PROOF
  <1>1. /\ Idle(Processor) /\ UNCHANGED <<confirmed, processed, minted, claimed, txs, phase>>
        /\ started'[Processor] \in {started[Processor], cursor[Processor]}
    BY Types, Positions DEF IInv, CloseWindow, SaveFails, HandlersSettled, Rewind, chainVars
  <1>2. \A i \in Intents : At(i) = "none" /\ At(i)' = "none"
    BY <1>1 DEF Idle, At
  <1>3. \A p \in 1..started'[Processor] :
          p \in 1..started[Processor] /\ confirmed[p] \in Intents
    BY <1>1, ProcessorPositions
  <1>4. OwnTxInv'
    BY <1>1 DEF CarryInv, OwnTxInv, At
  <1>5. \A i \in Intents : StageOf(i)'
    BY <1>1, <1>2 DEF CarryInv, StageOf
  <1>6. \A p \in 1..started'[Processor] : Carried(p)'
    BY <1>1, <1>2, <1>3 DEF CarryInv, Carried, IsInternal
  <1>7. QED BY <1>4, <1>5, <1>6 DEF CarryInv

\* A call is sent.
LEMMA CarrySend ==
  ASSUME IInv, CarryInv, NEW i \in Intents, Send(i)
  PROVE  CarryInv'
PROOF
  <1>1. /\ txs' = txs \cup {[call |-> At(i), intent |-> i, awaited |-> TRUE]}
        /\ UNCHANGED <<confirmed, processed, minted, claimed, started, cursor, phase>>
    BY DEF Send, At, chainVars, loopVars
  <1>2. OwnTxInv'
    BY <1>1 DEF CarryInv, OwnTxInv, At
  <1>3. QED BY <1>1, <1>2 DEF CarryInv, StageOf, Carried, IsInternal, At

\* A handler ends, with nothing left to do for its intent.
LEMMA CarryEnds ==
  ASSUME IInv, CarryInv, NEW i \in Intents,
         Enter(Processor, i, "none"), i \in claimed',
         txs' \subseteq txs, \A t \in txs' : t.intent # i,
         UNCHANGED <<confirmed, processed, minted, started, cursor>>, claimed \subseteq claimed'
  PROVE  CarryInv'
PROOF
  <1>1. \A j \in Intents : At(j)' = IF j = i THEN "none" ELSE At(j)
    BY Types, EnterType, Positions DEF IInv, At, Phases
  <1>2. OwnTxInv'
    <2>1. \A t \in txs : t.intent \in Intents
      BY Types DEF IInv, Txs
    <2>2. QED BY <1>1, <2>1 DEF CarryInv, OwnTxInv
  <1>3. \A j \in Intents : StageOf(j)'
    BY <1>1 DEF CarryInv, StageOf
  <1>4. \A p \in 1..started[Processor] : Carried(p)'
    <2>1. \A p \in 1..started[Processor] : confirmed[p] \in Intents
      BY ProcessorPositions
    <2>2. QED BY <1>1, <2>1 DEF CarryInv, Carried, IsInternal
  <1>5. QED BY <1>2, <1>3, <1>4 DEF CarryInv

\* A handler goes on to its next call.
LEMMA CarryGoesOn ==
  ASSUME IInv, CarryInv, NEW i \in Intents, NEW p \in {"processMinting", "claim"},
         Enter(Processor, i, p), At(i) # "none",
         p = "processMinting" => i \notin minted', p = "claim" => i \in minted',
         txs' \subseteq txs, \A t \in txs' : t.intent # i,
         \A j \in Intents : /\ j \in processed' => j \in processed \/ j = i
                            /\ j # i => (j \in minted' <=> j \in minted),
         UNCHANGED <<confirmed, claimed, started, cursor>>
  PROVE  CarryInv'
PROOF
  <1>1. \A j \in Intents : At(j)' = IF j = i THEN p ELSE At(j)
    BY Types, EnterType, Positions DEF IInv, At, Phases, Calls
  <1>2. OwnTxInv'
    <2>1. \A t \in txs : t.intent \in Intents
      BY Types DEF IInv, Txs
    <2>2. QED BY <1>1, <2>1 DEF CarryInv, OwnTxInv
  <1>3. ASSUME NEW j \in Intents PROVE StageOf(j)'
    <2>1. CASE j = i
      BY <1>1, <2>1 DEF CarryInv, StageOf, Calls
    <2>2. CASE j # i
      BY <1>1, <2>2 DEF CarryInv, StageOf
    <2>3. QED BY <2>1, <2>2
  <1>4. \A q \in 1..started[Processor] : Carried(q)'
    <2>1. \A q \in 1..started[Processor] : confirmed[q] \in Intents
      BY ProcessorPositions
    <2>2. QED BY <1>1, <2>1 DEF CarryInv, Carried, IsInternal
  <1>5. QED BY <1>2, <1>3, <1>4 DEF CarryInv

\* A call that the contract refuses is one that was made before.
LEMMA Refused ==
  ASSUME IInv, LogInv, CarryInv, NEW i \in Intents, At(i) \in Calls,
         ~Accepts(At(i), i) \/ (At(i) = "claim" /\ Unclaimed(i) = {})
  PROVE  i \in claimed
PROOF
  <1>1. i \in Elems(confirmed) /\ i \in Elems(declared)
    BY DEF IInv, HandlerInv, LogInv, Confirmed, At, Calls
  <1>2. StageOf(i)
    BY DEF CarryInv
  <1>3. CASE At(i) = "processStaking"
    BY <1>1, <1>2, <1>3 DEF Accepts, StageOf
  <1>4. CASE At(i) = "processMinting"
    BY <1>1, <1>2, <1>4 DEF Accepts, StageOf
  <1>5. CASE At(i) = "claim"
    BY <1>2, <1>5 DEF Accepts, StageOf, Unclaimed
  <1>6. QED BY <1>3, <1>4, <1>5 DEF Calls

\* Without failures, a call that cannot be sent has been made before.
LEMMA CarrySendFails ==
  ASSUME IInv, LogInv, CarryInv, NEW i \in Intents, SendFails(i), ~Fault
  PROVE  CarryInv'
PROOF
  <1>1. /\ At(i) \in Calls /\ Awaited(i) = {} /\ Enter(Processor, i, "none")
        /\ UNCHANGED <<confirmed, processed, minted, claimed, started, cursor, txs>>
    BY DEF SendFails, At, chainVars, loopVars
  <1>2. \A t \in txs : t.intent # i
    BY <1>1 DEF CarryInv, OwnTxInv, Awaited
  <1>3. ~Accepts(At(i), i) \/ (At(i) = "claim" /\ Unclaimed(i) = {})
    <2>1. [call |-> At(i), intent |-> i, awaited |-> FALSE] \notin txs
      BY <1>2
    <2>2. QED BY <2>1 DEF SendFails, At
  <1>4. i \in claimed
    BY <1>1, <1>3, Refused
  <1>5. QED BY <1>1, <1>2, <1>4, CarryEnds

\* A transaction ends, and its handler with it or goes on.
LEMMA CarryMine ==
  ASSUME IInv, LogInv, CarryInv, NEW t \in txs, MineTx(t) \/ RevertTx(t), ~Fault
  PROVE  CarryInv'
PROOF
  <1> DEFINE i == t.intent
  <1>1. /\ t \in Txs /\ i \in Intents /\ t.awaited /\ At(i) = t.call /\ t.call \in Calls
    BY Types DEF IInv, Txs, CarryInv, OwnTxInv
  <1>2. \A u \in txs \ {t} : u.intent # i
    <2>1. SUFFICES ASSUME NEW u \in txs, u.intent = i PROVE u = t
      OBVIOUS
    <2>2. u \in Txs /\ u.awaited /\ u.call = t.call
      BY <1>1, <2>1, Types DEF IInv, CarryInv, OwnTxInv
    <2>3. u.awaited = TRUE /\ t.awaited = TRUE
      BY <1>1, <2>2 DEF Txs
    <2>4. QED BY <1>1, <2>1, <2>2, <2>3 DEF Txs
  <1>3. /\ txs' = txs \ {t} /\ UNCHANGED <<confirmed, started, cursor>>
    BY DEF MineTx, RevertTx, Settle, loopVars
  <1>4. At(i) # "none"
    BY <1>1 DEF Calls
  <1>5. CASE RevertTx(t)
    <2>1. ~Accepts(At(i), i) \/ (At(i) = "claim" /\ Unclaimed(i) = {})
      BY <1>1, <1>5 DEF RevertTx
    <2>2. i \in claimed
      BY <1>1, <2>1, Refused
    <2>3. Enter(Processor, i, "none") /\ UNCHANGED <<processed, minted, claimed>>
      BY <1>1, <1>5 DEF RevertTx, Settle, AfterReceipt
    <2>4. QED BY <1>1, <1>2, <1>3, <2>2, <2>3, CarryEnds
  <1>6. CASE MineTx(t)
    <2>1. /\ Accepts(t.call, i) /\ Apply(t.call, i)
          /\ Enter(Processor, i, AfterReceipt(t.call, TRUE))
      BY <1>1, <1>6 DEF MineTx, Settle
    <2>2. CASE t.call = "processStaking"
      <3>1. /\ i \notin processed /\ processed' = processed \cup {i}
            /\ UNCHANGED <<minted, claimed>>
        BY <2>1, <2>2 DEF Accepts, Apply
      <3>2. i \notin minted
        BY <3>1 DEF IInv, StageInv
      <3>3. Enter(Processor, i, "processMinting")
        BY <2>1, <2>2 DEF AfterReceipt
      <3>4. QED BY <1>1, <1>2, <1>3, <1>4, <3>1, <3>2, <3>3, CarryGoesOn
    <2>3. CASE t.call = "processMinting"
      <3>1. minted' = minted \cup {i} /\ UNCHANGED <<processed, claimed>>
        BY <2>1, <2>3 DEF Apply
      <3>2. Enter(Processor, i, "claim")
        BY <2>1, <2>3 DEF AfterReceipt
      <3>3. QED BY <1>1, <1>2, <1>3, <1>4, <3>1, <3>2, CarryGoesOn
    <2>4. CASE t.call = "claim"
      <3>1. claimed' = claimed \cup Unclaimed(i) /\ UNCHANGED <<processed, minted>>
        BY <2>1, <2>4 DEF Apply
      <3>2. i \in minted
        BY <1>1, <2>4 DEF CarryInv, StageOf
      <3>3. i \in claimed'
        BY <3>1, <3>2 DEF Unclaimed
      <3>4. Enter(Processor, i, "none")
        BY <2>1, <2>4 DEF AfterReceipt
      <3>5. QED BY <1>1, <1>2, <1>3, <3>1, <3>3, <3>4, CarryEnds
    <2>5. QED BY <1>1, <2>2, <2>3, <2>4 DEF Calls
  <1>7. QED BY <1>5, <1>6

\* Every step.
LEMMA CarryNext ==
  IInv /\ OrderInv /\ Once /\ (Calm => CarryInv) /\ [Next]_vars => (Calm => CarryInv)'
PROOF
  <1>1. SUFFICES ASSUME IInv, OrderInv, Once, Calm => CarryInv, [Next]_vars,
                        crashes' = 0, faults' = 0
                 PROVE  CarryInv'
    BY DEF Calm
  <1>2. crashes \in Nat /\ faults \in Nat
    BY <1>1, Types DEF IInv
  <1>3. \A c \in Comms : ~Crash(c)
    BY <1>1, <1>2 DEF Crash
  <1>4. ~Fault
    BY <1>1, <1>2 DEF Fault
  <1>5. UNCHANGED <<crashes, faults>>
    BY <1>1, <1>3, <1>4 DEF Next, Declare, OpenWindow, StartHandler, CloseWindow, SaveFails,
       SendConfirm, ConfirmFails, MineConfirm, Send, SendFails, MineTx, RevertTx, PollFails, Settle,
       NoFault, countVars, vars
  <1>6. CarryInv /\ LogInv
    BY <1>1, <1>5 DEF Calm, OrderInv
  <1>7. \A p \in 1..Len(confirmed) : confirmed'[p] = confirmed[p]
    BY <1>1, OnceNext
  <1>8. \A c \in Comms : c = Facilitator \/ c = Processor
    BY DEF Comms
  <1>9. CASE \/ \E i \in Intents : Declare(i) \/ SendConfirm(i) \/ ConfirmFails(i)
             \/ MineConfirm \/ UNCHANGED vars
             \/ \E c \in Comms : OpenWindow(c)
             \/ StartHandler(Facilitator) \/ CloseWindow(Facilitator) \/ SaveFails(Facilitator)
    <2>1. /\ UNCHANGED <<txs, processed, minted, claimed>>
          /\ started'[Processor] = started[Processor] /\ cursor'[Processor] = cursor[Processor]
      BY <1>1, <1>9, Types, Positions DEF IInv, Declare, SendConfirm, ConfirmFails, MineConfirm,
         OpenWindow, StartHandler, CloseWindow, SaveFails, Rewind, vars, chainVars, loopVars
    <2>2. phase'[Processor] = phase[Processor]
      BY <1>1, <1>9, Types, Positions DEF IInv, Declare, SendConfirm, ConfirmFails, MineConfirm,
         OpenWindow, StartHandler, CloseWindow, SaveFails, Enter, vars
    <2>3. QED BY <1>1, <1>6, <1>7, <2>1, <2>2, CarryFrame
  <1>10. CASE StartHandler(Processor) \/ CloseWindow(Processor) \/ SaveFails(Processor)
    BY <1>1, <1>6, <1>10, CarryStart, CarryLoop
  <1>11. CASE \E i \in Intents : Send(i) \/ SendFails(i)
    BY <1>1, <1>4, <1>6, <1>11, CarrySend, CarrySendFails
  <1>12. CASE \E t \in txs : MineTx(t) \/ RevertTx(t)
    BY <1>1, <1>4, <1>6, <1>12, CarryMine
  <1>13. CASE \E t \in txs : PollFails(t)
    BY <1>4, <1>13 DEF PollFails
  <1>14. QED BY <1>1, <1>3, <1>8, <1>9, <1>10, <1>11, <1>12, <1>13 DEF Next

\* Without kills and failures, a stake that the processor's checkpoint has passed was
\* processed, minted and claimed, windows that are handled again included.
THEOREM CarriedThroughHolds == Spec => []CarriedThrough
PROOF
  <1>1. Init => OrderInv
    BY DEF Init, OrderInv, LogInv, AtInv, PassInv, SentInv, TxOrderInv, Precedes, Confirmed, Elems,
           Comms
  <1>2. Init => Once /\ (Calm => CarryInv)
    BY DEF Init, Once, CarryInv, OwnTxInv, StageOf, Carried, At, Comms
  <1>3. IInv /\ Once /\ [Next]_vars => Once'
    BY OnceNext
  <1>4. IInv /\ (Calm => CarryInv) => CarriedThrough
    <2>1. SUFFICES ASSUME IInv, CarryInv, NEW k \in 1..cursor[Processor], IsInternal(confirmed[k])
                   PROVE  confirmed[k] \in claimed
      BY DEF CarriedThrough, Behind, Calm
    <2>2. k \in 1..started[Processor] /\ ~(cursor[Processor] < k)
      BY <2>1, ProcessorPositions
    <2>3. QED BY <2>1, <2>2 DEF CarryInv, Carried
  <1>5. QED BY <1>1, <1>2, <1>3, <1>4, OrderNext, CarryNext, StakeInvariant, PTL DEF Spec
=============================================================================
