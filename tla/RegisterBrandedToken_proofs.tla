--------------------- MODULE RegisterBrandedToken_proofs ---------------------
(***************************************************************************)
(* Proofs about RegisterBrandedToken, for any number of tools, tokens,     *)
(* kills and failures: IInv is inductive, the value chain follows the      *)
(* utility chain, and the file of branded tokens tells the truth.          *)
(***************************************************************************)
EXTENDS RegisterBrandedToken, TLAPS

-----------------------------------------------------------------------------
(* The conversion of basic_helper.js.                                      *)

\* A factor that is accepted has a rate of at least one.
LEMMA RateOfFactor ==
  ASSUME NEW factor \in Int, convertConversionFactorToConversionRate(factor).ok
  PROVE  /\ convertConversionFactorToConversionRate(factor).rate \in Nat \ {0}
         /\ factor = 10 * convertConversionFactorToConversionRate(factor).rate
PROOF
  <1>1. RateStep = 10
    BY DEF RateStep, Pow10, Digits, Decimals
  <1>2. factor > 0 /\ factor % 10 = 0
    BY <1>1 DEF convertConversionFactorToConversionRate, isBTConversionFactorValid, Failure
  <1>3. convertConversionFactorToConversionRate(factor).rate = factor \div 10
    BY <1>1, <1>2 DEF convertConversionFactorToConversionRate, isBTConversionFactorValid
  <1>4. factor \div 10 \in Nat \ {0} /\ factor = 10 * (factor \div 10)
    BY <1>2
  <1>5. QED BY <1>3, <1>4

\* A rate that was made from a factor is converted back to that factor.
THEOREM RateReadsBack ==
  ASSUME NEW factor \in Int, convertConversionFactorToConversionRate(factor).ok
  PROVE  convertConversionRateToConversionFactor(
           convertConversionFactorToConversionRate(factor).rate, Decimals) = factor
PROOF
  <1> DEFINE rate == convertConversionFactorToConversionRate(factor).rate
  <1>1. rate \in Nat \ {0} /\ factor = 10 * rate
    BY RateOfFactor
  <1>2. isBTConversionRateValid(rate) /\ isBTConversionRateDecimalsValid(Decimals)
    BY <1>1 DEF isBTConversionRateValid, isBTConversionRateDecimalsValid, Decimals
  <1>3. convertConversionRateToConversionFactor(rate, Decimals) = rate * Pow10(Digits - Decimals)
    BY <1>2 DEF convertConversionRateToConversionFactor
  <1>4. Pow10(Digits - Decimals) = 10
    BY DEF Pow10, Digits, Decimals
  <1>5. QED BY <1>1, <1>3, <1>4

\* Rates of tokens that can be proposed.
LEMMA ProposableRate ==
  ASSUME NEW u \in Uuids, Proposable(u)
  PROVE  /\ Rate(u).rate \in Nat \ {0}
         /\ convertConversionRateToConversionFactor(Rate(u).rate, Decimals) = FactorOf[u]
PROOF
  <1>1. FactorOf[u] \in Int
    BY RegisterBrandedTokenAssumption
  <1>2. QED BY <1>1, RateOfFactor, RateReadsBack DEF Rate, Proposable

-----------------------------------------------------------------------------
(* The invariant.                                                          *)

LEMMA EmptyFile == Empty \in Files /\ \A u \in Uuids : Empty[u] = NoEntry
PROOF
  BY DEF Empty, Files, NoEntry

\* The initial states satisfy the invariant.
LEMMA TruthInit == Init => TruthInv
PROOF
  <1>1. SUFFICES ASSUME Init PROVE TruthInv
    OBVIOUS
  <1>2. read \in [Tools -> Files] /\ file \in Files
    BY <1>1, EmptyFile DEF Init
  <1>3. TypeOK
    <2>1. damaged \in BOOLEAN /\ raced \in BOOLEAN
      BY <1>1 DEF Init
    <2>2. crashes \in 0..MaxCrashes /\ kills \in 0..MaxKills /\ faults \in 0..MaxFaults
      BY <1>1, RegisterBrandedTokenAssumption DEF Init
    <2>3. QED BY <1>1, <1>2, <2>1, <2>2 DEF Init, TypeOK, Phases, Steps, Txs
  <1>4. HandlerInv /\ TxInv /\ ChainInv
    BY <1>1 DEF Init, HandlerInv, TxInv, ChainInv
  <1>5. ToolInv
    BY <1>1, EmptyFile DEF Init, ToolInv, Updating
  <1>6. QED BY <1>3, <1>4, <1>5 DEF TruthInv

\* The type facts the steps rest on, each on its own.
LEMMA Types ==
  ASSUME TypeOK
  PROVE  /\ uuidOf \in [Tools -> Uuids]
         /\ onUC \in [Uuids -> Tools \cup {None}] /\ onVC \in [Uuids -> Nat]
         /\ phase \in [Tools -> Phases] /\ txs \subseteq Txs
         /\ step \in [Tools -> Steps]
         /\ erc20 \in [Tools -> Tools \cup {None}]
         /\ crashes \in Nat /\ kills \in Nat /\ faults \in Nat
         /\ None \notin Tools
PROOF
  BY RegisterBrandedTokenAssumption DEF TypeOK

\* Failures stay within their bound.
LEMMA FaultBound ==
  ASSUME TypeOK, Fault \/ UNCHANGED faults
  PROVE  faults' \in 0..MaxFaults
PROOF
  BY RegisterBrandedTokenAssumption DEF TypeOK, Fault

\* Transactions nobody waits for any more.
LEMMA Unawaited ==
  ASSUME NEW x \in Txs
  PROVE  /\ [x EXCEPT !.awaited = FALSE] \in Txs
         /\ [x EXCEPT !.awaited = FALSE].call = x.call
         /\ [x EXCEPT !.awaited = FALSE].token = x.token
PROOF
  BY DEF Txs

\* What is registered stays registered: both registries only gain, and what is
\* known of a token goes on to hold.
LEMMA StaysReliable ==
  ASSUME TypeOK, ChainInv, UNCHANGED uuidOf,
         \A u \in Uuids : onUC[u] # None => onUC'[u] = onUC[u],
         \A u \in Uuids : onVC[u] # 0 => onVC'[u] = onVC[u],
         UNCHANGED <<read, file, erc20>>, UNCHANGED step, ToolInv
  PROVE  ToolInv'
PROOF
  <1>1. \A u \in Uuids : onVC[u] # 0 => onUC'[u] = onUC[u] /\ onVC'[u] # 0
    BY DEF ChainInv
  <1>2. ASSUME NEW u \in Uuids, NEW e, Reliable(u, e) PROVE Reliable(u, e)'
    BY <1>1, <1>2 DEF Reliable
  <1>3. ASSUME NEW t \in Tools, step'[t] \in {"load", "allocate"} \cup Updating
        PROVE  erc20'[t] = onUC'[uuidOf'[t]] /\ onVC'[uuidOf'[t]] # 0
    <2>1. uuidOf[t] \in Uuids
      BY Types
    <2>2. QED BY <1>1, <1>3, <2>1 DEF ToolInv
  <1>4. \A t \in Tools, u \in Uuids : read'[t][u] # NoEntry => Reliable(u, read[t][u])'
    BY <1>2 DEF ToolInv
  <1>5. \A u \in Uuids : file'[u] # NoEntry => Reliable(u, file[u])'
    BY <1>2 DEF ToolInv
  <1>6. QED BY <1>3, <1>4, <1>5 DEF ToolInv, Reliable

-----------------------------------------------------------------------------
(* register.js.                                                            *)

\* The tool before its proposal is sent: it touches nothing but its own step.
LEMMA EarlyStep ==
  ASSUME TruthInv, NEW t \in Tools,
         \/ _validateBrandedTokenDetails(t) \/ _generateAddress(t) \/ _propose(t)
         \/ StatusFails(t) \/ Kill(t)
  PROVE  TruthInv'
PROOF
  <1>1. TypeOK
    BY DEF TruthInv
  <1>2. UNCHANGED <<chainVars, commVars, erc20, read, file, uuidOf, shards, raced, crashes>>
    BY DEF _validateBrandedTokenDetails, _generateAddress, _propose, StatusFails, Kill, bounds,
           fileVars
  <1>3. \E s \in Steps \ ({"load", "allocate"} \cup Updating) : step' = [step EXCEPT ![t] = s]
    BY DEF _validateBrandedTokenDetails, _generateAddress, _propose, StatusFails, Kill, Go, Steps,
           Updating
  <1>4. step' \in [Tools -> Steps]
    BY <1>1, <1>3, Types
  <1>5. \A q \in Tools : step'[q] \in {"load", "allocate"} \cup Updating => step'[q] = step[q]
    BY <1>1, <1>3, Types
  <1>6. \/ UNCHANGED proposal
        \/ /\ proposal' = [proposal EXCEPT ![t] = "pending"]
           /\ Proposable(uuidOf[t])
           /\ step[t] = "propose"
    BY DEF _validateBrandedTokenDetails, _generateAddress, _propose, StatusFails, Kill
  <1>7. faults' \in 0..MaxFaults /\ kills' \in 0..MaxKills
    BY <1>1, Types, RegisterBrandedTokenAssumption
       DEF TypeOK, _validateBrandedTokenDetails, _generateAddress, _propose, StatusFails, Kill,
           bounds, Fault, NoFault
  <1>8. torn' \in Tools \cup {None} /\ damaged' \in BOOLEAN
    BY <1>1 DEF TypeOK, _validateBrandedTokenDetails, _generateAddress, _propose, StatusFails, Kill,
           fileVars
  <1>9. TypeOK'
    BY <1>1, <1>2, <1>4, <1>6, <1>7, <1>8 DEF TypeOK, chainVars, commVars
  <1>10. HandlerInv' /\ TxInv'
    BY <1>2 DEF TruthInv, HandlerInv, TxInv, RegisteredUC, chainVars, commVars
  <1>11. ChainInv'
    <2>1. \A q \in Tools : step'[q] \in {"validate", "address", "propose"} =>
                            /\ step[q] \in {"validate", "address", "propose"}
                            /\ proposal'[q] = proposal[q]
      BY <1>1, Types
         DEF _validateBrandedTokenDetails, _generateAddress, _propose, StatusFails, Kill, Go, TypeOK
    <2>2. t \in proposed => step[t] # "propose"
      BY DEF TruthInv, ChainInv
    <2>3. QED BY <1>1, <1>2, <1>6, <2>1, <2>2
              DEF TruthInv, ChainInv, TypeOK, chainVars, Proposable, Rate
  <1>12. ToolInv'
    BY <1>2, <1>5 DEF TruthInv, ToolInv, Reliable, chainVars
  <1>13. QED BY <1>9, <1>10, <1>11, <1>12 DEF TruthInv

\* The proposal is mined, or reverted.
LEMMA MineProposalStep ==
  ASSUME TruthInv, NEW t \in Tools, MineProposal(t)
  PROVE  TruthInv'
PROOF
  <1>1. TypeOK
    BY DEF TruthInv
  <1>2. /\ proposal[t] = "pending"
        /\ \/ /\ proposal' = [proposal EXCEPT ![t] = "mined"]
              /\ proposed' = proposed \cup {t}
           \/ /\ proposal' = [proposal EXCEPT ![t] = "reverted"]
              /\ UNCHANGED proposed
        /\ UNCHANGED <<onUC, onVC, commVars, step, erc20, read, fileVars, uuidOf, shards, raced,
                       crashes, kills>>
    BY DEF MineProposal
  <1>3. faults' \in 0..MaxFaults
    BY <1>1, Types, RegisterBrandedTokenAssumption DEF TypeOK, MineProposal, Fault, NoFault
  <1>4. TypeOK'
    BY <1>1, <1>2, <1>3 DEF TypeOK, commVars, fileVars
  <1>5. HandlerInv' /\ TxInv'
    BY <1>2 DEF TruthInv, HandlerInv, TxInv, RegisteredUC, commVars
  <1>6. Proposable(uuidOf[t]) /\ step[t] \notin {"validate", "address", "propose"}
    BY <1>2 DEF TruthInv, ChainInv
  <1>7. t \notin proposed
    BY <1>2 DEF TruthInv, ChainInv
  <1>8. ChainInv'
    BY <1>1, <1>2, <1>6, <1>7 DEF TruthInv, ChainInv, TypeOK, Proposable, Rate
  <1>9. ToolInv'
    BY <1>2 DEF TruthInv, ToolInv, Reliable, fileVars
  <1>10. QED BY <1>4, <1>5, <1>8, <1>9 DEF TruthInv

\* The status tells the tool that its token is registered on both chains, and
\* under which address.
LEMMA StatusStep ==
  ASSUME TruthInv, NEW t \in Tools, _checkProposeStatus(t)
  PROVE  TruthInv'
PROOF
  <1>1. TypeOK
    BY DEF TruthInv
  <1>2. /\ erc20' = [erc20 EXCEPT ![t] = onUC[uuidOf[t]]]
        /\ step' = [step EXCEPT ![t] = "load"]
        /\ UNCHANGED <<chainVars, commVars, proposal, read, fileVars, uuidOf, shards, raced, bounds>>
    BY DEF _checkProposeStatus, Go
  <1>3. uuidOf[t] \in Uuids /\ onUC[uuidOf[t]] \in Tools \cup {None} /\ onVC[uuidOf[t]] \in Nat
    BY <1>1, Types
  <1>4. onVC[uuidOf[t]] # 0
    BY <1>3 DEF _checkProposeStatus, is_registered_on_vc,
                convertConversionRateToConversionFactor, isBTConversionRateValid
  <1>5. TypeOK'
    BY <1>1, <1>2, <1>3 DEF TypeOK, chainVars, commVars, fileVars, bounds, Steps
  <1>6. HandlerInv' /\ TxInv'
    BY <1>2 DEF TruthInv, HandlerInv, TxInv, RegisteredUC, chainVars, commVars
  <1>7. ChainInv'
    BY <1>1, <1>2 DEF TruthInv, ChainInv, TypeOK, Proposable, Rate, chainVars
  <1>8. ToolInv'
    BY <1>1, <1>2, <1>4, Types DEF TruthInv, ToolInv, Reliable, chainVars, fileVars, Updating
  <1>9. QED BY <1>5, <1>6, <1>7, <1>8 DEF TruthInv

\* The tool reads the file, starts to write it, writes it, and allocates a shard.
LEMMA FileStep ==
  ASSUME TruthInv, NEW t \in Tools,
         LoadConfig(t) \/ _writeJsonFile(t) \/ _updateBrandedTokenConfig(t) \/ _allocateShard(t)
  PROVE  TruthInv'
PROOF
  <1>1. TypeOK /\ uuidOf[t] \in Uuids
    BY Types DEF TruthInv
  <1>2. UNCHANGED <<chainVars, commVars, proposal, erc20, uuidOf, crashes, kills>>
    BY DEF LoadConfig, _writeJsonFile, _updateBrandedTokenConfig, _allocateShard, bounds
  <1>3. PICK s \in Steps \ {"validate", "address", "propose"} : step' = [step EXCEPT ![t] = s]
    BY DEF LoadConfig, _writeJsonFile, _updateBrandedTokenConfig, _allocateShard, Go, Steps
  <1>4. step[t] \in {"load", "allocate"} \cup Updating
    BY DEF LoadConfig, _writeJsonFile, _updateBrandedTokenConfig, _allocateShard, Updating
  <1>5. erc20[t] = onUC[uuidOf[t]] /\ onVC[uuidOf[t]] # 0
    BY <1>4 DEF TruthInv, ToolInv
  <1>6. erc20[t] \in Tools
    <2>1. onUC[uuidOf[t]] # None
      BY <1>1, <1>5 DEF TruthInv, ChainInv
    <2>2. QED BY <1>1, <1>5, <2>1, Types
  <1>7. read' \in [Tools -> Files] /\ file' \in Files
    <2>1. [reserve |-> t, erc20 |-> erc20[t]] \in Entries
      BY <1>6 DEF Entries
    <2>2. read[t] \in Files
      BY <1>1 DEF TypeOK
    <2>3. WithEntry(t) \in Files
      BY <1>1, <2>1, <2>2 DEF WithEntry, Files
    <2>4. QED BY <1>1, <2>3 DEF TypeOK, LoadConfig, _writeJsonFile, _updateBrandedTokenConfig,
                                _allocateShard, fileVars
  <1>8. /\ torn' \in Tools \cup {None} /\ damaged' \in BOOLEAN
        /\ shards' \subseteq Tools /\ faults' \in 0..MaxFaults
    <2>1. torn' \in Tools \cup {None} /\ shards' \subseteq Tools
      BY <1>1, <1>6 DEF TypeOK, LoadConfig, _writeJsonFile, _updateBrandedTokenConfig,
                        _allocateShard, fileVars
    <2>2. damaged' = damaged \/ damaged' = FALSE
      BY DEF LoadConfig, _writeJsonFile, _updateBrandedTokenConfig, _allocateShard, fileVars
    <2>3. Fault \/ UNCHANGED faults
      BY DEF LoadConfig, _writeJsonFile, _updateBrandedTokenConfig, _allocateShard, bounds, NoFault
    <2>4. damaged' \in BOOLEAN
      BY <1>1, <2>2 DEF TypeOK
    <2>5. QED BY <1>1, <2>1, <2>3, <2>4, FaultBound
  <1>9. raced' \in BOOLEAN
    BY <1>1 DEF TypeOK, LoadConfig, _writeJsonFile, _updateBrandedTokenConfig, _allocateShard
  <1>10. TypeOK'
    BY <1>1, <1>2, <1>3, <1>7, <1>8, <1>9 DEF TypeOK, chainVars, commVars
  <1>11. HandlerInv' /\ TxInv'
    BY <1>2 DEF TruthInv, HandlerInv, TxInv, RegisteredUC, chainVars, commVars
  <1>12. ChainInv'
    BY <1>1, <1>2, <1>3 DEF TruthInv, ChainInv, TypeOK, Proposable, Rate, chainVars
  <1>13. \A q \in Tools, u \in Uuids : read'[q][u] # NoEntry => Reliable(u, read'[q][u])
    BY <1>1 DEF TruthInv, ToolInv, TypeOK, LoadConfig, _writeJsonFile, _updateBrandedTokenConfig,
                _allocateShard
  <1>14. \A u \in Uuids : file'[u] # NoEntry => Reliable(u, file'[u])
    <2>1. CASE file' = WithEntry(t)
      <3>1. /\ file'[uuidOf[t]] = [reserve |-> t, erc20 |-> erc20[t]]
            /\ \A u \in Uuids \ {uuidOf[t]} : file'[u] = read[t][u]
        BY <1>1, <2>1 DEF WithEntry, TypeOK, Files
      <3>2. Reliable(uuidOf[t], file'[uuidOf[t]])
        BY <1>5, <3>1 DEF Reliable
      <3>3. QED BY <3>1, <3>2 DEF TruthInv, ToolInv
    <2>2. CASE file' = file
      BY <2>2 DEF TruthInv, ToolInv
    <2>3. QED BY <2>1, <2>2 DEF LoadConfig, _writeJsonFile, _updateBrandedTokenConfig,
                                _allocateShard, fileVars
  <1>15. ToolInv'
    <2>1. \A q \in Tools : step'[q] \in {"load", "allocate"} \cup Updating =>
                             step[q] \in {"load", "allocate"} \cup Updating
      BY <1>1, <1>3, <1>4, Types
    <2>2. QED BY <1>2, <1>13, <1>14, <2>1 DEF TruthInv, ToolInv, Reliable, chainVars
  <1>16. QED BY <1>10, <1>11, <1>12, <1>15 DEF TruthInv

-----------------------------------------------------------------------------
(* The communicator.                                                       *)

\* A step that changes nothing but the phases of events and the transactions that
\* are waited for.
LEMMA CommStep ==
  ASSUME TruthInv,
         UNCHANGED <<chainVars, toolVars, fileVars, uuidOf, shards, raced, kills>>,
         phase' \in [Tools -> Phases], txs' \subseteq Txs,
         crashes' \in 0..MaxCrashes, faults' \in 0..MaxFaults,
         \A t \in Tools : \/ phase'[t] = phase[t]
                          \/ /\ phase'[t] # "registerUtilityToken"
                             /\ t \in proposed,
         \A x \in txs' : \/ \E y \in txs : x.call = y.call /\ x.token = y.token
                         \/ x.token \in Tools /\ x.call = phase[x.token] /\ phase[x.token] \in Calls
  PROVE  TruthInv'
PROOF
  <1>1. TypeOK'
    BY DEF TruthInv, TypeOK, chainVars, toolVars, fileVars
  <1>2. HandlerInv'
    BY DEF TruthInv, HandlerInv, RegisteredUC, chainVars
  <1>3. TxInv'
    <2>1. SUFFICES ASSUME NEW x \in txs'
                   PROVE  /\ x.token \in proposed
                          /\ x.call = "registerUtilityToken" => RegisteredUC(uuidOf[x.token])
      BY DEF TxInv, RegisteredUC, chainVars
    <2>2. CASE \E y \in txs : x.call = y.call /\ x.token = y.token
      BY <2>2 DEF TruthInv, TxInv
    <2>3. CASE x.token \in Tools /\ x.call = phase[x.token] /\ phase[x.token] \in Calls
      BY <2>3 DEF TruthInv, HandlerInv, Calls
    <2>4. QED BY <2>1, <2>2, <2>3
  <1>4. ChainInv' /\ ToolInv'
    BY DEF TruthInv, ChainInv, ToolInv, Reliable, Proposable, Rate, chainVars, toolVars, fileVars
  <1>5. QED BY <1>1, <1>2, <1>3, <1>4 DEF TruthInv

\* Windows open and close.
LEMMA WindowStep ==
  ASSUME TruthInv, OpenWindow \/ Checkpoint \/ NoCheckpoint
  PROVE  TruthInv'
PROOF
  <1>1. TypeOK
    BY DEF TruthInv
  <1>2. UNCHANGED <<chainVars, toolVars, fileVars, uuidOf, shards, raced, bounds, txs>>
    BY DEF OpenWindow, Checkpoint, NoCheckpoint, CloseWindow
  <1>3. /\ phase' \in [Tools -> Phases]
        /\ \A t \in Tools : \/ phase'[t] = phase[t]
                            \/ phase'[t] # "registerUtilityToken" /\ t \in proposed
    <2>1. CASE OpenWindow
      <3>1. PICK W \in SUBSET {t \in proposed : phase[t] = "none"} :
              phase' = [t \in Tools |-> IF t \in W THEN "registerBrandedToken" ELSE phase[t]]
        BY <2>1 DEF OpenWindow
      <3>2. QED BY <1>1, <3>1, Types DEF Phases, Calls
    <2>2. ASSUME NEW p \in {"past", "none"}, CloseWindow(p)
          PROVE  /\ phase' \in [Tools -> Phases]
                 /\ \A t \in Tools : \/ phase'[t] = phase[t]
                                     \/ phase'[t] # "registerUtilityToken" /\ t \in proposed
      <3>1. phase' = [t \in Tools |-> IF phase[t] = "settled" THEN p ELSE phase[t]]
        BY <2>2 DEF CloseWindow
      <3>2. \A t \in Tools : phase[t] = "settled" => t \in proposed
        BY DEF TruthInv, HandlerInv
      <3>3. QED BY <1>1, <3>1, <3>2, Types DEF Phases
    <2>3. QED BY <2>1, <2>2 DEF Checkpoint, NoCheckpoint
  <1>4. /\ txs' \subseteq Txs /\ crashes' \in 0..MaxCrashes /\ faults' \in 0..MaxFaults
        /\ UNCHANGED kills
    BY <1>1, <1>2 DEF TypeOK, bounds
  <1>5. \A x \in txs' : \E y \in txs : x.call = y.call /\ x.token = y.token
    BY <1>2
  <1>6. QED BY <1>2, <1>3, <1>4, <1>5, CommStep

\* A handler sends a registration, or is rejected.
LEMMA RegisterStep ==
  ASSUME TruthInv, NEW t \in Tools, Register(t) \/ RegisterFails(t)
  PROVE  TruthInv'
PROOF
  <1>1. TypeOK /\ phase[t] \in Calls /\ t \in proposed
    BY DEF TruthInv, HandlerInv, Register, RegisterFails, Calls
  <1>2. UNCHANGED <<chainVars, toolVars, fileVars, uuidOf, shards, raced, crashes, kills>>
    BY DEF Register, RegisterFails, bounds
  <1>3. CASE Register(t)
    <2>1. /\ txs' = txs \cup {[call |-> phase[t], token |-> t, awaited |-> TRUE]}
          /\ UNCHANGED <<phase, bounds>>
      BY <1>3 DEF Register
    <2>2. [call |-> phase[t], token |-> t, awaited |-> TRUE] \in Txs
      BY <1>1 DEF Txs
    <2>3. /\ phase' \in [Tools -> Phases] /\ txs' \subseteq Txs
          /\ crashes' \in 0..MaxCrashes /\ faults' \in 0..MaxFaults
      BY <1>1, <2>1, <2>2 DEF TypeOK, bounds
    <2>4. \A x \in txs' : \/ \E y \in txs : x.call = y.call /\ x.token = y.token
                          \/ x.token \in Tools /\ x.call = phase[x.token] /\ phase[x.token] \in Calls
      BY <1>1, <2>1
    <2>5. QED BY <1>2, <2>1, <2>3, <2>4, CommStep
  <1>4. CASE RegisterFails(t)
    <2>1. phase' = [phase EXCEPT ![t] = "settled"] /\ UNCHANGED txs
      BY <1>4 DEF RegisterFails, Enter
    <2>2. /\ phase' \in [Tools -> Phases]
          /\ \A q \in Tools : phase'[q] = phase[q] \/ (phase'[q] = "settled" /\ q = t)
      BY <1>1, <2>1, Types DEF Phases
    <2>3. faults' \in 0..MaxFaults /\ crashes' \in 0..MaxCrashes /\ txs' \subseteq Txs
      BY <1>1, <1>2, <1>4, <2>1, Types, RegisterBrandedTokenAssumption
         DEF TypeOK, RegisterFails, Fault, NoFault
    <2>4. \A x \in txs' : \E y \in txs : x.call = y.call /\ x.token = y.token
      BY <2>1
    <2>5. QED BY <1>1, <1>2, <2>2, <2>3, <2>4, CommStep
  <1>5. QED BY <1>3, <1>4

\* A poll breaks off, or the process is killed.
LEMMA CutStep ==
  ASSUME TruthInv, Crash \/ \E x \in txs : PollFails(x)
  PROVE  TruthInv'
PROOF
  <1>1. TypeOK
    BY DEF TruthInv
  <1>2. CASE Crash
    <2>1. UNCHANGED <<chainVars, toolVars, fileVars, uuidOf, shards, raced, kills, faults>>
      BY <1>2 DEF Crash
    <2>2. /\ phase' \in [Tools -> Phases]
          /\ \A t \in Tools : \/ phase'[t] = phase[t]
                              \/ phase'[t] = "none" /\ phase[t] # "none"
      BY <1>1, <1>2, Types DEF Crash, Phases
    <2>3. txs' = {[x EXCEPT !.awaited = FALSE] : x \in txs}
      BY <1>2 DEF Crash
    <2>4. \A x \in txs' : x \in Txs /\ \E y \in txs : x.call = y.call /\ x.token = y.token
      <3>1. SUFFICES ASSUME NEW x \in txs'
                     PROVE  x \in Txs /\ \E y \in txs : x.call = y.call /\ x.token = y.token
        OBVIOUS
      <3>2. PICK y \in txs : x = [y EXCEPT !.awaited = FALSE]
        BY <2>3
      <3>3. y \in Txs
        BY <1>1 DEF TypeOK
      <3>4. QED BY <3>2, <3>3, Unawaited
    <2>5. crashes' \in 0..MaxCrashes /\ faults' \in 0..MaxFaults
      BY <1>1, <1>2, <2>1, RegisterBrandedTokenAssumption DEF TypeOK, Crash
    <2>6. \A t \in Tools : phase[t] # "none" => t \in proposed
      BY DEF TruthInv, HandlerInv
    <2>7. \A t \in Tools : \/ phase'[t] = phase[t]
                           \/ phase'[t] # "registerUtilityToken" /\ t \in proposed
      BY <2>2, <2>6
    <2>8. QED BY <2>1, <2>2, <2>4, <2>5, <2>7, CommStep
  <1>3. ASSUME NEW x \in txs, PollFails(x) PROVE TruthInv'
    <2> DEFINE y == [x EXCEPT !.awaited = FALSE]
    <2>1. /\ txs' = (txs \ {x}) \cup {y}
          /\ phase' = [phase EXCEPT ![x.token] = "stuck"]
          /\ UNCHANGED <<chainVars, toolVars, fileVars, uuidOf, shards, raced, crashes, kills>>
      BY <1>3 DEF PollFails, Enter
    <2>2. x \in Txs /\ x.token \in Tools /\ x.token \in proposed
      BY <1>1 DEF TruthInv, TypeOK, Txs, TxInv
    <2>3. y \in Txs /\ y.call = x.call /\ y.token = x.token
      BY <2>2, Unawaited
    <2>4. txs' \subseteq Txs /\ \A z \in txs' : \E v \in txs : z.call = v.call /\ z.token = v.token
      BY <1>1, <2>1, <2>3 DEF TypeOK
    <2>5. /\ phase' \in [Tools -> Phases]
          /\ \A t \in Tools : \/ phase'[t] = phase[t]
                              \/ phase'[t] # "registerUtilityToken" /\ t \in proposed
      BY <1>1, <2>1, <2>2, Types DEF Phases
    <2>6. faults' \in 0..MaxFaults /\ crashes' \in 0..MaxCrashes
      BY <1>1, <1>3, <2>1, RegisterBrandedTokenAssumption DEF TypeOK, PollFails, Fault
    <2>7. QED BY <2>1, <2>4, <2>5, <2>6, CommStep
  <1>4. QED BY <1>2, <1>3

\* A registration is mined: on the value chain it has the rate of the proposal, and
\* comes after the one on the utility chain.
LEMMA MineRegistrationStep ==
  ASSUME TruthInv, NEW x \in txs, MineRegistration(x)
  PROVE  TruthInv'
PROOF
  <1> DEFINE u == uuidOf[x.token]
  <1> DEFINE UC == x.call = "registerBrandedToken"
  <1>1. TypeOK
    BY DEF TruthInv
  <1>2. /\ x \in Txs /\ x.token \in Tools /\ x.token \in proposed /\ u \in Uuids
        /\ x.call \in Calls
        /\ ~UC => onUC[u] # None
    BY <1>1, Types DEF TruthInv, TypeOK, Txs, TxInv, RegisteredUC, Calls
  <1>3. Proposable(u) /\ Rate(u).rate \in Nat \ {0}
    BY <1>2, ProposableRate DEF TruthInv, ChainInv
  <1>4. /\ txs' = txs \ {x}
        /\ UNCHANGED <<proposed, toolVars, fileVars, uuidOf, shards, raced, crashes, kills>>
    BY DEF MineRegistration
  <1>5. \/ UNCHANGED <<onUC, onVC>>
        \/ /\ UC /\ onUC[u] = None
           /\ onUC' = [onUC EXCEPT ![u] = x.token] /\ UNCHANGED onVC
        \/ /\ ~UC /\ onVC[u] = 0
           /\ onVC' = [onVC EXCEPT ![u] = Rate(u).rate] /\ UNCHANGED onUC
    BY DEF MineRegistration, Accepts
  <1>6. faults' \in 0..MaxFaults
    <2>1. Fault \/ UNCHANGED faults
      BY DEF MineRegistration, NoFault
    <2>2. QED BY <1>1, <2>1, FaultBound
  <1>7. /\ onUC' \in [Uuids -> Tools \cup {None}] /\ onVC' \in [Uuids -> Nat]
        /\ \A v \in Uuids : onUC[v] # None => onUC'[v] = onUC[v]
        /\ \A v \in Uuids : onVC[v] # 0 => onVC'[v] = onVC[v]
    BY <1>1, <1>2, <1>3, <1>5, Types
  <1>8. \/ UNCHANGED phase
        \/ phase' = [phase EXCEPT ![x.token] = "settled"]
        \/ /\ phase' = [phase EXCEPT ![x.token] = "registerUtilityToken"]
           /\ onUC'[u] # None
    <2>1. CASE ~x.awaited
      BY <2>1 DEF MineRegistration
    <2>2. CASE x.awaited
      <3>1. CASE phase' = [phase EXCEPT ![x.token] = AfterReceipt(x.call, FALSE)]
        BY <3>1 DEF AfterReceipt
      <3>2. CASE /\ phase' = [phase EXCEPT ![x.token] = AfterReceipt(x.call, TRUE)]
                 /\ onUC' = IF UC THEN [onUC EXCEPT ![u] = x.token] ELSE onUC
        BY <1>1, <1>2, <3>2, Types DEF AfterReceipt
      <3>3. QED BY <2>2, <3>1, <3>2 DEF MineRegistration, Enter
    <2>3. QED BY <2>1, <2>2
  <1>9. phase' \in [Tools -> Phases]
    BY <1>1, <1>2, <1>8, Types DEF Phases, Calls
  <1>10. TypeOK'
    BY <1>1, <1>4, <1>6, <1>7, <1>9 DEF TypeOK, toolVars, fileVars
  <1>11. HandlerInv'
    <2>1. \A t \in Tools : phase'[t] = phase[t] \/ t = x.token
      BY <1>1, <1>8, Types
    <2>2. phase'[x.token] = "registerUtilityToken" => onUC'[u] # None
      <3>1. CASE UNCHANGED phase
        BY <1>2, <1>7, <3>1, Types, <1>1 DEF TruthInv, HandlerInv, RegisteredUC
      <3>2. CASE ~UNCHANGED phase
        BY <1>1, <1>2, <1>8, <3>2, Types
      <3>3. QED BY <3>1, <3>2
    <2>3. \A t \in Tools : uuidOf[t] \in Uuids
      BY <1>1, Types
    <2>4. QED BY <1>2, <1>4, <1>7, <2>1, <2>2, <2>3 DEF TruthInv, HandlerInv, RegisteredUC
  <1>12. TxInv'
    <2>1. \A y \in txs : uuidOf[y.token] \in Uuids
      BY <1>1, Types DEF TypeOK, Txs
    <2>2. QED BY <1>4, <1>7, <2>1 DEF TruthInv, TxInv, RegisteredUC
  <1>13. ChainInv'
    <2>1. \A v \in Uuids : onUC'[v] # None => onUC'[v] \in proposed /\ uuidOf[onUC'[v]] = v
      BY <1>1, <1>2, <1>5, Types DEF TruthInv, ChainInv
    <2>2. \A v \in Uuids : onVC'[v] # 0 => onUC'[v] # None /\ onVC'[v] = Rate(v).rate
      BY <1>1, <1>2, <1>5, <1>7, Types DEF TruthInv, ChainInv
    <2>3. QED BY <1>4, <2>1, <2>2 DEF TruthInv, ChainInv, toolVars, Proposable, Rate
  <1>14. ToolInv'
    BY <1>1, <1>4, <1>7, StaysReliable DEF TruthInv, toolVars, fileVars
  <1>15. QED BY <1>10, <1>11, <1>12, <1>13, <1>14 DEF TruthInv

\* A step that changes nothing.
LEMMA TruthStutter == TruthInv /\ UNCHANGED vars => TruthInv'
PROOF
  BY DEF vars, chainVars, commVars, toolVars, fileVars, bounds, TruthInv, TypeOK, HandlerInv, TxInv,
         RegisteredUC, ChainInv, ToolInv, Reliable, Proposable, Rate

LEMMA TruthNext == TruthInv /\ [Next]_vars => TruthInv'
PROOF
  <1>1. SUFFICES ASSUME TruthInv, [Next]_vars PROVE TruthInv'
    OBVIOUS
  <1>2. ASSUME NEW t \in Tools,
               Perform(t) \/ StatusFails(t) \/ MineProposal(t) \/ Kill(t)
        PROVE  TruthInv'
    BY <1>1, <1>2, EarlyStep, MineProposalStep, StatusStep, FileStep DEF Perform
  <1>3. ASSUME NEW t \in Tools, Register(t) \/ RegisterFails(t) PROVE TruthInv'
    BY <1>1, <1>3, RegisterStep
  <1>4. ASSUME NEW x \in txs, MineRegistration(x) \/ PollFails(x) PROVE TruthInv'
    BY <1>1, <1>4, MineRegistrationStep, CutStep
  <1>5. CASE OpenWindow \/ Checkpoint \/ NoCheckpoint
    BY <1>1, <1>5, WindowStep
  <1>6. CASE Crash
    BY <1>1, <1>6, CutStep
  <1>7. CASE UNCHANGED vars
    BY <1>1, <1>7, TruthStutter
  <1>8. QED BY <1>1, <1>2, <1>3, <1>4, <1>5, <1>6, <1>7 DEF Next

-----------------------------------------------------------------------------
(* The entries of the file.                                                *)

\* A step that leaves the file and what was read of it alone, and takes nobody
\* to where the file is updated or an entry relied on.
LEMMA RecordFrame ==
  ASSUME RecordInv, UNCHANGED <<uuidOf, file, raced, erc20, read, shards>>,
         \A t \in Tools : \/ step'[t] = step[t]
                          \/ step'[t] \notin {"add", "writing", "allocate", "done"}
  PROVE  RecordInv'
PROOF
  BY DEF RecordInv, Updating

\* The entry of a tool.
LEMMA EntryIsOne ==
  ASSUME NEW t \in Tools, NEW e
  PROVE  [reserve |-> t, erc20 |-> e] # NoEntry
PROOF
  <1>1. None \notin Tools
    BY RegisterBrandedTokenAssumption
  <1>2. [reserve |-> t, erc20 |-> e].reserve = t /\ NoEntry.reserve = None
    BY DEF NoEntry
  <1>3. QED BY <1>1, <1>2

\* A tool up to its proposal, a failed poll, a kill.
LEMMA RecordEarly ==
  ASSUME IInv, NEW t \in Tools,
         \/ _validateBrandedTokenDetails(t) \/ _generateAddress(t) \/ _propose(t)
         \/ StatusFails(t) \/ Kill(t)
  PROVE  RecordInv'
PROOF
  <1>1. RecordInv /\ step \in [Tools -> Steps]
    BY Types DEF IInv, TruthInv
  <1>2. UNCHANGED <<uuidOf, file, raced, erc20, read, shards>>
    BY DEF _validateBrandedTokenDetails, _generateAddress, _propose, StatusFails, Kill, fileVars
  <1>3. \A q \in Tools : \/ step'[q] = step[q]
                         \/ step'[q] \notin {"add", "writing", "allocate", "done"}
    BY <1>1 DEF _validateBrandedTokenDetails, _generateAddress, _propose, StatusFails, Kill, Go
  <1>4. QED BY <1>1, <1>2, <1>3, RecordFrame

\* The tool learns its address while it is still polling.
LEMMA RecordStatus ==
  ASSUME IInv, NEW t \in Tools, _checkProposeStatus(t)
  PROVE  RecordInv'
PROOF
  <1>1. /\ RecordInv /\ step \in [Tools -> Steps] /\ erc20 \in [Tools -> Tools \cup {None}]
    BY Types DEF IInv, TruthInv
  <1>2. /\ step' = [step EXCEPT ![t] = "load"]
        /\ \A q \in Tools \ {t} : erc20'[q] = erc20[q]
        /\ UNCHANGED <<uuidOf, file, raced, read, shards>>
    BY <1>1 DEF _checkProposeStatus, Go, fileVars
  <1>3. QED BY <1>1, <1>2 DEF RecordInv, Updating

\* It reads the file: if another is updating it, the two race from now on.
LEMMA RecordLoad ==
  ASSUME IInv, NEW t \in Tools, LoadConfig(t)
  PROVE  RecordInv'
PROOF
  <1>1. /\ RecordInv /\ step \in [Tools -> Steps] /\ read \in [Tools -> Files] /\ raced \in BOOLEAN
    BY Types DEF IInv, TruthInv, TypeOK
  <1>2. /\ read'[t] = file /\ \A q \in Tools \ {t} : read'[q] = read[q]
        /\ UNCHANGED <<uuidOf, file, erc20, shards>>
        /\ step[t] = "load"
    BY <1>1 DEF LoadConfig, fileVars
  <1>3. CASE Readable /\ file[uuidOf[t]] = NoEntry
    <2>1. step' = [step EXCEPT ![t] = "add"]
      BY <1>3 DEF LoadConfig, Go
    <2>2. ~raced' => ~raced /\ \A q \in Tools \ {t} : step[q] \notin Updating
      BY <1>3 DEF LoadConfig
    <2>3. QED BY <1>1, <1>2, <1>3, <2>1, <2>2 DEF RecordInv, Updating
  <1>4. CASE ~(Readable /\ file[uuidOf[t]] = NoEntry)
    <2>1. \E s \in {"thrown", "exit"} : step' = [step EXCEPT ![t] = s]
      BY <1>4 DEF LoadConfig, Go
    <2>2. ~raced' => ~raced
      BY DEF LoadConfig
    <2>3. QED BY <1>1, <1>2, <2>1, <2>2 DEF RecordInv, Updating
  <1>5. QED BY <1>3, <1>4

\* It starts to write the file.
LEMMA RecordWrite ==
  ASSUME IInv, NEW t \in Tools, _writeJsonFile(t)
  PROVE  RecordInv'
PROOF
  <1>1. RecordInv /\ step \in [Tools -> Steps]
    BY Types DEF IInv, TruthInv
  <1>2. /\ step[t] = "add" /\ step' = [step EXCEPT ![t] = "writing"]
        /\ UNCHANGED <<uuidOf, file, raced, erc20, read, shards>>
    BY DEF _writeJsonFile, Go
  <1>3. QED BY <1>1, <1>2 DEF RecordInv, Updating

\* It has written the file: its entry is there, and those of the others still are.
LEMMA RecordUpdate ==
  ASSUME IInv, NEW t \in Tools, _updateBrandedTokenConfig(t)
  PROVE  RecordInv'
PROOF
  <1>1. /\ RecordInv /\ step \in [Tools -> Steps] /\ read[t] \in Files
        /\ uuidOf \in [Tools -> Uuids]
    BY Types DEF IInv, TruthInv, TypeOK
  <1>2. /\ step[t] = "writing" /\ step' = [step EXCEPT ![t] = "allocate"]
        /\ file' = [read[t] EXCEPT ![uuidOf[t]] = [reserve |-> t, erc20 |-> erc20[t]]]
        /\ UNCHANGED <<uuidOf, raced, erc20, read, shards>>
    BY DEF _updateBrandedTokenConfig, WithEntry, Go
  <1>3. /\ file'[uuidOf[t]] = [reserve |-> t, erc20 |-> erc20[t]]
        /\ \A u \in Uuids \ {uuidOf[t]} : file'[u] = read[t][u]
    BY <1>1, <1>2 DEF Files
  <1>4. ASSUME ~raced
        PROVE  /\ \A q \in Tools : step'[q] \notin Updating
               /\ \A q \in Tools : step'[q] \in {"allocate", "done"} =>
                    file'[uuidOf[q]] = [reserve |-> q, erc20 |-> erc20[q]]
    <2>1. /\ \A q \in Tools \ {t} : step[q] \notin Updating
          /\ read[t] = file /\ file[uuidOf[t]] = NoEntry
      BY <1>1, <1>2, <1>4 DEF RecordInv, Updating
    <2>2. \A q \in Tools : step'[q] \notin Updating
      BY <1>1, <1>2, <2>1 DEF Updating
    <2>3. ASSUME NEW q \in Tools \ {t}, step'[q] \in {"allocate", "done"}
          PROVE  file'[uuidOf[q]] = [reserve |-> q, erc20 |-> erc20[q]]
      <3>1. file[uuidOf[q]] = [reserve |-> q, erc20 |-> erc20[q]]
        BY <1>1, <1>2, <1>4, <2>3 DEF RecordInv
      <3>2. uuidOf[q] # uuidOf[t] /\ uuidOf[q] \in Uuids
        BY <1>1, <2>1, <3>1, EntryIsOne
      <3>3. QED BY <1>3, <2>1, <3>1, <3>2
    <2>4. QED BY <1>3, <2>2, <2>3
  <1>5. \A q \in Tools : step'[q] = "done" => erc20'[q] \in shards'
    BY <1>1, <1>2 DEF RecordInv
  <1>6. QED BY <1>2, <1>4, <1>5 DEF RecordInv

\* It allocates the shard of its token.
LEMMA RecordShard ==
  ASSUME IInv, NEW t \in Tools, _allocateShard(t)
  PROVE  RecordInv'
PROOF
  <1>1. RecordInv /\ step \in [Tools -> Steps]
    BY Types DEF IInv, TruthInv
  <1>2. /\ step[t] = "allocate" /\ UNCHANGED <<uuidOf, file, raced, erc20, read>>
        /\ \/ step' = [step EXCEPT ![t] = "done"] /\ shards' = shards \cup {erc20[t]}
           \/ step' = [step EXCEPT ![t] = "thrown"] /\ UNCHANGED shards
    BY DEF _allocateShard, Go, fileVars
  <1>3. QED BY <1>1, <1>2 DEF RecordInv, Updating

\* Only these tools come near the file.
LEMMA RecordNext ==
  ASSUME IInv, [Next]_vars
  PROVE  RecordInv'
PROOF
  <1>1. RecordInv
    BY DEF IInv
  <1>2. ASSUME NEW t \in Tools, Perform(t) \/ StatusFails(t) \/ Kill(t)
        PROVE  RecordInv'
    BY <1>2, RecordEarly, RecordStatus, RecordLoad, RecordWrite, RecordUpdate, RecordShard
       DEF Perform
  <1>3. CASE \/ \E t \in Tools : MineProposal(t) \/ Register(t) \/ RegisterFails(t)
             \/ \E x \in txs : MineRegistration(x) \/ PollFails(x)
             \/ OpenWindow \/ Checkpoint \/ NoCheckpoint \/ Crash \/ UNCHANGED vars
    <2>1. UNCHANGED <<uuidOf, file, raced, erc20, read, shards, step>>
      BY <1>3 DEF MineProposal, Register, RegisterFails, MineRegistration, PollFails, OpenWindow,
         Checkpoint, NoCheckpoint, CloseWindow, Crash, vars, toolVars, fileVars
    <2>2. QED BY <1>1, <2>1, RecordFrame
  <1>4. QED BY <1>2, <1>3 DEF Next

LEMMA InitInv == Init => IInv
PROOF
  <1>1. Init => RecordInv
    BY DEF Init, RecordInv, Updating
  <1>2. QED BY <1>1, TruthInit DEF IInv

LEMMA NextInv == IInv /\ [Next]_vars => IInv'
PROOF
  BY TruthNext, RecordNext DEF IInv

-----------------------------------------------------------------------------
(* What holds of every behaviour.                                          *)

\* The invariant holds, for any number of tools, tokens, kills and failures.
THEOREM RegistrationInvariant == Spec => []IInv
PROOF
  <1>1. QED BY InitInv, NextInv, PTL DEF Spec

\* What the value chain takes stakes for is registered on the utility chain, from a
\* proposal that was mined and at its rate.
THEOREM ValueChainFollowsHolds == Spec => []ValueChainFollows
PROOF
  <1>1. IInv => ValueChainFollows
    BY DEF IInv, TruthInv, ChainInv, ValueChainFollows
  <1>2. QED BY <1>1, RegistrationInvariant, PTL

\* An entry of the file has the address the utility chain knows and the conversion
\* factor the value chain reports.
THEOREM FileTruthfulHolds == Spec => []FileTruthful
PROOF
  <1>1. IInv => FileTruthful
    <2>1. SUFFICES ASSUME IInv, NEW u \in Uuids, file[u] # NoEntry
                   PROVE  /\ file[u].erc20 = onUC[u]
                          /\ uuidOf[file[u].reserve] = u
                          /\ convertConversionRateToConversionFactor(onVC[u], Decimals) = FactorOf[u]
      BY DEF FileTruthful
    <2>2. Reliable(u, file[u])
      BY <2>1 DEF IInv, TruthInv, ToolInv
    <2>3. onVC[u] = Rate(u).rate /\ Proposable(u)
      BY <2>1, <2>2 DEF IInv, TruthInv, ChainInv, Reliable
    <2>4. QED BY <2>2, <2>3, ProposableRate DEF Reliable
  <1>2. QED BY <1>1, RegistrationInvariant, PTL

\* A tool that has finished has its token in the file and a shard for it, unless
\* two tools updated the file at the same time (register.js, its update of the
\* file of branded tokens).
THEOREM DoneIsRecordedHolds == Spec => []DoneIsRecorded
PROOF
  <1>1. IInv => DoneIsRecorded
    BY DEF IInv, RecordInv, DoneIsRecorded
  <1>2. QED BY <1>1, RegistrationInvariant, PTL
=============================================================================
