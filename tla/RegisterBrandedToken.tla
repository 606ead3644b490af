------------------------ MODULE RegisterBrandedToken ------------------------
(***************************************************************************)
(* The registration of a branded token.  The tool register.js proposes it  *)
(* on the utility chain, polls the status of the proposal and, once it is  *)
(* registered on both chains, adds it to the file of branded tokens.  The  *)
(* communicator register_branded_token hears of the proposal and registers *)
(* the token on the utility chain and then on the value chain.             *)
(*                                                                         *)
(* The communicator is a base.js loop (module Intercom) whose handlers     *)
(* overlap.  Here the events of a window are a set, and a checkpoint is    *)
(* what is never delivered again.  The contracts are not in the            *)
(* repository: what they accept is read off their callers.                 *)
(***************************************************************************)
EXTENDS ConversionRate

CONSTANTS
  Tools,        \* bound: the calls of register.js; also the ERC20 contract,
                \*   reserve address and event of each one's proposal
  Uuids,        \* a name and symbol with its conversion factor
  FactorOf,     \* the conversion factor
  WellNamed,    \* isBTNameValid and isBTSymbolValid
  None,
  MaxCrashes,   \* bound: kills of the communicator
  MaxKills,     \* bound: kills of a tool
  MaxFaults     \* bound: failed requests and failed transactions

ASSUME RegisterBrandedTokenAssumption ==
  /\ FactorOf \in [Uuids -> Int]
  /\ WellNamed \subseteq Uuids
  /\ None \notin Tools
  /\ MaxCrashes \in Nat /\ MaxKills \in Nat /\ MaxFaults \in Nat

VARIABLES
  uuidOf,     \* per tool: the token it is called to register
  proposed,   \* proposals with a ProposedBrandedToken event
  onUC,       \* per uuid: the ERC20 contract registered on the utility chain
  onVC,       \* per uuid: the conversion rate registered on the value chain, or 0
  phase,      \* per proposal: where its event is with the communicator
  txs,        \* registrations sent and not yet mined
  step,       \* per tool: what it is doing, or how it ended
  proposal,   \* per tool: its proposeBrandedToken transaction
  erc20,      \* per tool: the address the status told it
  read,       \* per tool: the content of the file as it read it
  file,       \* the file of branded tokens: per uuid, who is in it
  torn,       \* a tool that is writing the file, None if nobody is
  damaged,    \* the file was left half written
  shards,     \* ERC20 contracts with storage allocated
  raced,      \* history: two tools have updated the file at the same time
  crashes, kills, faults

chainVars == <<proposed, onUC, onVC>>
commVars  == <<phase, txs>>
fileVars  == <<file, torn, damaged>>
toolVars  == <<step, proposal, erc20, read>>
bounds    == <<crashes, kills, faults>>
vars == <<uuidOf, chainVars, commVars, toolVars, fileVars, shards, raced, bounds>>

Calls  == {"registerBrandedToken", "registerUtilityToken"}
Phases == {"none", "settled", "stuck", "past"} \cup Calls
Txs    == [call : Calls, token : Tools, awaited : BOOLEAN]

Steps ==
  {"validate", "address", "propose", "poll", "load", "add", "writing", "allocate",
   "done", "exit", "thrown", "killed"}
Ended == {"done", "exit", "thrown", "killed"}
Updating == {"add", "writing"}

\* An entry: the reserve address of its tool, and the ERC20 contract.
Entries == [reserve : Tools, erc20 : Tools]
NoEntry == [reserve |-> None, erc20 |-> None]
Files   == [Uuids -> Entries \cup {NoEntry}]
Empty   == [u \in Uuids |-> NoEntry]

TypeOK ==
  /\ uuidOf \in [Tools -> Uuids]
  /\ proposed \subseteq Tools
  /\ onUC \in [Uuids -> Tools \cup {None}]
  /\ onVC \in [Uuids -> Nat]
  /\ phase \in [Tools -> Phases]
  /\ txs \subseteq Txs
  /\ step \in [Tools -> Steps]
  /\ proposal \in [Tools -> {"none", "pending", "mined", "reverted"}]
  /\ erc20 \in [Tools -> Tools \cup {None}]
  /\ read \in [Tools -> Files]
  /\ file \in Files
  /\ torn \in Tools \cup {None}
  /\ damaged \in BOOLEAN
  /\ shards \subseteq Tools
  /\ raced \in BOOLEAN
  /\ crashes \in 0..MaxCrashes /\ kills \in 0..MaxKills
  /\ faults \in 0..MaxFaults

Init ==
  /\ uuidOf \in [Tools -> Uuids]
  /\ proposed = {}
  /\ onUC = [u \in Uuids |-> None] /\ onVC = [u \in Uuids |-> 0]
  /\ phase = [t \in Tools |-> "none"] /\ txs = {}
  /\ step = [t \in Tools |-> "validate"]
  /\ proposal = [t \in Tools |-> "none"]
  /\ erc20 = [t \in Tools |-> None]
  /\ read = [t \in Tools |-> Empty]
  /\ file = Empty /\ torn = None /\ damaged = FALSE
  /\ shards = {} /\ raced = FALSE
  /\ crashes = 0 /\ kills = 0 /\ faults = 0

Fault   == faults < MaxFaults /\ faults' = faults + 1
NoFault == UNCHANGED faults
Go(t, s)    == step' = [step EXCEPT ![t] = s]
Enter(t, p) == phase' = [phase EXCEPT ![t] = p]

\* proposeBrandedToken and registrations carry the rate of the factor.
Rate(u) == convertConversionFactorToConversionRate(FactorOf[u])

-----------------------------------------------------------------------------
(* register.js up to the proposal.                                         *)

\* getBrandedToken: a file that is half written cannot be parsed, which throws
\* in the callback.  A file that does not exist is created empty.
Readable == torn = None /\ ~damaged

\* Name and symbol must not be in the file.
_validateBrandedTokenDetails(t) ==
  /\ step[t] = "validate"
  /\ Go(t, IF ~Readable THEN "thrown"
           ELSE IF file[uuidOf[t]] # NoEntry THEN "exit" ELSE "address")
  /\ UNCHANGED <<chainVars, commVars, proposal, erc20, read, fileVars, uuidOf, shards, raced,
                 bounds>>

\* A new account on the utility chain.
_generateAddress(t) ==
  /\ step[t] = "address"
  /\ \/ Go(t, "propose") /\ NoFault
     \/ Go(t, "exit") /\ Fault
  /\ UNCHANGED <<chainVars, commVars, proposal, erc20, read, fileVars, uuidOf, shards, raced,
                 crashes, kills>>

\* The proposal is refused for what it proposes, or sent; after a failure the
\* tool exits.
Proposable(u) == u \in WellNamed /\ Rate(u).ok

_propose(t) ==
  /\ step[t] = "propose"
  /\ \/ /\ Proposable(uuidOf[t]) /\ NoFault
        /\ Go(t, "poll")
        /\ proposal' = [proposal EXCEPT ![t] = "pending"]
     \/ /\ (~Proposable(uuidOf[t]) /\ NoFault) \/ Fault
        /\ Go(t, "exit")
        /\ UNCHANGED proposal
  /\ UNCHANGED <<chainVars, commVars, erc20, read, fileVars, uuidOf, shards, raced,
                 crashes, kills>>

\* The proposal is mined, with its event, or reverted.
MineProposal(t) ==
  /\ proposal[t] = "pending"
  /\ \/ /\ proposal' = [proposal EXCEPT ![t] = "mined"]
        /\ proposed' = proposed \cup {t} /\ NoFault
     \/ /\ proposal' = [proposal EXCEPT ![t] = "reverted"]
        /\ UNCHANGED proposed /\ Fault
  /\ UNCHANGED <<onUC, onVC, commVars, step, erc20, read, fileVars, uuidOf, shards, raced,
                 crashes, kills>>

-----------------------------------------------------------------------------
(* The communicator.                                                       *)

\* getPastEvents answers with a window of events: their handlers are called.
OpenWindow ==
  /\ \A t \in Tools : phase[t] \in {"none", "past"}
  /\ \E W \in SUBSET {t \in proposed : phase[t] = "none"} :
       /\ W # {}
       /\ phase' = [t \in Tools |-> IF t \in W THEN "registerBrandedToken" ELSE phase[t]]
  /\ UNCHANGED <<chainVars, txs, toolVars, fileVars, uuidOf, shards, raced, bounds>>

\* What the registrars accept: the estimate is refused otherwise.  The value
\* chain cannot see the utility chain.
Accepts(call, t) ==
  IF call = "registerBrandedToken" THEN onUC[uuidOf[t]] = None ELSE onVC[uuidOf[t]] = 0

InFlight(t) == \E x \in txs : x.token = t /\ x.awaited

\* registerBrandedToken and registerUtilityToken: estimate, send, poll for the
\* receipt.
Register(t) ==
  /\ phase[t] \in Calls /\ ~InFlight(t)
  /\ Accepts(phase[t], t)
  /\ txs' = txs \cup {[call |-> phase[t], token |-> t, awaited |-> TRUE]}
  /\ UNCHANGED <<chainVars, phase, toolVars, fileVars, uuidOf, shards, raced, bounds>>

\* The estimate is refused or a request fails: the handler is rejected.
RegisterFails(t) ==
  /\ phase[t] \in Calls /\ ~InFlight(t)
  /\ (~Accepts(phase[t], t) /\ NoFault) \/ Fault
  /\ Enter(t, "settled")
  /\ UNCHANGED <<chainVars, txs, toolVars, fileVars, uuidOf, shards, raced,
                 crashes, kills>>

\* The value chain comes after a success on the utility chain; a failure on
\* either is the end.
MutantIgnoresFailure(call, ok) ==
  IF call = "registerBrandedToken" THEN "registerUtilityToken" ELSE "settled"
MutantStopsHere(call, ok) == "settled"
AfterReceipt(call, ok) ==
  IF call = "registerBrandedToken" /\ ok THEN "registerUtilityToken" ELSE "settled"

MineRegistration(x) ==
  LET u  == uuidOf[x.token]
      UC == x.call = "registerBrandedToken"
      Settle(ok) ==
        IF x.awaited THEN Enter(x.token, AfterReceipt(x.call, ok)) ELSE UNCHANGED phase
  IN
    /\ txs' = txs \ {x}
    /\ \/ /\ Accepts(x.call, x.token) /\ NoFault
          /\ onUC' = IF UC THEN [onUC EXCEPT ![u] = x.token] ELSE onUC
          /\ onVC' = IF UC THEN onVC ELSE [onVC EXCEPT ![u] = Rate(u).rate]
          /\ Settle(TRUE)
       \/ /\ (~Accepts(x.call, x.token) /\ NoFault) \/ Fault
          /\ UNCHANGED <<onUC, onVC>>
          /\ Settle(FALSE)
    /\ UNCHANGED <<proposed, toolVars, fileVars, uuidOf, shards, raced, crashes, kills>>

\* One request for the receipt is rejected: the handler never settles.
PollFails(x) ==
  /\ x.awaited /\ Fault
  /\ txs' = (txs \ {x}) \cup {[x EXCEPT !.awaited = FALSE]}
  /\ Enter(x.token, "stuck")
  /\ UNCHANGED <<chainVars, toolVars, fileVars, uuidOf, shards, raced, crashes, kills>>

\* All handlers of the window have settled: the checkpoint passes them, or
\* cannot be written, and they are delivered again.
CloseWindow(p) ==
  /\ \E t \in Tools : phase[t] = "settled"
  /\ \A t \in Tools : phase[t] \in {"none", "settled", "past"}
  /\ phase' = [t \in Tools |-> IF phase[t] = "settled" THEN p ELSE phase[t]]
  /\ UNCHANGED <<chainVars, txs, toolVars, fileVars, uuidOf, shards, raced, bounds>>

Checkpoint   == CloseWindow("past")
NoCheckpoint == CloseWindow("none")

\* The process is killed and started again at its checkpoint.
Crash ==
  /\ crashes < MaxCrashes /\ crashes' = crashes + 1
  /\ phase' = [t \in Tools |-> IF phase[t] = "past" THEN "past" ELSE "none"]
  /\ txs' = {[x EXCEPT !.awaited = FALSE] : x \in txs}
  /\ UNCHANGED <<chainVars, toolVars, fileVars, uuidOf, shards, raced, kills, faults>>

-----------------------------------------------------------------------------
(* register.js after the proposal.                                         *)

\* get_registration_status: receipt, utility chain, value chain, each only
\* after the one before.  Nothing is ever unregistered, so it does not matter
\* how long a poll takes, nor that polls may overlap.
MutantFirstChainOnly(t) == proposal[t] = "mined" /\ onUC[uuidOf[t]] # None
is_registered_on_vc(t) ==
  /\ proposal[t] = "mined"
  /\ onUC[uuidOf[t]] # None
  /\ convertConversionRateToConversionFactor(onVC[uuidOf[t]], Decimals) # 0

_checkProposeStatus(t) ==
  /\ step[t] = "poll"
  /\ is_registered_on_vc(t)
  /\ erc20' = [erc20 EXCEPT ![t] = onUC[uuidOf[t]]]
  /\ Go(t, "load")
  /\ UNCHANGED <<chainVars, commVars, proposal, read, fileVars, uuidOf, shards, raced, bounds>>

\* A registry cannot be asked: process.exit(1).  A receipt that cannot be had,
\* or is that of a reverted transaction, counts as a proposal that is not done.
StatusFails(t) ==
  /\ step[t] = "poll" /\ proposal[t] = "mined"
  /\ Fault
  /\ Go(t, "exit")
  /\ UNCHANGED <<chainVars, commVars, proposal, erc20, read, fileVars, uuidOf, shards, raced,
                 crashes, kills>>

\* _updateBrandedTokenConfig reads the whole file,
LoadConfig(t) ==
  /\ step[t] = "load"
  /\ read' = [read EXCEPT ![t] = file]
  /\ Go(t, IF ~Readable THEN "thrown"
           ELSE IF file[uuidOf[t]] # NoEntry THEN "exit" ELSE "add")
  /\ raced' = (raced \/ (Readable /\ \E q \in Tools \ {t} : step[q] \in Updating))
  /\ UNCHANGED <<chainVars, commVars, proposal, erc20, fileVars, uuidOf, shards, bounds>>

\* and writes all of it: writeFile truncates it first.
_writeJsonFile(t) ==
  /\ step[t] = "add"
  /\ Go(t, "writing")
  /\ torn' = t
  /\ UNCHANGED <<chainVars, commVars, proposal, erc20, read, file, damaged, uuidOf, shards, raced,
                 bounds>>

MutantForgetsOthers(t) ==
  [Empty EXCEPT ![uuidOf[t]] = [reserve |-> t, erc20 |-> erc20[t]]]
WithEntry(t) ==
  [read[t] EXCEPT ![uuidOf[t]] = [reserve |-> t, erc20 |-> erc20[t]]]

_updateBrandedTokenConfig(t) ==
  /\ step[t] = "writing"
  /\ file' = WithEntry(t)
  /\ torn' = IF torn = t THEN None ELSE torn
  /\ damaged' = FALSE
  /\ Go(t, "allocate")
  /\ UNCHANGED <<chainVars, commVars, proposal, erc20, read, uuidOf, shards, raced, bounds>>

\* A storage that fails is a rejection nobody handles, and no exit.
_allocateShard(t) ==
  /\ step[t] = "allocate"
  /\ \/ shards' = shards \cup {erc20[t]} /\ Go(t, "done") /\ NoFault
     \/ UNCHANGED shards /\ Go(t, "thrown") /\ Fault
  /\ UNCHANGED <<chainVars, commVars, proposal, erc20, read, fileVars, uuidOf, raced,
                 crashes, kills>>

\* The tool is killed, which may leave the file half written.
Kill(t) ==
  /\ step[t] \notin Ended
  /\ kills < MaxKills /\ kills' = kills + 1
  /\ Go(t, "killed")
  /\ IF torn = t THEN torn' = None /\ damaged' = TRUE ELSE UNCHANGED <<torn, damaged>>
  /\ UNCHANGED <<chainVars, commVars, proposal, erc20, read, file, uuidOf, shards, raced,
                 crashes, faults>>

-----------------------------------------------------------------------------
Perform(t) ==
  \/ _validateBrandedTokenDetails(t) \/ _generateAddress(t) \/ _propose(t)
  \/ _checkProposeStatus(t)
  \/ LoadConfig(t) \/ _writeJsonFile(t) \/ _updateBrandedTokenConfig(t)
  \/ _allocateShard(t)

Next ==
  \/ \E t \in Tools : Perform(t) \/ StatusFails(t) \/ MineProposal(t) \/ Kill(t)
  \/ \E t \in Tools : Register(t) \/ RegisterFails(t)
  \/ \E x \in txs : MineRegistration(x) \/ PollFails(x)
  \/ OpenWindow \/ Checkpoint \/ NoCheckpoint \/ Crash

Spec == Init /\ [][Next]_vars

\* The loop goes on, a checkpoint is written in the end, requests are answered,
\* what was sent is mined, and a tool that was called gets on.
Fairness ==
  /\ \A t \in Tools : /\ WF_vars(Perform(t)) /\ WF_vars(MineProposal(t))
                      /\ WF_vars(Register(t) \/ RegisterFails(t))
  /\ \A call \in Calls, t \in Tools :
       WF_vars(\E x \in txs : x.call = call /\ x.token = t /\ MineRegistration(x))
  /\ WF_vars(OpenWindow) /\ SF_vars(Checkpoint)

FairSpec == Spec /\ Fairness

-----------------------------------------------------------------------------
(* What the registration must guarantee.                                   *)

\* A token the value chain knows, and takes stakes for, is registered on the
\* utility chain, where it is minted, from a proposal that was mined and at its
\* rate.  The value chain cannot see that; it is up to the order of the two
\* calls (137, 187) and the error return between them, whatever overlaps, is
\* killed, redelivered, or mined after its handler has gone.
ValueChainFollows ==
  \A u \in Uuids :
    onVC[u] # 0 => /\ onUC[u] \in proposed
                   /\ uuidOf[onUC[u]] = u
                   /\ onVC[u] = Rate(u).rate

\* An entry of the file can be relied on by the tools that read it: its token
\* is registered on both chains under that ERC20 address, and the value chain
\* reports the conversion factor the entry has (229-237).
FileTruthful ==
  \A u \in Uuids :
    file[u] # NoEntry =>
      /\ file[u].erc20 = onUC[u]
      /\ uuidOf[file[u].reserve] = u
      /\ convertConversionRateToConversionFactor(onVC[u], Decimals) = FactorOf[u]

\* A tool that has finished has its token in the file, with its reserve address
\* and with a shard, unless two tools updated the file at the same time: then
\* the one that writes last loses the entry of the other.
DoneIsRecorded ==
  \A t \in Tools :
    (step[t] = "done" /\ ~raced) =>
      /\ file[uuidOf[t]] = [reserve |-> t, erc20 |-> erc20[t]]
      /\ erc20[t] \in shards

\* A proposal ends in a tool that ends, and not in one that polls for ever,
\* unless a process was killed or a request or transaction failed.
ProposalsComplete ==
  \A t \in Tools :
    step[t] = "poll" ~> (step[t] \in Ended \/ crashes > 0 \/ faults > 0)

-----------------------------------------------------------------------------
(* Why ValueChainFollows and FileTruthful hold: a handler that is at        *)
(* registerUtilityToken, and such a transaction whoever sent it, come after *)
(* the registration on the utility chain; and a tool that updates the file  *)
(* has seen its token on both chains.                                       *)
RegisteredUC(u) == onUC[u] # None

HandlerInv ==
  \A t \in Tools :
    /\ phase[t] # "none" => t \in proposed
    /\ phase[t] = "registerUtilityToken" => RegisteredUC(uuidOf[t])

TxInv ==
  \A x \in txs :
    /\ x.token \in proposed
    /\ x.call = "registerUtilityToken" => RegisteredUC(uuidOf[x.token])

ChainInv ==
  /\ \A t \in proposed : Proposable(uuidOf[t])
  /\ \A t \in Tools : proposal[t] # "none" => Proposable(uuidOf[t])
  /\ \A t \in Tools : proposal[t] = "mined" <=> t \in proposed
  /\ \A t \in Tools : step[t] \in {"validate", "address", "propose"} => proposal[t] = "none"
  /\ \A u \in Uuids : onUC[u] # None => onUC[u] \in proposed /\ uuidOf[onUC[u]] = u
  /\ \A u \in Uuids : onVC[u] # 0 => onUC[u] # None /\ onVC[u] = Rate(u).rate

Reliable(u, e) == e.erc20 = onUC[u] /\ uuidOf[e.reserve] = u /\ onVC[u] # 0

ToolInv ==
  /\ \A t \in Tools :
       step[t] \in {"load", "allocate"} \cup Updating =>
         erc20[t] = onUC[uuidOf[t]] /\ onVC[uuidOf[t]] # 0
  /\ \A t \in Tools, u \in Uuids : read[t][u] # NoEntry => Reliable(u, read[t][u])
  /\ \A u \in Uuids : file[u] # NoEntry => Reliable(u, file[u])

TruthInv == TypeOK /\ HandlerInv /\ TxInv /\ ChainInv /\ ToolInv

(* Why DoneIsRecorded holds: unless two tools have updated the file at the   *)
(* same time, the one that does has read the file as it still is, without    *)
(* its token; so it keeps the entries of those that were there before.       *)
RecordInv ==
  /\ ~raced =>
       /\ \A t, q \in Tools : step[t] \in Updating /\ step[q] \in Updating => t = q
       /\ \A t \in Tools :
            /\ step[t] \in Updating => read[t] = file /\ file[uuidOf[t]] = NoEntry
            /\ step[t] \in {"allocate", "done"} =>
                 file[uuidOf[t]] = [reserve |-> t, erc20 |-> erc20[t]]
  /\ \A t \in Tools : step[t] = "done" => erc20[t] \in shards

IInv == TruthInv /\ RecordInv
=============================================================================
