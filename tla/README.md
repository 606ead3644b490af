# Verification of openst-platform

TLA+ models of openst-platform (v0.9.4), the TLC runs that check them on small
instances, and TLAPS proofs of what matters most for every instance. Paths are
relative to the repository.

## 1. The system

openst-platform connects two Ethereum chains. On the *value chain* people hold
Simple Tokens (ST), on a *utility chain* branded tokens (BT) and ST Prime (gas).
Staking ST on the value chain mints BT or ST Prime on the utility chain;
redeeming them releases the ST again. The contracts are Solidity and not in the
repository; the platform is the Node.js code that drives them: wrappers around
contracts, services for applications, long-running *inter chain communicators*
that carry events from one chain to the other, and setup tools.

| Component | State | Operations | Talks to | What is hard |
|---|---|---|---|---|
| Block scanning loop, `services/inter_comm/base.js` | window, signal flag, checkpoint file | boot, turn, window, handler calls, save, reInit, signal | node (height, logs), subclass handlers, file | kill between handling and saving, reorganisations, swallowed failures, in-place file write |
| Event queue, `lib/web3/events/queue_manager.js`, `processor.js` | per event object, timer, flags | queue, update, remove, fire, settle | websocket subscription, handler | timer and callback races, loss at restart |
| Stake and mint, `services/inter_comm/stake_and_mint*.js`, `services/stake_and_mint/*` | stages of a stake on two chains | stake, confirm, processStaking, processMinting, claim | both chains, base.js | half-done stakes, nonce order, redelivery |
| Redeem and unstake, `executables/inter_comm/redeem_and_unstake*.js`, `services/redeem_and_unstake/*` | stages of a redemption | redeem, confirm, processRedeeming, processUnstaking | both chains, event queue | as above, unchecked results |
| BT registration, `services/inter_comm/register_branded_token.js`, `tools/setup/branded_token/register.js`, `services/on_boarding/*` | registration on two chains, token file | propose, register twice, poll, read-change-write the file | both chains, base.js, file | one registration of two, two tools at one file, unbounded polling |
| BT transfers, `lib/contract_interact/branded_token.js` | settled and unsettled balance per owner | validate, debit, send, settle, roll back, claim | chain, balance cache | check-then-act, leaked debit, late receipts |
| Other transfers, `simple_token.js`, `st_prime.js`, `ether.js` | none | transfer, approve, claim | chain, notifications | answers before the end, late receipts, failure paths |
| Transaction helper, `lib/contract_interact/helper.js`, `lib/web3/events/decoder.js` | polling state | send, wait for receipt, bounded search | node | a request that fails while polling |
| Pure helpers, `helpers/basic_helper.js` | none | validation, conversion factors and rates | | rounding, bounds |
| Setup and deployment, `tools/setup`, `tools/deploy`, `start_services.js` | setup in memory, env file, folder, geth processes, roles of the contracts | ordered steps, chain checks | geth, shell, both chains | order, helpers that never settle, a half-done setup |
| Minting tools, `tools/setup/branded_token/mint.js`, `start_stake.js` | the staker's balance and allowance | give, approve, stake twice, compare balances | both chains, the stake communicators | runs that share the staker, credits taken for one's own |
| Query services, configuration, formatting, storage wrappers | none of their own | one request each | | |

What makes each correct: the loop loses no event, reorders none and handles none
that is taken back; the queue processes each event once per announcement
at most, and not after it was removed;
a stake (redemption) goes through its stages once and in order, nothing is
minted (released) that is not locked (burnt) on the other chain, and it gets
to the end; a registration is the same on both chains, and so is what the token
file says of it; the cached balance of a token holder never promises more than
the chain has and settles in the end; who transfers is told the truth about it;
a setup that reports success has done everything, and gives up its roles last;
a minting run that reports success was minted.

`PROJECT.json` lists the components with their status and every hazard with its
line and the properties that cover it.

## 2. Modules

| Module | Models | Role |
|---|---|---|
| `EventLog` | the chain as a communicator sees it: blocks mined, blocks taken back | environment (external) |
| `EventFeed` | what a scanning communicator promises: events handed over in order, final, without gaps | abstract specification |
| `Intercom` | `services/inter_comm/base.js` | EXTENDS `EventLog`, implements `EventFeed` |
| `EventQueue` | `lib/web3/events/queue_manager.js`, `processor.js`, `onEvent` | |
| `StakeLifecycle` | what stake and mint promises for one stake | abstract specification |
| `StakeAndMint` | handlers of `stake_and_mint.js` and `stake_and_mint_processor.js`, contract calls of `openst_value.js`, `openst_utility.js`, `utility_registrar.js`, receipts of `helper.js` | implements `StakeLifecycle`; both chains and two communicators composed |
| `RedeemAndUnstake` | `executables/inter_comm/redeem_and_unstake*.js`, `services/redeem_and_unstake/*`, their contract calls | both chains, the redeemer and two communicators composed |
| `ConversionRate` | conversions of `helpers/basic_helper.js` | pure operators |
| `RegisterBrandedToken` | `services/inter_comm/register_branded_token.js`, `tools/setup/branded_token/register.js`, `services/on_boarding/*` | EXTENDS `ConversionRate`; tools, file, chains and communicator composed |
| `BrandedTokenTransfer` | `transfer` and `claim` of `lib/contract_interact/branded_token.js`, receipt search of `helper.js`, `estimate_gas.js`, the transfer service | |
| `PlainTransfer` | `transfer` of `simple_token.js`, `ether.js`, `st_prime.js` and the services in front of them | |
| `Setup` | `tools/setup/index.js`, `performer.js` and their helpers, `tools/deploy/*`, `start_services.js` | |
| `MintTool` | `tools/setup/branded_token/mint.js` and the staking service | |
| `Sums` | sums of a function over a finite set | used by `BrandedTokenTransfer` and `MintTool` |
| `MC*` | instances for TLC | |
| `*_proofs` | theorems | EXTEND the module they are about; those about `MintTool` are in `BrandedTokenTransfer_proofs`, which EXTENDs it as well |

`Mutant...` operators stand for a plausible bug in the definition that follows
them. They are never used by the specifications; replacing the definition with
its mutant makes the property named in `PROJECT.json` fail.

How the modules fit together: `Intercom` and `EventQueue` describe the two ways
events reach a handler, and prove what a handler may rely on. `StakeAndMint` and
`RegisterBrandedToken` take from `Intercom` that windows follow each other
without gaps and start again after a kill; `RedeemAndUnstake` takes from
`EventQueue` that an event is processed once, as it is unless it is announced anew
after its processing began (`NoSpuriousRun`). `MintTool` takes from
`StakeAndMint` that a stake is minted once, and later. The tools of `Setup` and
the communicators they start meet in the env file and in `comms`.

### Intercom

| Model | Code |
|---|---|
| `pc` | the await or timer the loop is at: `height` (base.js:59), `logs` (69), `handle` (147, 156), `idle` (169), `reinit` (180), `down` for no process |
| `lastProcessed`, `fromBlock`, `toBlock`, `interrupted` | `snmData.lastProcessedBlock`, `fromBlock`, `toBlock`, `interruptSignalObtained` |
| `pending`, `inflight` | events of the loop of line 128 not yet passed to `processEventObj`, and those whose promise is open |
| `file` | `lastProcessedBlock` in the checkpoint file, or `Torn` |
| `started`, `settled` | history: what the handlers were called for, and which of them have settled |

One action per await: `GetHeight`, `GetLogs`, `StartHandler`, `SettleHandler`,
`FinishWindow`. The code between two awaits is atomic in JavaScript, so
`FinishWindow` includes the file write, the exit of an interrupted process and
the timer of `schedule`. `RpcFails`, `SaveFails` and `Catch` are the exceptions;
`Crash` is a kill at any point. The early return of line 62 is not modelled as a
guard because it compares with a field that is never set; see section 5.
A handler is abstract here: it takes a while and resolves or rejects.

A block carries at most one event: the loop never looks below a block, and
several events of a window come from several blocks. In the overlapping mode a
timer per event keeps the order of the calls, so `MayStart` asks for the
earliest pending event in both modes.

### EventQueue

One `EventProcessor` object is an element of `Handlers`, with the fields the
code keeps (`eventObj` only as null or not). `Data` and `Changed` are the two
callbacks, `TimerFires`, `Processed` the timer and the promise. Callbacks run to
completion, so each is one action. `known` and `starts` are history.

The subscription and `web3` are external, and nothing in the repository limits
them: a log may be announced again at any time, while it is processed and after
that. Then the end of one run clears the queue entry of another object, or empties
the object that has a second timer: `stranded` is history and holds the events
whose timer the queue has so lost (`CutOff`), `again` counts the announcements
that came after the first start. A timer of an emptied object ends the process
(`TimerFires`).

### StakeAndMint

Both communicators are base.js loops. Of a loop only its windows are kept:
positions in the log of events (`cursor` the checkpoint, `started`, `window`)
instead of block numbers, events final. `Intercom` shows that this is what a
handler sees: the windows follow each other without gap, a kill or an unwritten
file starts the window again from the checkpoint (`Rewind`), and a window is
closed when every handler has settled, well or not.

`phase` says which contract call a handler is at. `Send` is the gas estimate
and the transaction of `openst_value.js:182` and its like, `MineTx` and
`RevertTx` the transaction's end together with the receipt the handler reads,
`PollFails` a receipt request that is rejected. Transactions outlive the process
that sent them (`awaited` becomes FALSE). Confirmations come from one account
and are mined in the order they were sent in; the processor's transactions are
mined in any order, which allows more than a node does.

What the contracts accept is read off their callers: an intent is confirmed
once and not after a later one of the same staker (CHANGELOG.md:38), processed
once after it was declared, minted once after it was confirmed; a claim pays out
everything minted for a beneficiary, and with nothing to pay it may succeed or
fail.

### RedeemAndUnstake

| Model | Code |
|---|---|
| `step`, `approval`, `nonce` | the redeemer: `approve` and its status (`approveOpenStUtilityContract.js`, `getApprovalStatus.js`), `startRedeem` with the nonce it has read |
| `phase` | per communicator, where the processor of an event is: `queued`, or the contract call it makes |
| `balance`, `allowance`, `usedNonce`; `seenNonce` | what the utility chain and the value chain know of the redeemer |
| `declared`, `confirmed`, `burned`, `released` | the stages of a redemption on the two chains |
| `txs` | transactions sent and not mined; `awaited` as long as the sender polls for the receipt |
| `unburnt` | history: handlers whose processRedeeming came back as a failure |

`ConfirmIntent` and `ProcessConfirmed` are the two processors the queue calls,
`Send` a `safeSendFromAddr` without an estimate, `Mine...` the transactions with
the receipt the handler reads. Nothing looks at that receipt (processor.js:173),
so processUnstaking follows a processRedeeming that has failed; the model goes on
as the code does. A kill loses the events and the handlers, not the transactions.

### RegisterBrandedToken and ConversionRate

| Model | Code |
|---|---|
| `step`, `proposal`, `erc20`, `read` | `register.js`: validation, address, proposal, polling, the file as it was read |
| `file`, `torn`, `damaged` | the token file; `writeFile` cuts it first, so it can be read half written, or left so |
| `phase` | per proposal, its event with the communicator: not delivered, at one of the two calls, settled, behind the checkpoint (`past`) |
| `onUC`, `onVC`, `proposed`, `txs` | the registrars of the two chains and the transactions under way |
| `raced` | history: two tools have updated the file at the same time |

The communicator is a base.js loop whose handlers overlap. A window is any set of
proposals not yet delivered, which allows more than blocks do; a kill or an
unwritten checkpoint delivers the window again. `PollFails` is the receipt
request without a catch, which leaves the window open for ever.

A conversion factor is a whole number of steps of 10^-6, one digit finer than a
conversion rate can carry, so that a factor that cannot be converted exists. The
code's arithmetic is exact (BigNumber), and so is the model's.

### BrandedTokenTransfer

| Model | Code |
|---|---|
| `step` | the await a transfer is at: `balance` (branded_token.js:328), `reserve` (334), `gas` (355), `send` (399), `receipt` (418), `search` (446), `credit` (382), `debit` (384), `rollback` (425); or how it ended |
| `settled`, `unsettled` | `settled_balance` and `un_settled_debits` in the storage; `Available` is what `getBalanceOf` shows |
| `answer` | what `transfer` was resolved with, by return type |
| `balance`, `tx`, `claimable`, `claimTx`, `paid` | the utility chain |
| `misjudged` | history: transfers whose end the code has guessed: rolled back although the transaction can still be mined, or settled although it is reverted |

`send` and `receipt` are one promise in the code, and its `catch` (420-458)
takes every rejection but `not mined within` for a failed transaction. web3
rejects there also when a request fails: after the node has accepted the
transaction (`SendFails`), or for its receipt (`ReceiptFails`). The debit is
then given back and the caller answered with an error, with the transaction
still to be mined.

A gas estimate is a trial run on the latest block, so it fails when the chain's
balance does not suffice any more. Updates of the storage are atomic additions
(openst-storage); a failed one changes nothing, and after the receipt its result
is not looked at. The mode modelled is STANDALONE_MODE 1, in which `onReceipt`
settles the storage; in the other mode that is left to programs outside the
repository.

### PlainTransfer

One module for three classes that are the same up to who estimates gas and what
a transaction is paid with. `step` is the await a transfer is at, `answer` what
its promise was resolved with (once: `onResolve`), `published` its
notifications. A transaction that can no longer be paid for stays pending; one
that is refused by the token contract is mined and `reverted`. After 50 blocks
without a receipt the code searches some more and then decides by itself; when a
request fails after the node has the transaction, at once (`SendFails`,
`ReceiptFails`). A decision before the chain's, or against it, is remembered in
`misjudged`. The early refusal of a transfer to oneself or of nothing is
`Valid`.

### Setup

A process is the list `calls` of what it has still to do: `Perform(step)` unfolds
a command into the calls of `performer.js`, in their order, each a record of what
is done, on which chain, by whom, to what, and which names and keys it `needs`.
One action per kind of call: the shell (`StopServices`, `FreshSetup`,
`CreateAddresses`, `InitChain`, `CopyKeys`, `ImportKeys`, `StartGeth`, ...), the
env file (`WriteEnv`, `NameContract`), the chain checkers (`Poll`, `GiveUp`,
`ChainsReady`) and the transactions (`DeployContract`, `SetOpsAddress`, ...).

| Model | Code |
|---|---|
| `mem`, `env`, `disk` | `setupConfig` of the process, the env file, the setup folder |
| `seen`, `tries`, `ready` | `blockNumber`, `retryCounter` and the promise of a `geth_checker.js` |
| `up`, `comms`, `height` | geth processes, communicators, blocks |
| `dying` | those that a background kill was sent to and that have not ended yet |
| `stale`, `heard` | those that still run from before the folder was removed; history: the chains such a geth has answered for |
| `contracts`, `ops`, `offered`, `facts`, `funds` | what the chains know: deployed contracts, their ops address, offered ownerships, single facts, who has money |
| `status` | also `hung`: a promise nobody settles |

`OnRejection` and `OnFailure` are the tables of what each helper does when a
request is rejected or a transaction fails. They differ, and that is the point:
some results are not looked at, some end the process, and since
`runHelperService` (performer.js:210) does not settle when a helper rejects, some
leave the process hanging. What a shell command does is one step that works or
does not. The exception are the kills of `stopServices`: they are sent in the
background and nobody waits for them or looks at them (service_manager.js:81,117),
so a service that is `dying` ends when it likes (`ServiceEnds`), may still be there
when the next command starts one in its place (`RunGeth`: the new one finds the
port taken), and answers the chain checkers meanwhile (`Number`).

### MintTool

`mintStep` is what a run of the tool awaits: the gift of the foundation, its
receipt, the staker's balance, the approval, then for branded tokens and for ST
Prime the stake, the balance before (read after the stake, mint.js:146) and the
poll for a higher one. A reserve is an account like any other, and what the tool
compares is its balance: `MoveReserve` is whatever others send to it or it sends
away. `misled` and `drained` are history: the stakes for which, while a run
waited, tokens arrived that were not its own, or tokens left. All runs share
`staker` and `allowance`, and their transactions one nonce order (`sent`).
`Credit` is what the communicators do in between. Nine tenths of the amount are
for branded tokens, rounded down. `disturbed` is history: the runs that
overlapped with another one.

## 3. Runs

Bounds are those of the `.cfg` files. `CHECK_DEADLOCK FALSE` is used where the
bounded environment comes to rest: no further event, request, run or command
(and in `Intercom` with cut writes, where an unreadable checkpoint file really
is the end).

| Run | Checks | Bounds |
|---|---|---|
| `intercom_seq` | `IInv`, `NoEventSkipped`, `OnlyFinalEventsHandled`, `InOrder`, `GracefulStop`, `ImplementsFeed` | two events, four blocks, reorganisations of one block, a kill, cut writes |
| `intercom_par` | `FinalEventsHandled` | the same with overlapping handlers, no cut writes, fair |
| `queue_live` | `IInv`, `RemovedNotStarted`, `QueuedEventStarted` | two events, four objects, five notifications, also for events that are or were processed, one kill, fair |
| `stake_safe` | `IInv`, `MintsAreBacked`, `NoIntentPassedOver`, `CarriedThrough`, `ImplementsLifecycle` | two stakes of one beneficiary, one kill, one unwritten checkpoint, one failure |
| `stake_live` | `StakesAreMinted` | a third stake from another address, no kill, no failure, fair |
| `stake_restart` | the finding of section 5 | one kill |
| `redeem_safe` | `IInv`, `ReleaseFollowsBurn`, `RedemptionsReleased` | two redemptions of the internal address, one of somebody else, two tokens, one kill, one failure, fair |
| `register_safe` | `IInv`, `ValueChainFollows`, `FileTruthful`, `DoneIsRecorded`, `ProposalsComplete` | two tools; tokens with the factors 0.5, 10 and 0.000015; one kill of a tool, one of the communicator, one failure, fair |
| `transfer_safe` | `IInv`, `NeverOverpromises`, `BalancesSettle`, `AnswersTrue` | two transfers out of four requests, two claims of one beneficiary, one failure, also after the node has the transaction, one late transaction, one kill |
| `plain_transfer_safe` | `IInv`, `AnswersTrue`, `NotificationsTrue`, `TransfersEnd`, `AffordableMoves` | two transfers between two accounts in three currencies, a fee of one, one failure, also after the node has the transaction, one late transaction, one kill, fair |
| `setup_safe` | `SetupComplete`, `RolesGivenUpLast`, `DeployedOnLiveChains`, `SetupEnds` | five sequences of commands, three polls of a checker (`RetryAttempts` 2), three blocks, one kill, one failure, services that end late, fair |
| `mint_safe` | `StakesAccepted`, `OwnTokensMinted`, `RunsEnd` | two runs, two tokens, a foundation of 15 ST that cannot pay for everything, one transfer to or from a reserve, one failure, one kill, fair |

What they show, where the name does not say it:

* `CarriedThrough`, `NoIntentPassedOver`: with overlapping handlers and nonces
  that must rise, no stake is lost behind a checkpoint, unless something was
  killed or failed. `stake_restart` shows that the condition is needed.
* `ReleaseFollowsBurn`: although no receipt is looked at, a stake is released
  for tokens that still exist only after a failed transaction. What follows from
  such a failure is in the model (`unburnt`).
* `ValueChainFollows`, `FileTruthful`: kills, redelivery and transactions that
  are mined after their handler has gone do not break the order of the two
  registrations, nor what the file says; a race of two tools loses an entry
  (`raced`) but writes no wrong one.
* `RemovedNotStarted`: whatever is announced again and whenever, a removal stops the
  processing, except when the timer was cut off from the queue. `IInv` has when that
  is: a run has ended while the object of a further announcement waited.
* `AnswersTrue`, `NotificationsTrue`, `NeverOverpromises`: the calls that guess are
  exempt, so these say that the code is right wherever it waits for the chain's
  decision, and that one guess spoils nothing for other transfers' answers.
* `DeployedOnLiveChains`: the checker's two different block numbers do mean that
  both chains make blocks, in the first process and in later ones, unless it was an
  old geth that answered (`heard`).
* `SetupComplete`: that nothing still runs is not claimed; a setup that exits with 0
  has sent the kills, and a failed one is not seen.
* `StakesAccepted`, `RunsEnd`: one run at a time always finds its ST and its
  allowance and ends, if every run that stakes was given its ST (`OwnMeans`).
  `RunsEnd` excuses what the tool cannot recover from: a gift that the
  foundation refused (`GiftRefused`), a credit that came before the look at the
  balance (`TooLate`), tokens that left the reserve (`Drained`).
* `OwnTokensMinted`: what arrived at the reserve before the first look, or left it,
  does not make the tool believe in a stake that was not minted; only tokens that
  arrive between its two looks do (`misled`), which the code cannot tell apart.

Why the bounds are enough to be interesting: two events make order, a window of
several events and a window border; `Confirmations` is 1 instead of 6 with
reorganisations as much shorter, and only their relation matters to the code;
one kill and one failure already fall into every gap between two steps, and the
proofs cover any number; two tools, transfers, runs and redemptions are what
races need. In `EventQueue` an object is needed per announcement that finds none.
Three polls of a chain checker leave one to see no block, one to see a first
and one to see a second.

## 4. Fairness

* Intercom: timers fire, promises of handlers settle and a stopped process is
  started again (weak). A request that is repeated for ever succeeds for ever
  again, and so does the write of the file (strong on `GetHeight`, `GetLogs`,
  `FinishWindow`): base.js retries through `reInit` and needs no more. Nothing
  is assumed of the environment.
* EventQueue: timers fire, the processor's promise settles, a dead process is
  started again. The node owes nothing.
* StakeAndMint: loops go on, handlers get an answer, sent transactions are mined
  (weak).
* RedeemAndUnstake: queued events are processed and handlers go on; each sent
  transaction is mined. The redeemer owes nothing.
* RegisterBrandedToken: tools, handlers and windows go on, transactions are
  mined (weak); a checkpoint that can be written again and again is written in
  the end (strong, as in Intercom).
* PlainTransfer: requests are answered, a transaction that can always be paid for
  is mined.
* Setup: a process goes on; ST Prime that was staked for is minted by the
  communicators. Nothing is assumed of the operator or of the chains: a checker
  that sees no blocks gives up.
* MintTool: runs go on, transactions are mined, stakes that were mined are
  credited.
* BrandedTokenTransfer: none, only safety is checked.

Liveness properties name what excuses them: `crashes`, `kills` and `faults`, for
the code does not retry a failed call, does not take up what a killed process had
begun (except in base.js), and polls without a catch.

## 5. Where the code and its documentation part

Checked, with a run that finds the counterexample:

* `stake_restart`: a kill between processStaking and processMinting strands the
  stake. The window is delivered again, processStaking fails because it is done,
  the handler ends there and the checkpoint moves past it
  (stake_and_mint_processor.js:187), while CHANGELOG.md:34 says that after a
  restart the processing continues from where it left.

In the models, as the code has it, without a run of its own:

* base.js:62 compares with `oThis.lastProcessedBlock`, which is never set (the
  number is in `oThis.snmData`): a height that went back moves the checkpoint
  back. Events are handled again, none is lost.
* base.js:140, 148: a rejected handler is swallowed and its event passed over for
  good, against CHANGELOG.md:34 as well.
* A checkpoint file that was cut short (`Torn`) can never be read again.
* queue_manager.js:103, 193: when an event is announced again while it is
  processed, the end of one run clears the queue entry of another object, and a
  removal no longer finds the timer (`stranded`); or it empties the object whose
  timer is running, which ends the process when it fires (processor.js:118).
* Events announced before or during a restart of the redeem-and-unstake
  communicators are lost: these have no checkpoint.
* helper.js:310: one rejected receipt request stops the caller for good, and with
  it the window and the loop of a communicator.
* branded_token.js:355: the gas estimate after the reservation is rejected
  outside the promise whose catch block gives the reservation back.
* A transfer is rolled back although it is mined later, after the search for its
  receipt or at once when one receipt request fails (branded_token.js:457), or
  settled whatever the status of its late receipt (`misjudged`). The same
  guesses are made in simple_token.js:400-434, ether.js:228-262 and
  st_prime.js:330-366, for answers and notifications.
* redeem_and_unstake_processor.js:173: processUnstaking follows whatever became
  of processRedeeming.
* register.js:222: two tools read, change and write the token file; the slower
  one removes the other's entry.
* mint.js:87: the answer of the foundation's transfer is not looked at. Three
  runs after each other, none beside another: the first is killed with a stake
  on its way; the second, whose gift the foundation refuses, stakes the ST of
  the first and is killed; the third is given its ST and finds its second stake
  refused, since the staker lacks what the second run took. Hence `OwnMeans` in
  `StakesAccepted`; two runs do not show it, the attempt to prove the property
  without it did.
* mint.js:146: the balance to compare with is read after the stake, so a credit
  that is fast is never seen (`TooLate`).
* mint.js:156, 189: any tokens that arrive at the reserve are taken for the credit
  of the stake (`misled`), and what leaves it hides the credit (`drained`).
* service_manager.js:81, 117: nobody waits for the kills or looks at their result. A
  geth that outlives its kill answers geth_checker.js, and keeps the new one from
  starting.
* platform_status.js:86-96 names `basicHelper`, which the file does not require: the
  checker that gives up ends the process with a ReferenceError where it wants to
  reject.
* tools/setup/index.js:25-33 lists the steps to run one by one. A process that
  starts at `st_contract` has no accounts in its `setupConfig` and the env file it
  writes does not name them; its next helper waits for ever. `setup_safe` has that
  sequence of commands; `SetupEnds` is about the step `all`.

## 6. Proofs

Checked by TLAPS for all values of the constants, from the ASSUMEs of the
modules (bounds are natural numbers, JavaScript's null is no event, ...).

* `Intercom_proofs`. `ConfirmedIsFinal` (no reorganisation is deeper than the
  confirmations) is the assumption everything rests on. `NoEventSkipped` is not
  inductive: a checkpoint says something about a part of the chain, so one has
  to know that this part is final (`Final`), that a window starts right after
  the checkpoint (`WindowInv`) and that each of its events is pending, in flight
  or settled. `IInv` says that, `InductiveInvariant` proves it;
  `NoEventSkippedHolds`, `OnlyFinalEventsHandledHolds`, `InOrderHolds`,
  `GracefulStopHolds` and `Refinement` (the loop implements `EventFeed`) follow.
* `EventQueue_proofs`. `QueueInvariant`, and from it `NoSpuriousRunHolds`,
  `TimerCancellableHolds` and `RemovedNotStartedHolds`, with no assumption about
  what is announced when. The key is that an object with a running timer is the
  queued one of its event unless it was cut off (`TimerInv`), and that a timer
  is a start to come: starts and timers of an event together never exceed the
  announcements that allow them (`CountInv`), because before the first start an
  event has one object and one timer. An event is only cut off with a run behind
  it and a timer beside it, which takes a further announcement (`StrandedInv`).
* `StakeAndMint_proofs`. `StakeInvariant`, `MintsAreBackedHolds`,
  `LifecycleRefinement`. `MintsAreBacked` needs to know where a handler at
  processMinting and a processMinting transaction come from, including those
  whose sender was killed (`HandlerInv`, `TxInv`).
  Two invariants are added to that one. `OrderInv`, for
  `NoIntentPassedOverHolds`: the facilitator has at most one handler, that of the
  last event started, so confirmations are sent in the order of the log, and an
  earlier intent of the same staker is confirmed or in front in the queue of
  transactions. A redelivered intent is skipped or refused; only a failure makes
  a gap, hence `faults = 0`. `CarryInv`, for `CarriedThroughHolds`: as long as
  nothing was killed or has failed, every transaction is that of the one handler
  of its intent, whose call tells how far the stake is, so no call is refused.
* `BrandedTokenTransfer_proofs`. `TransferInvariant` has two parts. `CallsInv`
  relates what a transfer awaits, how it ended and what it answered to its
  transaction; no step of another transfer or of a claim disturbs that
  (`OneTransfer`), so `AnswersTrueHolds` follows for any number of them.
  `BalanceInv` is the bookkeeping. `LedgerInv`: the chain has at least what is
  shown, what is held for transfers not settled yet, and what is due to the
  account but not yet added to the store; each call that dies leaves an
  inequality where there was an equality, and always in the same direction.
  `NeverOverpromisesHolds` follows. `CalmInv` is the equality, as long as nothing
  failed or was killed; `BalancesSettleHolds` follows when nothing is left under
  way. Both are about sums over all transfers, and the prover has no induction
  for them: `Sums` defines a sum as the number of its units, pairs of an element
  and a number up to its value, and the library's theorems on the cardinality of
  finite sets then give all that is needed (`UnitsFinite` to `PayoutMoves`): a
  sum changes by what one element changes by.
* The last part of `BrandedTokenTransfer_proofs` is about `MintTool`. It is
  there because its sum, the ST that the runs have left of what they were given,
  rests on the same lemmas; that is why the names of the tool's module differ
  from those of the transfer's (`MintSpec`, `mintStep`). `MintInvariant`: a
  run's step tells what it has approved and staked (`RunInv`); the staker's
  queue of transactions holds what is pending, once, and of a run that was alone
  its stakes are in front and its approval is behind everything else (`SentInv`,
  `AloneInv`, `QueueInv`), so no approval of an earlier run can replace its
  allowance any more; the staker has just what is left to the runs, and the
  allowance covers what is left to the one that was alone (`MeansInv`).
  `StakesAcceptedHolds` follows. `CreditInv`, for `OwnTokensMintedHolds`: while a
  run waits for a stake that was not credited, and nothing of others has arrived,
  the reserve has no more than when the run looked first, so a run goes on only
  with its stake credited or with tokens of others arrived.
* `PlainTransfer_proofs`. `TransferInvariant` does the same with the
  notifications added (`StepInv`); `AnswersTrueHolds` and
  `NotificationsTrueHolds` follow.
* `RedeemAndUnstake_proofs`. `RedeemInvariant`: where a handler is and which
  transactions it has left behind tell what has happened to its redemption
  (`HandlerInv`, `TxInv`), and without a failure a burn is only refused for
  tokens that are burnt already (`ExcuseInv`). `ReleaseFollowsBurnHolds` follows.
* `RegisterBrandedToken_proofs`. `RateReadsBack` is the arithmetic of the two
  conversions: a factor that is accepted comes back as it was. In
  `RegistrationInvariant` a handler or a transaction at the value chain comes
  after the utility chain (`HandlerInv`, `TxInv`), and a tool that has seen both
  registrations, and whatever it has read, can be relied on for ever because
  nothing is unregistered (`ToolInv`). `ValueChainFollowsHolds` and
  `FileTruthfulHolds` follow; the second needs `RateReadsBack`.
  `DoneIsRecordedHolds` needs to know, unless two tools have updated the file at
  the same time, that the one that does still has in `read` what the file says,
  without its own token (`RecordInv`), so it writes back the entries that were
  there before.
* `Setup_proofs`. What a process has still to do is a list, so `SetupInvariant`
  is first about the order of that list (`CallsInv`): what comes before what,
  what is followed by what. Both survive when the head is taken off, and each
  script is shown to have them from the parts it is joined from. Then: a checker
  that is done has seen two blocks, and keys are imported only after it
  (`LiveInv`), which gives `DeployedOnLiveChainsHolds`; the roles of
  valueRegistrar are given up after ST Prime is registered and the ownership is
  offered last, also if the process before left the contracts half-way
  (`RolesInv`), which gives `RolesGivenUpLastHolds`; and in a process that runs
  all steps every call is still to be made, or went through and has left what it
  is for (`WholeInv`), so with no call left and exit status 0
  `SetupCompleteHolds`. Of the services it says no more than that each has been
  sent its kill, if nothing failed (`KillsSent`). `TypeCorrect` is the type
  invariant. The commands are any set of sequences of strings.

Only model-checked: the liveness properties (`FinalEventsHandled`,
`QueuedEventStarted`, `StakesAreMinted`, `RedemptionsReleased`,
`ProposalsComplete`, `TransfersEnd`, `AffordableMoves`, `SetupEnds`, `RunsEnd`),
since fairness and ENABLED are out of the prover's reach. Every safety property
of the passing runs is a theorem. The invariants of `Setup` and `MintTool` were
model-checked as well before they were proved, on the instances of `setup_safe`
and on three runs of the tool; no run of section 3 repeats that, since their
theorems imply it. Induction over data is not available in the prover; where a
sum is needed it is a cardinality. No module declares a RECURSIVE operator.

## 7. Not modelled

* The contracts and geth are external: what a contract accepts is what its
  callers rely on, and where they do not tell, both outcomes are allowed
  (`MayRefuse`).
* `getOwner` of owned.js:79-85 reads `proposedOwner`; nothing depends on what it
  returns, so the ownership that is offered (`offered`) is all `Setup` keeps.
* The results of finalize, addCore and the transfers of the setup are not looked
  at by the code, and `SetupComplete` says nothing of them.
* The notifications of the communicators (register_branded_token.js:45 and its
  like) are sent and never read in the repository. Those of the transfers are
  modelled.
* `approve` of branded_token.js, and getters: no state that the platform keeps.
* A redemption whose event is processed twice because it was announced anew:
  `EventQueue` says when that is, `RedeemAndUnstake` processes each event once.
* The mode of the token transfers in which another program settles the storage.
* Query services make one request and keep nothing. Storage, scaling, logging,
  formatting, configuration, gas prices and limits beyond "a transaction may
  fail", key files and what shell commands do inside, the documentation pages
  and their scripts.
* The shape of names, symbols and addresses: a request is well formed or not.

What would be next: an abstract specification of a registration and of a
redemption, which the two modules implement as `StakeAndMint` does its own, and
the scaling mode of the balance cache once its programs are at hand.
