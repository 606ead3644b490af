------------------------------- MODULE MintTool -------------------------------
(***************************************************************************)
(* tools/setup/branded_token/mint.js: each run of the tool stakes ST for one  *)
(* branded token and for ST Prime, and waits until the reserve of the token  *)
(* was credited with both.  All runs stake from the one address of the       *)
(* staker, out of one allowance, which every run sets to the balance it sees. *)
(*                                                                         *)
(* Between a stake that was mined and its credit on the utility chain lie the *)
(* communicators, which StakeAndMint describes; here they are one step that   *)
(* takes its time.  The reserves are accounts like any other: what the tool  *)
(* compares moves with every transfer to and from them, and with their gas.  *)
(*                                                                         *)
(* Its proofs share a module with those of BrandedTokenTransfer, so what    *)
(* would have the same name there says Mint here.                          *)
(***************************************************************************)
EXTENDS Integers, Sequences, FiniteSets, Sums

CONSTANTS
  Runs,           \* bound: the runs of the tool
  Tokens,         \* branded tokens, each with a reserve of its own
  MintRequests,   \* what the tool may be asked to stake, and for which token
  Foundation,     \* ST of the foundation at the start
  Moved,          \* what others may transfer to a reserve, or the reserve to them
  MaxMoves,       \* bound: such transfers
  MaxMintFaults,  \* bound: requests that fail
  MaxKills        \* bound: runs ended from outside

Parts == {"BT", "STPrime"}  \* what ST is staked for

ASSUME MintToolAssumption ==
  /\ IsFiniteSet(Runs)
  /\ MintRequests \subseteq [token : Tokens, amount : Nat]
  /\ Foundation \in Nat
  /\ Moved \subseteq [token : Tokens, part : Parts, amount : Nat]
  /\ MaxMoves \in Nat
  /\ MaxMintFaults \in Nat
  /\ MaxKills \in Nat

VARIABLES
  foundation,   \* its ST
  staker,       \* ST of the staker
  allowance,    \* what openSTValue may take of it
  sent,         \* transactions of the staker not yet mined, in the order of their nonces
  gift,         \* per run: the transaction of the foundation
  approval,     \* per run: the transaction of approve
  stake,        \* per run and part: how far the stake came
  credit,       \* per token and part: balance of its reserve
  mintStep,     \* per run: what it awaits, or how it ended
  mintRequest,  \* per run: token and amount
  seen,         \* per run: the balance it compares with, or approves
  disturbed,    \* history: runs another one overlapped with
  misled,       \* history: runs and parts, when somebody else's tokens arrived
                \* while the run waited for its own
  drained,      \* history: the same, when tokens left
  mintFaults, kills, moves

mintBounds == <<mintFaults, kills>>
reserves   == <<misled, drained, moves>>
chain      == <<foundation, staker, allowance, sent, gift, approval, stake, credit>>
mintVars   == <<chain, mintStep, mintRequest, seen, disturbed, reserves, mintBounds>>

SentStates  == {"none", "pending", "mined", "failed"}
StakeStates == {"none", "pending", "refused", "failed", "staked", "credited"}
Running     == {"transfer", "transferGas", "transferReceipt", "balance", "approve",
                "approvalReceipt", "BT", "beforeBT", "waitBT", "STPrime", "beforeSTPrime",
                "waitSTPrime", "stuck"}
Exited      == {"exit 0", "exit 1", "killed"}
NotAsked    == [token |-> "", amount |-> 0]
Txs         == [run : Runs, kind : {"approve"} \cup Parts]

MintTypeOK ==
  /\ {foundation, staker, allowance} \subseteq Nat
  /\ sent \in Seq(Txs)
  /\ gift \in [Runs -> SentStates]
  /\ approval \in [Runs -> SentStates]
  /\ stake \in [Runs -> [Parts -> StakeStates]]
  /\ credit \in [Tokens -> [Parts -> Nat]]
  /\ mintStep \in [Runs -> {"new"} \cup Running \cup Exited]
  /\ mintRequest \in [Runs -> MintRequests \cup {NotAsked}]
  /\ seen \in [Runs -> Nat]
  /\ disturbed \subseteq Runs
  /\ misled \subseteq Runs \X Parts
  /\ drained \subseteq Runs \X Parts
  /\ moves \in 0..MaxMoves
  /\ mintFaults \in 0..MaxMintFaults
  /\ kills \in 0..MaxKills

MintInit ==
  /\ foundation = Foundation
  /\ staker = 0
  /\ allowance = 0
  /\ sent = <<>>
  /\ gift = [r \in Runs |-> "none"]
  /\ approval = [r \in Runs |-> "none"]
  /\ stake = [r \in Runs |-> [p \in Parts |-> "none"]]
  /\ credit = [t \in Tokens |-> [p \in Parts |-> 0]]
  /\ mintStep = [r \in Runs |-> "new"]
  /\ mintRequest = [r \in Runs |-> NotAsked]
  /\ seen = [r \in Runs |-> 0]
  /\ disturbed = {} /\ misled = {} /\ drained = {}
  /\ mintFaults = 0 /\ kills = 0 /\ moves = 0

MintFault   == mintFaults < MaxMintFaults /\ mintFaults' = mintFaults + 1 /\ UNCHANGED kills
NoMintFault == UNCHANGED mintBounds

Token(r)         == mintRequest[r].token
AmountToStake(r) == mintRequest[r].amount
Await(r, s)      == mintStep' = [mintStep EXCEPT ![r] = s]
See(r, n)        == seen' = [seen EXCEPT ![r] = n]

\* amountToStakeForBT: nine tenths without their fraction; the rest is for ST Prime.
ForBT(n) == (9 * n) \div 10
StakeOf(r, p) ==
  LET n == AmountToStake(r) IN IF p = "BT" THEN ForBT(n) ELSE n - ForBT(n)

-----------------------------------------------------------------------------
(* The chains.                                                             *)

SendTx(r, kind) == sent' = Append(sent, [run |-> r, kind |-> kind])

MineGift(r) ==
  /\ gift[r] = "pending"
  /\ \/ /\ foundation >= AmountToStake(r)
        /\ gift' = [gift EXCEPT ![r] = "mined"]
        /\ foundation' = foundation - AmountToStake(r)
        /\ staker' = staker + AmountToStake(r)
     \/ /\ foundation < AmountToStake(r)
        /\ gift' = [gift EXCEPT ![r] = "failed"]
        /\ UNCHANGED <<foundation, staker>>
  /\ UNCHANGED <<allowance, sent, approval, stake, credit, mintStep, mintRequest, seen,
                 disturbed, reserves, mintBounds>>

\* What approve was called with (approve replaces the allowance).
MineApproval ==
  /\ sent # <<>> /\ Head(sent).kind = "approve"
  /\ sent' = Tail(sent)
  /\ LET r == Head(sent).run IN
       /\ approval' = [approval EXCEPT ![r] = "mined"]
       /\ allowance' = seen[r]
  /\ UNCHANGED <<foundation, staker, gift, stake, credit, mintStep, mintRequest, seen,
                 disturbed, reserves, mintBounds>>

\* openSTValue takes the ST from the staker, or the transaction fails.
Covered(r, p) == allowance >= StakeOf(r, p) /\ staker >= StakeOf(r, p)

MineStake ==
  /\ sent # <<>> /\ Head(sent).kind \in Parts
  /\ sent' = Tail(sent)
  /\ LET r == Head(sent).run
         p == Head(sent).kind IN
       \/ /\ Covered(r, p)
          /\ stake' = [stake EXCEPT ![r][p] = "staked"]
          /\ staker' = staker - StakeOf(r, p)
          /\ allowance' = allowance - StakeOf(r, p)
       \/ /\ ~Covered(r, p)
          /\ stake' = [stake EXCEPT ![r][p] = "failed"]
          /\ UNCHANGED <<staker, allowance>>
  /\ UNCHANGED <<foundation, gift, approval, credit, mintStep, mintRequest, seen,
                 disturbed, reserves, mintBounds>>

Before(p) == IF p = "BT" THEN "beforeBT" ELSE "beforeSTPrime"
Wait(p)   == IF p = "BT" THEN "waitBT" ELSE "waitSTPrime"
After(p)  == IF p = "BT" THEN "STPrime" ELSE "exit 0"

\* The runs that are waiting for a reserve to grow.
Waiters(t, p) == {r \in Runs : mintStep[r] = Wait(p) /\ Token(r) = t}

\* The communicators have minted, and claimed for the reserve.
Credit(r, p) ==
  /\ stake[r][p] = "staked"
  /\ stake' = [stake EXCEPT ![r][p] = "credited"]
  /\ credit' = [credit EXCEPT ![Token(r)][p] = @ + StakeOf(r, p)]
  /\ misled' = misled \cup ((Waiters(Token(r), p) \ {r}) \X {p})
  /\ UNCHANGED <<foundation, staker, allowance, sent, gift, approval, mintStep,
                 mintRequest, seen, disturbed, drained, moves, mintBounds>>

\* Somebody else transfers tokens or ST Prime to a reserve, or the reserve does.
Arrive(t, p, n) ==
  /\ credit' = [credit EXCEPT ![t][p] = @ + n]
  /\ misled' = misled \cup (Waiters(t, p) \X {p})
  /\ UNCHANGED drained

Leave(t, p, n) ==
  /\ credit[t][p] >= n
  /\ credit' = [credit EXCEPT ![t][p] = @ - n]
  /\ drained' = drained \cup (Waiters(t, p) \X {p})
  /\ UNCHANGED misled

MoveReserve(m) ==
  /\ moves < MaxMoves
  /\ moves' = moves + 1
  /\ Arrive(m.token, m.part, m.amount) \/ Leave(m.token, m.part, m.amount)
  /\ UNCHANGED <<foundation, staker, allowance, sent, gift, approval, stake, mintStep,
                 mintRequest, seen, disturbed, mintBounds>>

-----------------------------------------------------------------------------
(* The tool.                                                               *)

Others(r) == {s \in Runs \ {r} : mintStep[s] \in Running}

\* perform refuses an amount of which nothing is left for one of the two stakes.
Splits(n) == n > 0 /\ ForBT(n) > 0 /\ n - ForBT(n) > 0

Begin(r) ==
  /\ mintStep[r] = "new"
  /\ \E q \in MintRequests :
       /\ mintRequest' = [mintRequest EXCEPT ![r] = q]
       /\ \/ /\ Splits(q.amount)
             /\ Await(r, "transfer")
             /\ disturbed' = disturbed \cup Others(r)
                                       \cup (IF Others(r) = {} THEN {} ELSE {r})
          \/ ~Splits(q.amount) /\ Await(r, "exit 1") /\ UNCHANGED disturbed
  /\ UNCHANGED <<chain, seen, reserves, mintBounds>>

\* transferST, of which the answer is not looked at: an error, such as too small a
\* balance, is as good as a receipt.
ValidateSTBalance(r) ==
  /\ mintStep[r] = "transfer"
  /\ Await(r, IF foundation >= AmountToStake(r) THEN "transferGas" ELSE "balance")
  /\ UNCHANGED <<chain, mintRequest, seen, disturbed, reserves, mintBounds>>

\* A refused estimate is thrown: it ends perform, but not the process.
TransferST(r) ==
  /\ mintStep[r] = "transferGas"
  /\ \/ /\ foundation >= AmountToStake(r)
        /\ gift' = [gift EXCEPT ![r] = "pending"]
        /\ Await(r, "transferReceipt")
     \/ foundation < AmountToStake(r) /\ Await(r, "stuck") /\ UNCHANGED gift
  /\ UNCHANGED <<foundation, staker, allowance, sent, approval, stake, credit,
                 mintRequest, seen, disturbed, reserves, mintBounds>>

TransferReceipt(r) ==
  /\ mintStep[r] = "transferReceipt"
  /\ gift[r] \in {"mined", "failed"}
  /\ Await(r, "balance")
  /\ UNCHANGED <<chain, mintRequest, seen, disturbed, reserves, mintBounds>>

\* A failed request is thrown or answered with an error, perhaps after the node
\* has accepted the transaction; one that is not mined within 50 blocks is answered
\* with an error as well.
TransferFails(r) ==
  /\ mintStep[r] \in {"transfer", "transferGas", "transferReceipt"}
  /\ MintFault
  /\ \/ UNCHANGED gift
     \/ mintStep[r] = "transferGas" /\ gift' = [gift EXCEPT ![r] = "pending"]
  /\ \E s \in {"balance", "stuck"} : Await(r, s)
  /\ UNCHANGED <<foundation, staker, allowance, sent, approval, stake, credit,
                 mintRequest, seen, disturbed, reserves>>

\* approve_openst_value_contract.js, _getStakerSTBalance.
GetStakerSTBalance(r) ==
  /\ mintStep[r] = "balance"
  /\ See(r, staker)
  /\ Await(r, "approve")
  /\ UNCHANGED <<chain, mintRequest, disturbed, reserves, mintBounds>>

Approve(r) ==
  /\ mintStep[r] = "approve"
  /\ SendTx(r, "approve")
  /\ approval' = [approval EXCEPT ![r] = "pending"]
  /\ Await(r, "approvalReceipt")
  /\ UNCHANGED <<foundation, staker, allowance, gift, stake, credit, mintRequest, seen,
                 disturbed, reserves, mintBounds>>

\* The service catches whatever is thrown, and the tool exits.
ApproveFails(r) ==
  /\ mintStep[r] \in {"balance", "approve"}
  /\ MintFault
  /\ Await(r, "exit 1")
  /\ UNCHANGED <<chain, mintRequest, seen, disturbed, reserves>>

\* waitAndGetTransactionReceipt.
MutantDoesNotWait(r) == approval[r] # "none"
Approved(r) == approval[r] = "mined"

ApprovalReceipt(r) ==
  /\ mintStep[r] = "approvalReceipt"
  /\ Approved(r)
  /\ Await(r, "BT")
  /\ UNCHANGED <<chain, mintRequest, seen, disturbed, reserves, mintBounds>>

\* A rejected request is the last: the promise never settles.
ApprovalPollFails(r) ==
  /\ mintStep[r] = "approvalReceipt"
  /\ MintFault
  /\ Await(r, "stuck")
  /\ UNCHANGED <<chain, mintRequest, seen, disturbed, reserves>>

\* start_stake.js: what cannot be staked now is refused with the estimate of its
\* gas.  Its answer is not looked at.
StartStake(r, p) ==
  /\ mintStep[r] = p
  /\ \/ /\ Covered(r, p) /\ NoMintFault
        /\ SendTx(r, p)
        /\ stake' = [stake EXCEPT ![r][p] = "pending"]
     \/ /\ (~Covered(r, p) /\ NoMintFault) \/ MintFault
        /\ stake' = [stake EXCEPT ![r][p] = "refused"]
        /\ UNCHANGED sent
  /\ Await(r, Before(p))
  /\ UNCHANGED <<foundation, staker, allowance, gift, approval, credit, mintRequest,
                 seen, disturbed, reserves>>

\* _waitForBrandedTokenMint, _waitForSimpleTokenPrimeMint: the balance before.
ReadBefore(r, p) ==
  /\ mintStep[r] = Before(p)
  /\ See(r, credit[Token(r)][p])
  /\ Await(r, Wait(p))
  /\ UNCHANGED <<chain, mintRequest, disturbed, reserves, mintBounds>>

\* Without it the promise is never resolved.
ReadBeforeFails(r, p) ==
  /\ mintStep[r] = Before(p)
  /\ MintFault
  /\ Await(r, "stuck")
  /\ UNCHANGED <<chain, mintRequest, seen, disturbed, reserves>>

\* getBalance.
MutantNotLess(r, p) == credit[Token(r)][p] >= seen[r]
MutantWholeAmount(r, p) == credit[Token(r)][p] >= seen[r] + AmountToStake(r)
Increased(r, p) == credit[Token(r)][p] > seen[r]

SeeMint(r, p) ==
  /\ mintStep[r] = Wait(p)
  /\ Increased(r, p)
  /\ Await(r, After(p))
  /\ UNCHANGED <<chain, mintRequest, seen, disturbed, reserves, mintBounds>>

\* The request for a balance of branded tokens is made again when it failed, the
\* one for ST Prime is not.
GetBalanceFails(r) ==
  /\ mintStep[r] = "waitSTPrime"
  /\ MintFault
  /\ Await(r, "stuck")
  /\ UNCHANGED <<chain, mintRequest, seen, disturbed, reserves>>

\* Ctrl-C.
Kill(r) ==
  /\ kills < MaxKills
  /\ mintStep[r] \in Running
  /\ kills' = kills + 1
  /\ Await(r, "killed")
  /\ UNCHANGED <<chain, mintRequest, seen, disturbed, reserves, mintFaults>>

-----------------------------------------------------------------------------
Proceed(r) ==
  \/ ValidateSTBalance(r) \/ TransferST(r) \/ TransferReceipt(r) \/ TransferFails(r)
  \/ GetStakerSTBalance(r) \/ Approve(r) \/ ApproveFails(r)
  \/ ApprovalReceipt(r)
  \/ \E p \in Parts :
       StartStake(r, p) \/ ReadBefore(r, p) \/ ReadBeforeFails(r, p) \/ SeeMint(r, p)

Chain(r) == MineGift(r) \/ \E p \in Parts : Credit(r, p)

MintNext ==
  \/ \E r \in Runs :
       \/ Begin(r) \/ Proceed(r) \/ Chain(r)
       \/ ApprovalPollFails(r) \/ GetBalanceFails(r) \/ Kill(r)
  \/ MineApproval \/ MineStake
  \/ \E m \in Moved : MoveReserve(m)

MintSpec == MintInit /\ [][MintNext]_mintVars

\* Requests are answered, transactions mined, and the communicators are running.
MintFairSpec ==
  /\ MintSpec
  /\ \A r \in Runs : WF_mintVars(Proceed(r)) /\ WF_mintVars(MineGift(r))
  /\ \A r \in Runs, p \in Parts : WF_mintVars(Credit(r, p))
  /\ WF_mintVars(MineApproval) /\ WF_mintVars(MineStake)

-----------------------------------------------------------------------------
(* What the tool promises.                                                 *)

Alone(r) == r \notin disturbed

\* No run has sent a stake without having been given its ST.  The tool does not see
\* to that: it goes on when the transfer to the staker was refused (mint.js:87).
OwnMeans ==
  \A r \in Runs :
    (\E p \in Parts : stake[r][p] \notin {"none", "refused"}) => gift[r] = "mined"

\* The ST a run was given and has approved is there when it stakes, in both stakes,
\* though all runs share one balance and one allowance and earlier ones may have
\* been killed half-way: as long as no other runs beside it (mint.js:108), and none
\* has staked ST that it was not given.
StakesAccepted ==
  OwnMeans /\ mintFaults = 0 =>
    \A r \in Runs :
      Alone(r) /\ gift[r] = "mined" =>
        \A p \in Parts : stake[r][p] \notin {"refused", "failed"}

\* A run that exits with 0 has had both its stakes minted, though it does not look
\* at a single answer of start_stake and only compares balances (mint.js:156,189).
\* It may be wrong about a stake only if tokens that were not its own arrived at the
\* reserve between its two looks at the balance: what arrived before, what another
\* run was given elsewhere and what left the reserve does not mislead it.
OwnTokensMinted ==
  \A r \in Runs :
    mintStep[r] = "exit 0" =>
      \A p \in Parts : stake[r][p] = "credited" \/ <<r, p>> \in misled

\* A run ends, unless it is one of those that wait for ever: disturbed by another,
\* refused its ST, too late in reading the balance it compares with (mint.js:146),
\* or with a reserve that was spending while it waited.
TooLate(r)     == \E p \in Parts : mintStep[r] = Before(p) /\ stake[r][p] = "credited"
Drained(r)     == \E p \in Parts : <<r, p>> \in drained
GiftRefused(r) ==
  \/ gift[r] = "failed"
  \/ gift[r] = "none" /\ mintStep[r] \notin {"transfer", "transferGas"}

RunsEnd ==
  \A r \in Runs :
    mintStep[r] = "transfer" ~>
      \/ mintStep[r] \in Exited
      \/ ~Alone(r) \/ ~OwnMeans \/ GiftRefused(r)
      \/ TooLate(r) \/ Drained(r) \/ mintFaults > 0

-----------------------------------------------------------------------------
(* Why they hold.                                                          *)

\* Up to the approval nothing was staked, and what was staked has been approved.
BeforeApproval ==
  {"new", "transfer", "transferGas", "transferReceipt", "balance", "approve", "exit 1"}
Staking == {"BT", "beforeBT", "waitBT", "STPrime", "beforeSTPrime", "waitSTPrime", "exit 0"}
NothingStaked(r) == \A p \in Parts : stake[r][p] = "none"

RunInv(r) ==
  /\ mintStep[r] # "new" => mintRequest[r] \in MintRequests
  /\ mintStep[r] \in {"new", "transfer", "transferGas"} => gift[r] = "none"
  /\ mintStep[r] \in BeforeApproval => approval[r] = "none"
  /\ mintStep[r] \in Staking => approval[r] = "mined"
  /\ mintStep[r] \in {"approvalReceipt", "BT"} \/ approval[r] # "mined" => NothingStaked(r)
  /\ mintStep[r] \in {"beforeBT", "waitBT", "STPrime"} => stake[r]["STPrime"] = "none"
  /\ approval[r] = "pending" => mintStep[r] \in {"approvalReceipt", "stuck", "killed"}
  /\ mintFaults = 0 /\ gift[r] = "pending" =>
       mintStep[r] \in {"transferReceipt", "killed"} /\ approval[r] = "none"

\* The queue of the staker holds what is pending, once.
SentInv ==
  /\ \A i, j \in DOMAIN sent : sent[i] = sent[j] => i = j
  /\ \A i \in DOMAIN sent :
       /\ sent[i].kind = "approve" => approval[sent[i].run] = "pending"
       /\ sent[i].kind \in Parts => stake[sent[i].run][sent[i].kind] = "pending"

AloneInv ==
  \A r, s \in Runs :
    mintStep[r] \in Running /\ mintStep[s] \in Running /\ r # s => ~Alone(r)

\* A run that was alone has its approval behind all that others have sent, and its
\* stakes before it.
StakeOfRun(tx, r) == tx.run = r /\ tx.kind \in Parts

QueueInv(r) ==
  Alone(r) =>
    /\ \A i, j \in DOMAIN sent : StakeOfRun(sent[i], r) /\ j < i => StakeOfRun(sent[j], r)
    /\ mintStep[r] \in Running /\ approval[r] = "mined" =>
         \A i \in DOMAIN sent : StakeOfRun(sent[i], r)
    /\ mintStep[r] \in Running /\ approval[r] = "pending" =>
         sent # <<>> /\ sent[Len(sent)] = [run |-> r, kind |-> "approve"]

\* What is left of the ST a run was given; together that is what the staker has.
Spent(r, p) == IF stake[r][p] \in {"staked", "credited"} THEN StakeOf(r, p) ELSE 0
Unspent ==
  [r \in Runs |->
    IF gift[r] = "mined" THEN AmountToStake(r) - Spent(r, "BT") - Spent(r, "STPrime") ELSE 0]

MeansInv ==
  OwnMeans /\ mintFaults = 0 =>
    /\ staker = Sum(Unspent)
    /\ \A r \in Runs :
         gift[r] = "mined" /\ (mintStep[r] = "approve" \/ approval[r] = "pending") =>
           seen[r] >= AmountToStake(r)
    /\ \A r \in Runs :
         /\ Alone(r) /\ gift[r] = "mined" /\ approval[r] = "mined"
         /\ mintStep[r] \in Running \/ \E i \in DOMAIN sent : StakeOfRun(sent[i], r)
         => allowance >= Unspent[r]

\* The balance a run compares with is not exceeded before its own tokens arrive,
\* and it goes on when they have, unless it was misled.
Provided(r, p) == stake[r][p] = "credited" \/ <<r, p>> \in misled

CreditInv ==
  \A r \in Runs :
    /\ \A p \in Parts :
         mintStep[r] = Wait(p) /\ ~Provided(r, p) => credit[Token(r)][p] <= seen[r]
    /\ mintStep[r] \in {"STPrime", "beforeSTPrime", "waitSTPrime", "exit 0"} =>
         Provided(r, "BT")
    /\ mintStep[r] = "exit 0" => Provided(r, "STPrime")

MintInv ==
  /\ MintTypeOK /\ (\A r \in Runs : RunInv(r)) /\ SentInv /\ AloneInv
  /\ (\A r \in Runs : QueueInv(r))
  /\ MeansInv /\ StakesAccepted /\ CreditInv
=============================================================================
