-------------------------------- MODULE Setup --------------------------------
(***************************************************************************)
(* The setup of the platform: tools/setup/index.js runs the steps of        *)
(* performer.js, which lay out the setup folder, start two fresh chains,    *)
(* deploy the contracts of tools/deploy, mint the first ST Prime and leave  *)
(* scripts from which start_services.js starts the platform.               *)
(*                                                                         *)
(* A process is the list of the calls it has still to make.  A call on a    *)
(* chain is rejected, or mined as a success or as a failure; what a helper  *)
(* does then is a table, for that is where the helpers differ: the result   *)
(* is not looked at, ends the process, or is never waited for, because      *)
(* runHelperService (performer.js:210) does not settle when a helper        *)
(* rejects.  The operator types commands, each a process of its own, and    *)
(* may kill one; the chains and the communicators live on.                  *)
(***************************************************************************)
EXTENDS Naturals, Sequences, FiniteSets

CONSTANTS
  Commands,       \* the sequences of commands the operator may type
  RetryAttempts,  \* retryAttempts of the chain checkers, 100 in the code
  MaxHeight,      \* bound: blocks of a chain
  MaxKills,       \* bound: a process is killed at most this often
  MaxFaults       \* bound: failed requests, transactions and processes

ASSUME SetupAssumption ==
  /\ \A s \in Commands : s \in Seq(STRING)
  /\ RetryAttempts \in Nat
  /\ MaxHeight \in Nat
  /\ MaxKills \in Nat
  /\ MaxFaults \in Nat

VARIABLES
  todo,       \* commands the operator is still to type
  command,    \* the command of the last process
  calls,      \* the calls this process has still to make
  status,     \* the process: idle, running, hung, monitoring, exit0, exit1, killed
  mem,        \* what setupConfig names in this process
  env,        \* what the env file names
  disk,       \* what is in the setup folder
  seen,       \* per chain: blockNumber of its checker
  tries,      \* per chain: retryCounter of its checker
  ready,      \* chains whose checker is done
  up,         \* chains whose geth runs
  height,     \* per chain: the number of its last block
  contracts,  \* contracts on the chains
  ops,        \* per contract: who its opsAddress is
  offered,    \* contracts whose proposedOwner is the foundation
  facts,      \* what else the chains know
  funds,      \* the accounts that own a currency
  comms,      \* communicators that run
  dying,      \* chains and communicators that a kill is on its way to
  stale,      \* those that run on a setup folder that is no more
  heard,      \* chains whose checker a stale geth has answered
  faults, kills

process   == <<todo, command, calls, status>>
files     == <<env, disk>>
checkers  == <<seen, tries, ready>>
contractVars == <<contracts, ops, offered, facts, funds>>
services  == <<comms, dying, stale, heard>>
vars == <<process, mem, files, checkers, up, height, contractVars, services, faults, kills>>

Chains == {"value", "utility"}
Communicators == {"stake_and_mint", "stake_and_mint_processor", "redeem_and_unstake",
                  "redeem_and_unstake_processor", "register_branded_token"}
Contracts == {"simpleToken", "valueRegistrar", "openSTValue", "utilityRegistrar",
              "openSTUtility", "valueCore", "stPrime"}
Names == Contracts \cup {"accounts"}

\* The chains an account has its key on.
ChainsOf(account) ==
  CASE account \in {"utilityChainOwner", "staker", "redeemer", "sealer"} -> Chains
    [] account \in {"foundation", "valueRegistrar", "valueDeployer", "valueOps"} -> {"value"}
    [] OTHER -> {"utility"}

-----------------------------------------------------------------------------
(* The scripts.  A call has the chain it is made on and its sender, or none, *)
(* what it is about, whom it names, and what it takes from the environment. *)
Send(do, on, by, what, needs) ==
  [do |-> do, on |-> on, by |-> by, what |-> what, to |-> what, needs |-> needs]
Do(do, what) == Send(do, "none", "none", what, {})

Fund(do, on, by, to, needs) == Send(do, on, by, to, needs \cup {"accounts"})

CleanSetup == <<Do("stopServices", "all"), Do("freshSetup", "all")>>

MutantForgetsOps ==
  LET Transfer(to) == Fund("transferEth", "value", "foundation", to, {})
  IN <<Transfer("valueRegistrar"), Transfer("valueDeployer"),
       Transfer("utilityChainOwner"), Transfer("staker")>>
FundUsers ==
  LET Transfer(to) == Fund("transferEth", "value", "foundation", to, {})
  IN <<Transfer("valueRegistrar"), Transfer("valueDeployer"), Transfer("valueOps"),
       Transfer("utilityChainOwner"), Transfer("staker")>>

InitSetup ==
  <<Do("createAddresses", "all"), Do("initChain", "value"), Do("initChain", "utility"),
    Do("copyKeys", "sealer"), Do("startGeth", "all"), Do("writeEnv", "deployment"),
    Do("checkGeth", "all"), Do("importKeys", "all"), Do("writeEnv", "all")>>
  \o FundUsers \o <<Do("startDynamo", "all"), Do("initDynamo", "all")>>

\* The helper of a contract, after which performer.js names it in setupConfig
\* and writes the env file.
Deploy(contract, on, by, needs) == Send("deploy", on, by, contract, needs \cup {"accounts"})
SetOps(contract, on, by, to) ==
  [Send("setOps", on, by, contract, {"accounts"}) EXCEPT !.to = to]
Offer(contract, on, by) == Send("offerOwnership", on, by, contract, {"accounts"})
Named(contract) == <<Do("name", contract)>>

STContract ==
  <<Deploy("simpleToken", "value", "foundation", {})>> \o Named("simpleToken")
  \o <<Send("setAdmin", "value", "foundation", "simpleToken", {"accounts", "simpleToken"}),
       Send("finalize", "value", "valueRegistrar", "simpleToken", {"accounts", "simpleToken"})>>

FundUsersWithST ==
  <<Fund("transferST", "value", "foundation", "utilityChainOwner", {"simpleToken"})>>

ValueRegistrar ==
  <<Deploy("valueRegistrar", "value", "valueDeployer", {}),
    SetOps("valueRegistrar", "value", "valueDeployer", "valueOps")>>

OpenSTValue ==
  <<Deploy("openSTValue", "value", "valueDeployer", {"simpleToken", "valueRegistrar"}),
    Offer("openSTValue", "value", "valueDeployer")>>

UtilityRegistrar ==
  <<Deploy("utilityRegistrar", "utility", "utilityDeployer", {}),
    SetOps("utilityRegistrar", "utility", "utilityDeployer", "utilityRegistrar"),
    Offer("utilityRegistrar", "utility", "utilityDeployer")>>

OpenSTUtility ==
  <<Deploy("openSTUtility", "utility", "utilityDeployer", {"utilityRegistrar"}),
    Offer("openSTUtility", "utility", "utilityDeployer")>>

ValueCore ==
  <<Deploy("valueCore", "value", "valueDeployer",
           {"valueRegistrar", "openSTUtility", "openSTValue"}),
    Send("addCore", "value", "valueOps", "valueCore",
         {"accounts", "valueRegistrar", "openSTValue"})>>

\* The contract of ST Prime is one of openSTUtility's: it takes over all ST Prime.
STPrime ==
  <<Send("initialTransfer", "utility", "utilityInitialSTPrimeHolder", "stPrime",
         {"accounts", "openSTUtility"})>>

MutantHandsOverFirst ==
  <<SetOps("valueRegistrar", "value", "valueDeployer", "valueRegistrar"),
    Send("registerUtilityToken", "value", "valueOps", "stPrime",
         {"accounts", "valueRegistrar", "openSTValue", "openSTUtility", "stPrime"}),
    Offer("valueRegistrar", "value", "valueDeployer")>>
RegisterSTPrime ==
  <<Send("registerUtilityToken", "value", "valueOps", "stPrime",
         {"accounts", "valueRegistrar", "openSTValue", "openSTUtility", "stPrime"}),
    SetOps("valueRegistrar", "value", "valueDeployer", "valueRegistrar"),
    Offer("valueRegistrar", "value", "valueDeployer")>>

DeployPlatformContracts ==
  ValueRegistrar \o Named("valueRegistrar") \o OpenSTValue \o Named("openSTValue")
  \o UtilityRegistrar \o Named("utilityRegistrar") \o OpenSTUtility \o Named("openSTUtility")
  \o ValueCore \o Named("valueCore") \o STPrime \o Named("stPrime") \o RegisterSTPrime

STPrimeMint ==
  <<Fund("transferST", "value", "utilityChainOwner", "staker", {"simpleToken"}),
    Send("approve", "value", "staker", "openSTValue",
         {"accounts", "simpleToken", "openSTValue"}),
    Send("stake", "value", "staker", "stPrime", {"accounts", "openSTValue", "stPrime"}),
    Do("awaitMint", "stPrime")>>

FundUsersWithSTPrime ==
  LET Transfer(to) == Fund("transferSTP", "utility", "utilityChainOwner", to, {"stPrime"})
  IN <<Transfer("staker"), Transfer("redeemer"), Transfer("utilityRegistrar"),
       Transfer("utilityOps"), Transfer("utilityDeployer")>>

End == <<Do("buildCleanup", "all"), Do("stopServices", "all"), Do("postSetupSteps", "all")>>

ValidSteps == {"all", "setup", "init", "st_contract", "registrar", "stake_n_mint",
               "st_prime_mint", "end"}

\* performer.perform: a step it does not know is refused.
Perform(step) ==
  LET When(name, script) ==
        IF step \in ValidSteps /\ step \in {name, "all"} THEN script ELSE <<>>
  IN When("setup", CleanSetup) \o When("init", InitSetup) \o When("st_contract", STContract)
     \o When("fund_users_with_st", FundUsersWithST)
     \o When("deploy_platform_contracts", DeployPlatformContracts)
     \o When("stake_n_mint", <<Do("startExecutable", "stake_and_mint")>>)
     \o When("stake_and_mint_processor", <<Do("startExecutable", "stake_and_mint_processor")>>)
     \o When("st_prime_mint", STPrimeMint \o FundUsersWithSTPrime)
     \o When("end", End)

\* start_services.js, with the scripts that postSetupSteps has written.
StartServices ==
  <<Do("startDynamo", "all"), Do("runScript", "value"), Do("runScript", "utility"),
    Do("chainStatus", "value"), Do("chainStatus", "utility"),
    Do("runScript", "stake_and_mint"), Do("runScript", "redeem_and_unstake"),
    Do("runScript", "register_branded_token"), Do("runScript", "stake_and_mint_processor"),
    Do("runScript", "redeem_and_unstake_processor"), Do("monitor", "all")>>

Script(typed) == IF typed = "start_services" THEN StartServices ELSE Perform(typed)

-----------------------------------------------------------------------------
Statuses == {"idle", "running", "hung", "monitoring", "exit0", "exit1", "killed"}

TypeOK ==
  /\ status \in Statuses
  /\ status = "running" <=> calls # <<>>
  /\ mem \subseteq Names
  /\ env \subseteq Names
  /\ disk \subseteq {"folder", "env", "tmp", "value", "utility", "sealer", "keys", "bin"}
  /\ seen \in [Chains -> 0..MaxHeight]
  /\ tries \in [Chains -> 0..(RetryAttempts + 2)]
  /\ ready \subseteq Chains
  /\ up \subseteq Chains
  /\ height \in [Chains -> 0..MaxHeight]
  /\ contracts \subseteq Contracts
  /\ ops \in [Contracts -> {"none", "valueOps", "valueRegistrar", "utilityRegistrar"}]
  /\ offered \subseteq contracts
  /\ facts \subseteq {"admin", "finalized", "core", "supply", "registered", "approved",
                      "staked", "minted"}
  /\ comms \subseteq Communicators
  /\ dying \cup stale \subseteq up \cup comms
  /\ heard \subseteq Chains
  /\ faults \in 0..MaxFaults
  /\ kills \in 0..MaxKills

Zero == [ch \in Chains |-> 0]
NoOps == [c \in Contracts |-> "none"]

Init ==
  /\ todo \in Commands
  /\ command = "none" /\ calls = <<>> /\ status = "idle"
  /\ mem = {} /\ env = {} /\ disk = {}
  /\ seen = Zero /\ tries = Zero /\ ready = {}
  /\ up = {} /\ height = Zero
  /\ contracts = {} /\ ops = NoOps /\ offered = {} /\ facts = {} /\ funds = {}
  /\ comms = {} /\ dying = {} /\ stale = {} /\ heard = {}
  /\ faults = 0 /\ kills = 0

Fault   == faults < MaxFaults /\ faults' = faults + 1
NoFault == UNCHANGED faults

Doing(do) == status = "running" /\ Head(calls).do = do

\* After the last call, tools/setup/index.js exits with 0.
Proceed ==
  /\ calls' = Tail(calls)
  /\ status' = IF Len(calls) = 1 THEN "exit0" ELSE "running"
  /\ UNCHANGED <<todo, command>>
Halt(s) == calls' = <<>> /\ status' = s /\ UNCHANGED <<todo, command>>

-----------------------------------------------------------------------------
(* The operator.                                                           *)

\* A new process knows of nothing that an earlier one has put in setupConfig.
Run ==
  /\ status \notin {"running", "hung", "monitoring"}
  /\ todo # <<>>
  /\ todo' = Tail(todo)
  /\ command' = Head(todo)
  /\ calls' = Script(Head(todo))
  /\ status' = IF Script(Head(todo)) = <<>> THEN "exit0" ELSE "running"
  /\ mem' = {}
  /\ seen' = Zero /\ tries' = Zero /\ ready' = {}
  /\ UNCHANGED <<files, up, height, contractVars, services, faults, kills>>

\* The env file is emptied and written line by line, the accounts last.
Writing == Doing("writeEnv") \/ Doing("name")

Kill ==
  /\ \/ status = "running" /\ kills < MaxKills /\ kills' = kills + 1
     \/ status = "hung" /\ UNCHANGED kills
  /\ Halt("killed")
  /\ \/ UNCHANGED env
     \/ Writing /\ env' \in {{}, mem \ {"accounts"}}
  /\ UNCHANGED <<mem, disk, checkers, up, height, contractVars, services, faults>>

-----------------------------------------------------------------------------
(* Calls on this machine.  handleShellResponse ends the process when one    *)
(* fails.                                                                  *)
ShellOk(works) == works /\ NoFault /\ Proceed
ShellFails(works) == ((~works /\ NoFault) \/ Fault) /\ Halt("exit1")

\* The kills are spawned in the background.  What runs at that moment gets one, unless
\* one of the two commands fails, which nobody sees; and it takes its time to end.
StopServices ==
  /\ Doing("stopServices")
  /\ \/ dying' = up \cup comms /\ NoFault
     \/ Fault /\ \E spared \in {up, comms} : dying' = dying \cup ((up \cup comms) \ spared)
  /\ Proceed
  /\ UNCHANGED <<mem, files, checkers, up, height, contractVars, comms, stale, heard, kills>>

\* The chains are in the folder that is removed; a geth that still runs is none of them.
FreshSetup ==
  /\ Doing("freshSetup")
  /\ \/ /\ ShellOk(TRUE)
        /\ disk' = {"folder", "env"} /\ env' = {}
     \/ /\ ShellFails(TRUE)
        /\ disk' = {} /\ env' = {}
  /\ height' = Zero
  /\ contracts' = {} /\ ops' = NoOps /\ offered' = {} /\ facts' = {} /\ funds' = {}
  /\ stale' = up \cup comms /\ heard' = {}
  /\ UNCHANGED <<mem, checkers, up, comms, dying, kills>>

CreateAddresses ==
  /\ Doing("createAddresses")
  /\ LET works == "folder" \in disk /\ "tmp" \notin disk
     IN \/ /\ ShellOk(works)
           /\ mem' = mem \cup {"accounts"}
           /\ disk' = disk \cup {"tmp"}
        \/ ShellFails(works) /\ UNCHANGED <<mem, disk>>
  /\ UNCHANGED <<env, checkers, up, height, contractVars, services, kills>>

\* The genesis file gives all there is of a chain's currency to one account.
Genesis(chain) ==
  IF chain = "value" THEN <<"ETH", "foundation">> ELSE <<"STP", "utilityInitialSTPrimeHolder">>

InitChain ==
  /\ Doing("initChain")
  /\ LET chain == Head(calls).what
         works == "folder" \in disk /\ chain \notin disk
     IN \/ /\ ShellOk(works)
           /\ disk' = disk \cup {chain}
           /\ funds' = funds \cup {Genesis(chain)}
        \/ ShellFails(works) /\ UNCHANGED <<disk, funds>>
  /\ UNCHANGED <<mem, env, checkers, up, height, contracts, ops, offered, facts, services,
                 kills>>

CopyKeys ==
  /\ Doing("copyKeys")
  /\ LET works == Chains \cup {"tmp"} \subseteq disk
     IN \/ ShellOk(works) /\ disk' = disk \cup {"sealer"}
        \/ ShellFails(works) /\ UNCHANGED disk
  /\ UNCHANGED <<mem, env, checkers, up, height, contractVars, services, kills>>

ImportKeys ==
  /\ Doing("importKeys")
  /\ LET works == Chains \subseteq disk
     IN \/ ShellOk(works) /\ disk' = disk \cup {"keys"}
        \/ ShellFails(works) /\ UNCHANGED disk
  /\ UNCHANGED <<mem, env, checkers, up, height, contractVars, services, kills>>

\* Whether a geth comes up is not looked at; while an old one has the port it does not.
StartGeth ==
  /\ Doing("startGeth")
  /\ Proceed
  /\ LET able == IF "sealer" \in disk THEN Chains \cap disk ELSE {}
     IN \/ up' = up \cup able /\ NoFault
        \/ Fault /\ \E ch \in Chains : up' = up \cup (able \ {ch})
  /\ UNCHANGED <<mem, files, checkers, height, contractVars, services, kills>>

\* generateEnvFile writes what setupConfig names, and nothing else.
Written(names) == env' = names /\ disk' = disk \cup {"env"}

WriteEnv ==
  /\ Doing("writeEnv")
  /\ \/ ShellOk("folder" \in disk) /\ Written(mem)
     \/ ShellFails("folder" \in disk) /\ UNCHANGED files
  /\ UNCHANGED <<mem, checkers, up, height, contractVars, services, kills>>

NameContract ==
  /\ Doing("name")
  /\ mem' = mem \cup {Head(calls).what}
  /\ \/ ShellOk("folder" \in disk) /\ Written(mem')
     \/ ShellFails("folder" \in disk) /\ UNCHANGED files
  /\ UNCHANGED <<checkers, up, height, contractVars, services, kills>>

StartDynamo ==
  /\ Doing("startDynamo")
  /\ Proceed
  /\ UNCHANGED <<mem, files, checkers, up, height, contractVars, services, faults, kills>>

\* A helper that rejects.
InitDynamo ==
  /\ Doing("initDynamo")
  /\ (NoFault /\ Proceed) \/ (Fault /\ Halt("hung"))
  /\ UNCHANGED <<mem, files, checkers, up, height, contractVars, services, kills>>

\* A communicator that finds a name missing does not live; nobody looks.
Starts(c) ==
  \/ /\ Names \subseteq env /\ NoFault
     /\ comms' = comms \cup {c} /\ dying' = dying \ {c} /\ stale' = stale \ {c}
  \/ /\ Fault \/ (~(Names \subseteq env) /\ NoFault)
     /\ UNCHANGED <<comms, dying, stale>>

StartExecutable ==
  /\ Doing("startExecutable")
  /\ \/ "env" \in disk /\ Proceed /\ Starts(Head(calls).what)
     \/ "env" \notin disk /\ Halt("exit1") /\ NoFault
        /\ UNCHANGED <<comms, dying, stale>>
  /\ UNCHANGED <<mem, files, checkers, up, height, contractVars, heard, kills>>

RunGeth(chain) ==
  \/ "bin" \in disk /\ up' = up \cup {chain} /\ NoFault
  \/ UNCHANGED up /\ (Fault \/ ("bin" \notin disk /\ NoFault))

RunScript ==
  /\ Doing("runScript")
  /\ Proceed
  /\ LET what == Head(calls).what IN
       \/ what \in Chains /\ RunGeth(what) /\ UNCHANGED <<comms, dying, stale>>
       \/ what \notin Chains /\ "bin" \in disk /\ Starts(what) /\ UNCHANGED up
       \/ /\ what \notin Chains /\ "bin" \notin disk /\ NoFault
          /\ UNCHANGED <<up, comms, dying, stale>>
  /\ UNCHANGED <<mem, files, checkers, height, contractVars, heard, kills>>

\* _uptime only writes to the log.
Monitor ==
  /\ Doing("monitor")
  /\ Halt("monitoring")
  /\ UNCHANGED <<mem, files, checkers, up, height, contractVars, services, faults, kills>>

BuildCleanup ==
  /\ Doing("buildCleanup")
  /\ disk' = disk \ {"tmp"}
  /\ Proceed
  /\ UNCHANGED <<mem, env, checkers, up, height, contractVars, services, faults, kills>>

PostSetupSteps ==
  /\ Doing("postSetupSteps")
  /\ LET works == Chains \cup {"folder"} \subseteq disk
     IN \/ ShellOk(works) /\ disk' = disk \cup {"bin"}
        \/ ShellFails(works) /\ UNCHANGED disk
  /\ UNCHANGED <<mem, env, checkers, up, height, contractVars, services, kills>>

-----------------------------------------------------------------------------
(* The checkers: geth_checker.js polls both chains at once, and             *)
(* platform_status.js one after the other.                                 *)
Checks(chain) ==
  /\ chain \notin ready
  /\ Doing("checkGeth") \/ (Doing("chainStatus") /\ Head(calls).what = chain)

MutantAnyBlock(old, new) == old # new
HasNewBlocks(old, new) == old # 0 /\ old # new

\* A failed request counts twice in platform_status.js (75, 97).
Attempts == IF Doing("chainStatus") THEN 2 ELSE 1

\* What a geth says of its last block; a stale one goes on with a chain of its own.
Number(chain, n) ==
  IF chain \in stale THEN n \in 1..MaxHeight /\ heard' = heard \cup {chain}
                     ELSE n = height[chain] /\ UNCHANGED heard

Poll(chain) ==
  /\ Checks(chain)
  /\ tries[chain] <= RetryAttempts
  /\ \/ /\ chain \in up /\ NoFault
        /\ tries' = [tries EXCEPT ![chain] = @ + 1]
        /\ \E n \in 0..MaxHeight :
             /\ Number(chain, n)
             /\ seen' = [seen EXCEPT ![chain] = n]
             /\ ready' = IF HasNewBlocks(seen[chain], n) THEN ready \cup {chain} ELSE ready
     \/ /\ (chain \notin up /\ NoFault) \/ Fault
        /\ tries' = [tries EXCEPT ![chain] = @ + Attempts]
        /\ UNCHANGED <<seen, ready, heard>>
  /\ UNCHANGED <<process, mem, files, up, height, contractVars, comms, dying, stale, kills>>

\* geth_checker.js ends the process.  platform_status.js wants to reject, but names
\* basicHelper, which it does not know: the exception ends the process as well.
GiveUp(chain) ==
  /\ Checks(chain)
  /\ tries[chain] > RetryAttempts
  /\ Halt("exit1")
  /\ UNCHANGED <<mem, files, checkers, up, height, contractVars, services, faults, kills>>

ChainsReady ==
  /\ \/ Doing("checkGeth") /\ ready = Chains
     \/ Doing("chainStatus") /\ Head(calls).what \in ready
  /\ Proceed
  /\ seen' = Zero /\ tries' = Zero /\ ready' = {}
  /\ UNCHANGED <<mem, files, up, height, contractVars, services, faults, kills>>

-----------------------------------------------------------------------------
(* Calls on the chains.                                                    *)
ChainCalls == {"transferEth", "transferST", "transferSTP", "deploy", "setOps",
               "offerOwnership", "setAdmin", "finalize", "addCore", "initialTransfer",
               "registerUtilityToken", "approve", "stake"}

\* What a helper does when a request is rejected, and when a transaction fails:
\* "next" is to go on as if nothing had happened.
OnRejection(do) ==
  CASE do \in {"transferEth", "stake"} -> {"next"}
    [] do \in {"transferST", "transferSTP"} -> {"next", "hung"}
    [] do \in {"deploy", "approve"} -> {"exit1", "hung"}
    [] OTHER -> {"hung"}

MutantOnFailure(do) == {"next"}
OnFailure(do) ==
  CASE do \in {"transferEth", "transferST", "transferSTP", "finalize", "addCore", "stake"} ->
         {"next"}
    [] do = "setAdmin" -> {"hung"}
    [] OTHER -> {"exit1"}

\* A transaction of the value chain costs Ether; the utility chain is free during
\* the deployment.
Reaches(c) ==
  /\ c.needs \subseteq env
  /\ c.on \in up \ stale
  /\ "keys" \in disk /\ c.on \in ChainsOf(c.by)
  /\ c.on = "value" => <<"ETH", c.by>> \in funds

\* The contracts are not in src/: they do what their callers rely on.
Accepts(c) ==
  CASE c.do = "finalize" -> "admin" \in facts
    [] c.do = "transferST" -> <<"ST", c.by>> \in funds
    [] c.do = "transferSTP" -> <<"STP", c.by>> \in funds
    [] c.do = "addCore" -> ops["valueRegistrar"] = c.by
    [] c.do = "registerUtilityToken" -> ops["valueRegistrar"] = c.by
    [] c.do = "initialTransfer" -> <<"STP", c.by>> \in funds /\ "supply" \notin facts
    [] c.do \in {"setOps", "offerOwnership", "setAdmin"} -> c.what \in contracts
    [] c.do = "stake" -> {"approved", "registered"} \subseteq facts /\ <<"ST", c.by>> \in funds
    [] OTHER -> TRUE

\* Nor does src/ tell whether ST moves before it is finalized, or a token is
\* registered for a chain without a core.
MayRefuse(c) ==
  \/ ~Accepts(c)
  \/ c.do = "transferST" /\ "finalized" \notin facts
  \/ c.do = "registerUtilityToken" /\ "core" \notin facts

After(outcome) == IF outcome = "next" THEN Proceed ELSE Halt(outcome)

CallFails ==
  /\ status = "running" /\ Head(calls).do \in ChainCalls
  /\ LET c == Head(calls) IN
       \/ /\ (~Reaches(c) /\ NoFault) \/ Fault
          /\ \E outcome \in OnRejection(c.do) : After(outcome)
       \/ /\ Reaches(c) /\ ((MayRefuse(c) /\ NoFault) \/ Fault)
          /\ \E outcome \in OnFailure(c.do) : After(outcome)
  /\ UNCHANGED <<mem, files, checkers, up, height, contractVars, services, kills>>

\* A call succeeds.
Succeeds(do) ==
  /\ Doing(do)
  /\ Reaches(Head(calls)) /\ Accepts(Head(calls))
  /\ Proceed
  /\ UNCHANGED <<mem, files, checkers, up, height, services, faults, kills>>

Learn(fact) == facts' = facts \cup {fact} /\ UNCHANGED <<contracts, ops, offered, funds>>
Pay(currency, account) ==
  funds' = funds \cup {<<currency, account>>} /\ UNCHANGED <<contracts, ops, offered, facts>>

TransferEth == Succeeds("transferEth") /\ Pay("ETH", Head(calls).to)
TransferST  == Succeeds("transferST")  /\ Pay("ST", Head(calls).to)
TransferSTP == Succeeds("transferSTP") /\ Pay("STP", Head(calls).to)

\* A contract deployed by the foundation gives it all of its tokens.
DeployContract ==
  /\ Succeeds("deploy")
  /\ contracts' = contracts \cup {Head(calls).what}
  /\ funds' = IF Head(calls).what = "simpleToken" THEN funds \cup {<<"ST", Head(calls).by>>}
              ELSE funds
  /\ UNCHANGED <<ops, offered, facts>>

SetOpsAddress ==
  /\ Succeeds("setOps")
  /\ ops' = [ops EXCEPT ![Head(calls).what] = Head(calls).to]
  /\ UNCHANGED <<contracts, offered, facts, funds>>

InitiateOwnerShipTransfer ==
  /\ Succeeds("offerOwnership")
  /\ offered' = offered \cup {Head(calls).what}
  /\ UNCHANGED <<contracts, ops, facts, funds>>

SetAdminAddress == Succeeds("setAdmin") /\ Learn("admin")
Finalize        == Succeeds("finalize") /\ Learn("finalized")
AddCore         == Succeeds("addCore")  /\ Learn("core")
RegisterUtilityToken == Succeeds("registerUtilityToken") /\ Learn("registered")
Stake           == Succeeds("stake") /\ Learn("staked")

\* The balances of the holder and of the contract are compared with the total
\* supply, before and after.
InitialTransferToContract ==
  /\ Succeeds("initialTransfer")
  /\ facts' = facts \cup {"supply"}
  /\ contracts' = contracts \cup {"stPrime"}
  /\ funds' = funds \ {<<"STP", Head(calls).by>>}
  /\ UNCHANGED <<ops, offered>>

\* All that the staker owns is approved, be it nothing.
Approve ==
  /\ Succeeds("approve")
  /\ facts' = IF <<"ST", Head(calls).by>> \in funds THEN facts \cup {"approved"} ELSE facts
  /\ UNCHANGED <<contracts, ops, offered, funds>>

\* _waitForSTPrimeMint asks until the utility chain owner owns some.
AwaitMint ==
  /\ Doing("awaitMint")
  /\ "utility" \in up \ stale /\ <<"STP", "utilityChainOwner">> \in funds
  /\ Proceed
  /\ UNCHANGED <<mem, files, checkers, up, height, contractVars, services, faults, kills>>

-----------------------------------------------------------------------------
(* The chains and the communicators.                                       *)
\* Only the blocks that are made while a checker runs are counted.
MineBlock(chain) ==
  /\ Doing("checkGeth") \/ Doing("chainStatus")
  /\ chain \in up \ stale /\ height[chain] < MaxHeight
  /\ height' = [height EXCEPT ![chain] = @ + 1]
  /\ UNCHANGED <<process, mem, files, checkers, up, contractVars, services, faults, kills>>

\* The two communicators carry a stake through (module StakeAndMint).
MintSTPrime ==
  /\ "staked" \in facts /\ "minted" \notin facts
  /\ Chains \subseteq up \ stale
  /\ {"stake_and_mint", "stake_and_mint_processor"} \subseteq comms \ stale
  /\ facts' = facts \cup {"minted"}
  /\ funds' = funds \cup {<<"STP", "utilityChainOwner">>}
  /\ UNCHANGED <<process, mem, files, checkers, up, height, contracts, ops, offered, services,
                 faults, kills>>

Gone(s) ==
  /\ up' = up \ {s} /\ comms' = comms \ {s}
  /\ dying' = dying \ {s} /\ stale' = stale \ {s}
  /\ UNCHANGED <<process, mem, files, checkers, height, contractVars, heard, kills>>

\* Of itself, or killed.
ProcessDies == Fault   /\ \E s \in up \cup comms : Gone(s)
ServiceEnds == NoFault /\ \E s \in dying : Gone(s)

-----------------------------------------------------------------------------
LocalCall ==
  \/ StopServices \/ FreshSetup \/ CreateAddresses \/ InitChain \/ CopyKeys \/ ImportKeys
  \/ StartGeth \/ WriteEnv \/ NameContract \/ StartDynamo \/ InitDynamo \/ StartExecutable
  \/ RunScript \/ Monitor \/ BuildCleanup \/ PostSetupSteps

ChainCall ==
  \/ TransferEth \/ TransferST \/ TransferSTP \/ DeployContract \/ SetOpsAddress
  \/ InitiateOwnerShipTransfer \/ SetAdminAddress \/ Finalize \/ AddCore
  \/ RegisterUtilityToken \/ Stake \/ InitialTransferToContract \/ Approve \/ CallFails

Proceeds ==
  \/ LocalCall \/ ChainCall \/ AwaitMint \/ ChainsReady
  \/ \E chain \in Chains : Poll(chain) \/ GiveUp(chain)

Next ==
  \/ Run \/ Kill \/ Proceeds
  \/ \E chain \in Chains : MineBlock(chain)
  \/ MintSTPrime \/ ProcessDies \/ ServiceEnds

Spec == Init /\ [][Next]_vars

\* A process goes on and the communicators work; a chain need not mine in time.
FairSpec == Spec /\ WF_vars(Proceeds) /\ WF_vars(MintSTPrime)

-----------------------------------------------------------------------------
(* What the setup must guarantee.                                          *)

\* A process that ran all steps and exited with 0 leaves a whole platform: every
\* contract is there and named in the env file, simpleToken has its admin, the
\* roles of the registrars are handed on and the ownerships offered, ST Prime has
\* taken over its supply, is registered and has been minted, the scripts are there,
\* and if nothing failed, whatever still runs has a kill on its way.  (The results of
\* finalize, addCore and of all transfers are not looked at, nor is that of the kills,
\* so of these nothing can be said.)
SetupComplete ==
  command = "all" /\ status = "exit0" =>
    /\ contracts = Contracts /\ env = Names
    /\ ops["valueRegistrar"] = "valueRegistrar"
    /\ ops["utilityRegistrar"] = "utilityRegistrar"
    /\ offered = {"valueRegistrar", "openSTValue", "utilityRegistrar", "openSTUtility"}
    /\ {"admin", "supply", "registered", "minted"} \subseteq facts
    /\ "bin" \in disk /\ "tmp" \notin disk
    /\ faults = 0 => up \cup comms \subseteq dying

\* valueOps gives up valueRegistrar only when there is nothing left to do with
\* it: ST Prime is registered (register_st_prime.js:121), and the ownership is
\* offered last.  A setup that stops half way leaves the roles with the keys that
\* can go on.
RolesGivenUpLast ==
  /\ ops["valueRegistrar"] = "valueRegistrar" => "registered" \in facts
  /\ "valueRegistrar" \in offered => ops["valueRegistrar"] = "valueRegistrar"

\* Whoever deployed something saw both chains make blocks: geth_checker.js waits
\* for two numbers that differ, the first of them not 0.  It cannot tell a chain from
\* the one of a geth that has not ended yet when the folder was removed.
DeployedOnLiveChains ==
  contracts # {} => \A chain \in Chains : height[chain] >= 2 \/ chain \in heard

\* A setup ends by itself, if no request, transaction or process fails, and no checker
\* was answered by an old geth: no helper is left waiting, for an account without a
\* key, without Ether or without a name.
SetupEnds ==
  command = "all" /\ status = "running"
    ~> (status \in {"exit0", "exit1", "killed"} \/ faults > 0 \/ heard # {})
=============================================================================
