---------------------------- MODULE Setup_proofs ----------------------------
(***************************************************************************)
(* Proofs about Setup, for any commands the operator may type, any number   *)
(* of kills, failures, polls and blocks: a setup that exits with 0 left a   *)
(* whole platform, the roles of valueRegistrar are given up last, and       *)
(* nothing is deployed before both chains made blocks.                      *)
(*                                                                         *)
(* What a process has still to do is a list, so most of the argument is     *)
(* about the order of that list: what is left of it, what comes before      *)
(* what, and what is followed by what.  Each script is taken apart into the *)
(* parts it is joined from; the steps then only ever look at the head.      *)
(***************************************************************************)
EXTENDS Setup, SequenceTheorems, TLAPS

-----------------------------------------------------------------------------
(* The order in a list.                                                    *)

Elements(s) == {s[i] : i \in DOMAIN s}

\* Every X is before every Y.
Before(s, X, Y) == \A i, j \in DOMAIN s : s[i] \in X /\ s[j] \in Y => i < j

\* After every X there is a Y.
Follows(s, X, Y) == \A i \in DOMAIN s : s[i] \in X => \E j \in DOMAIN s : i < j /\ s[j] \in Y

\* What joining two lists does to their elements.
LEMMA ElementsJoin ==
  ASSUME NEW S, NEW s \in Seq(S), NEW t \in Seq(S)
  PROVE  /\ s \o t \in Seq(S)
         /\ Elements(s \o t) = Elements(s) \cup Elements(t)
PROOF
  <1> DEFINE u == s \o t
  <1>1. /\ u \in Seq(S) /\ Len(s) \in Nat /\ Len(t) \in Nat
        /\ Len(u) = Len(s) + Len(t)
        /\ DOMAIN s = 1..Len(s) /\ DOMAIN t = 1..Len(t) /\ DOMAIN u = 1..Len(u)
        /\ \A i \in 1..Len(s) : u[i] = s[i]
        /\ \A i \in 1..Len(t) : u[Len(s) + i] = t[i]
    OBVIOUS
  <1> HIDE DEF u
  <1>2. ASSUME NEW i \in DOMAIN u
        PROVE  u[i] \in Elements(s) \cup Elements(t)
    <2>1. CASE i \in 1..Len(s)
      BY <1>1, <2>1 DEF Elements
    <2>2. CASE i \notin 1..Len(s)
      <3>1. i - Len(s) \in 1..Len(t) /\ Len(s) + (i - Len(s)) = i
        BY <1>1, <1>2, <2>2
      <3>2. u[i] = t[i - Len(s)]
        BY <1>1, <3>1
      <3>3. QED BY <1>1, <3>1, <3>2 DEF Elements
    <2>3. QED BY <2>1, <2>2
  <1>3. ASSUME NEW e \in Elements(s) \cup Elements(t)
        PROVE  e \in Elements(u)
    <2>1. CASE e \in Elements(s)
      <3>1. PICK i \in 1..Len(s) : s[i] = e
        BY <1>1, <2>1 DEF Elements
      <3>2. i \in DOMAIN u /\ u[i] = e
        BY <1>1, <3>1
      <3>3. QED BY <3>2 DEF Elements
    <2>2. CASE e \in Elements(t)
      <3>1. PICK i \in 1..Len(t) : t[i] = e
        BY <1>1, <2>2 DEF Elements
      <3>2. Len(s) + i \in DOMAIN u /\ u[Len(s) + i] = e
        BY <1>1, <3>1
      <3>3. QED BY <3>2 DEF Elements
    <2>3. QED BY <1>3, <2>1, <2>2
  <1>4. Elements(u) = Elements(s) \cup Elements(t)
    BY <1>2, <1>3 DEF Elements
  <1>5. QED BY <1>1, <1>4 DEF u

\* Two lists in which X is before Y are joined, unless the first has a Y and the
\* second an X.
LEMMA BeforeJoin ==
  ASSUME NEW S, NEW s \in Seq(S), NEW t \in Seq(S), NEW X, NEW Y,
         Before(s, X, Y), Before(t, X, Y),
         Elements(s) \cap Y = {} \/ Elements(t) \cap X = {}
  PROVE  Before(s \o t, X, Y)
PROOF
  <1> DEFINE u == s \o t
  <1>1. /\ Len(s) \in Nat /\ Len(t) \in Nat
        /\ Len(u) = Len(s) + Len(t)
        /\ DOMAIN s = 1..Len(s) /\ DOMAIN t = 1..Len(t) /\ DOMAIN u = 1..Len(u)
        /\ \A i \in 1..Len(s) : u[i] = s[i]
        /\ \A i \in 1..Len(t) : u[Len(s) + i] = t[i]
    OBVIOUS
  <1> HIDE DEF u
  <1>2. ASSUME NEW k \in DOMAIN u, k > Len(s)
        PROVE  k - Len(s) \in DOMAIN t /\ u[k] = t[k - Len(s)]
    <2>1. k - Len(s) \in 1..Len(t) /\ Len(s) + (k - Len(s)) = k
      BY <1>1, <1>2
    <2>2. QED BY <1>1, <2>1
  <1>3. ASSUME NEW k \in DOMAIN u, ~(k > Len(s))
        PROVE  k \in DOMAIN s /\ u[k] = s[k]
    BY <1>1, <1>3
  <1>4. ASSUME NEW i \in DOMAIN u, NEW j \in DOMAIN u, u[i] \in X, u[j] \in Y
        PROVE  i < j
    <2>1. CASE i > Len(s) /\ j > Len(s)
      <3>1. i - Len(s) < j - Len(s)
        BY <1>2, <1>4, <2>1 DEF Before
      <3>2. QED BY <1>1, <3>1
    <2>2. CASE ~(i > Len(s)) /\ ~(j > Len(s))
      BY <1>3, <1>4, <2>2 DEF Before
    <2>3. CASE ~(i > Len(s)) /\ j > Len(s)
      BY <1>1, <2>3
    <2>4. CASE i > Len(s) /\ ~(j > Len(s))
      <3>1. u[i] \in Elements(t) /\ u[j] \in Elements(s)
        BY <1>2, <1>3, <2>4 DEF Elements
      <3>2. QED BY <1>4, <3>1
    <2>5. QED BY <2>1, <2>2, <2>3, <2>4
  <1>5. QED BY <1>4 DEF Before, u

LEMMA BeforeNone ==
  ASSUME NEW s, NEW X, NEW Y, Elements(s) \cap X = {} \/ Elements(s) \cap Y = {}
  PROVE  Before(s, X, Y)
PROOF
  BY DEF Before, Elements

\* In two lists joined every X is followed by a Y, if it is so in the second, and
\* in the first as well or the second has a Y.
LEMMA FollowsJoin ==
  ASSUME NEW S, NEW s \in Seq(S), NEW t \in Seq(S), NEW X, NEW Y,
         Follows(t, X, Y),
         Follows(s, X, Y) \/ Elements(t) \cap Y # {}
  PROVE  Follows(s \o t, X, Y)
PROOF
  <1> DEFINE u == s \o t
  <1>1. /\ Len(s) \in Nat /\ Len(t) \in Nat
        /\ Len(u) = Len(s) + Len(t)
        /\ DOMAIN s = 1..Len(s) /\ DOMAIN t = 1..Len(t) /\ DOMAIN u = 1..Len(u)
        /\ \A i \in 1..Len(s) : u[i] = s[i]
        /\ \A i \in 1..Len(t) : u[Len(s) + i] = t[i]
    OBVIOUS
  <1> HIDE DEF u
  <1>2. ASSUME NEW i \in DOMAIN u, u[i] \in X
        PROVE  \E j \in DOMAIN u : i < j /\ u[j] \in Y
    <2>1. CASE i > Len(s)
      <3>1. i - Len(s) \in 1..Len(t) /\ Len(s) + (i - Len(s)) = i
        BY <1>1, <2>1
      <3>2. PICK j \in DOMAIN t : i - Len(s) < j /\ t[j] \in Y
        BY <1>1, <1>2, <3>1 DEF Follows
      <3>3. Len(s) + j \in DOMAIN u /\ i < Len(s) + j /\ u[Len(s) + j] \in Y
        BY <1>1, <3>1, <3>2
      <3>4. QED BY <3>3
    <2>2. CASE ~(i > Len(s)) /\ Elements(t) \cap Y # {}
      <3>1. PICK j \in DOMAIN t : t[j] \in Y
        BY <2>2 DEF Elements
      <3>2. Len(s) + j \in DOMAIN u /\ i < Len(s) + j /\ u[Len(s) + j] \in Y
        BY <1>1, <2>2, <3>1
      <3>3. QED BY <3>2
    <2>3. CASE ~(i > Len(s)) /\ Follows(s, X, Y)
      <3>1. i \in DOMAIN s /\ s[i] \in X
        BY <1>1, <1>2, <2>3
      <3>2. PICK j \in DOMAIN s : i < j /\ s[j] \in Y
        BY <2>3, <3>1 DEF Follows
      <3>3. j \in DOMAIN u /\ u[j] \in Y
        BY <1>1, <3>2
      <3>4. QED BY <3>2, <3>3
    <2>4. QED BY <2>1, <2>2, <2>3
  <1>3. QED BY <1>2 DEF Follows, u

LEMMA FollowsNone ==
  ASSUME NEW s, NEW X, NEW Y, Elements(s) \cap X = {}
  PROVE  Follows(s, X, Y)
PROOF
  BY DEF Follows, Elements

\* What a list says of its head, and what its tail keeps of it.
LEMMA HeadAndTail ==
  ASSUME NEW S, NEW s \in Seq(S), s # <<>>
  PROVE  /\ Head(s) \in S /\ Tail(s) \in Seq(S)
         /\ Elements(s) = {Head(s)} \cup Elements(Tail(s))
         /\ Tail(s) = <<>> <=> Len(s) = 1
         /\ \A X, Y : Before(s, X, Y) =>
              /\ Before(Tail(s), X, Y)
              /\ Head(s) \in Y => Elements(s) \cap X = {}
         /\ \A X, Y : Follows(s, X, Y) =>
              /\ Follows(Tail(s), X, Y)
              /\ Head(s) \in X => Elements(Tail(s)) \cap Y # {}
PROOF
  <1> DEFINE t == Tail(s)
  <1>1. /\ t \in Seq(S) /\ Len(s) \in Nat \ {0} /\ Len(t) = Len(s) - 1
        /\ DOMAIN s = 1..Len(s) /\ DOMAIN t = 1..Len(t)
        /\ Head(s) = s[1] /\ Head(s) \in S
        /\ \A i \in 1..Len(t) : t[i] = s[i + 1]
        /\ t = <<>> <=> Len(t) = 0
    <2>1. t \in Seq(S) /\ Len(s) \in Nat \ {0} /\ Len(t) = Len(s) - 1
      BY EmptySeq, HeadTailProperties
    <2>2. DOMAIN s = 1..Len(s) /\ DOMAIN t = 1..Len(t)
      BY <2>1, LenProperties
    <2>3. Head(s) = s[1] /\ Head(s) \in S
      BY HeadTailProperties
    <2>4. \A i \in 1..Len(t) : t[i] = s[i + 1]
      BY <2>1, <2>2
    <2>5. t = <<>> <=> Len(t) = 0
      BY <2>1, EmptySeq
    <2>6. QED BY <2>1, <2>2, <2>3, <2>4, <2>5
  <1> HIDE DEF t
  <1>2. 1 \in DOMAIN s /\ \A i \in DOMAIN t : i + 1 \in DOMAIN s /\ t[i] = s[i + 1]
    BY <1>1
  <1>3. \A i \in DOMAIN s : i # 1 => i - 1 \in DOMAIN t /\ t[i - 1] = s[i]
    <2>1. TAKE i \in DOMAIN s
    <2>2. HAVE i # 1
    <2>3. i - 1 \in 1..Len(t) /\ (i - 1) + 1 = i
      BY <1>1, <2>2
    <2>4. QED BY <1>1, <2>3
  <1>4. Elements(s) = {Head(s)} \cup Elements(t)
    <2>1. ASSUME NEW e \in Elements(s) PROVE e \in {Head(s)} \cup Elements(t)
      BY <1>1, <1>3 DEF Elements
    <2>2. ASSUME NEW e \in {Head(s)} \cup Elements(t) PROVE e \in Elements(s)
      BY <1>1, <1>2 DEF Elements
    <2>3. QED BY <2>1, <2>2
  <1>5. ASSUME NEW X, NEW Y, Before(s, X, Y)
        PROVE  Before(t, X, Y) /\ (Head(s) \in Y => Elements(s) \cap X = {})
    <2>1. ASSUME NEW i \in DOMAIN t, NEW j \in DOMAIN t, t[i] \in X, t[j] \in Y
          PROVE  i < j
      <3>1. i + 1 < j + 1
        BY <1>2, <1>5, <2>1 DEF Before
      <3>2. QED BY <1>1, <3>1
    <2>2. ASSUME Head(s) \in Y, NEW i \in DOMAIN s, s[i] \in X
          PROVE  FALSE
      <3>1. i < 1
        BY <1>1, <1>2, <1>5, <2>2 DEF Before
      <3>2. QED BY <1>1, <3>1
    <2>3. QED BY <2>1, <2>2 DEF Before, Elements
  <1>6. ASSUME NEW X, NEW Y, Follows(s, X, Y)
        PROVE  Follows(t, X, Y) /\ (Head(s) \in X => Elements(t) \cap Y # {})
    <2>1. ASSUME NEW i \in DOMAIN s, s[i] \in X
          PROVE  \E j \in DOMAIN t : i < j + 1 /\ t[j] \in Y
      <3>1. PICK j \in DOMAIN s : i < j /\ s[j] \in Y
        BY <1>6, <2>1 DEF Follows
      <3>2. j # 1 /\ i < (j - 1) + 1
        BY <1>1, <3>1
      <3>3. QED BY <1>3, <3>1, <3>2
    <2>2. ASSUME NEW i \in DOMAIN t, t[i] \in X
          PROVE  \E j \in DOMAIN t : i < j /\ t[j] \in Y
      <3>1. PICK j \in DOMAIN t : i + 1 < j + 1 /\ t[j] \in Y
        BY <1>2, <2>1, <2>2
      <3>2. i < j
        BY <1>1, <3>1
      <3>3. QED BY <3>1, <3>2
    <2>3. ASSUME Head(s) \in X
          PROVE  Elements(t) \cap Y # {}
      <3>1. PICK j \in DOMAIN t : t[j] \in Y
        BY <1>1, <1>2, <2>1, <2>3
      <3>2. QED BY <3>1 DEF Elements
    <2>4. QED BY <2>2, <2>3 DEF Follows
  <1>7. QED BY <1>1, <1>4, <1>5, <1>6 DEF t

LEMMA EmptyList ==
  /\ \A S : <<>> \in Seq(S)
  /\ Elements(<<>>) = {}
  /\ \A X, Y : Before(<<>>, X, Y) /\ Follows(<<>>, X, Y)
PROOF
  BY DEF Elements, Before, Follows

\* The lists the scripts are written with.
LEMMA ListOfOne ==
  ASSUME NEW S, NEW a \in S
  PROVE  <<a>> \in Seq(S)
PROOF
  OBVIOUS

LEMMA ListOfTwo ==
  ASSUME NEW S, NEW a \in S, NEW b \in S
  PROVE  <<a, b>> \in Seq(S)
PROOF
  OBVIOUS

LEMMA ListOfThree ==
  ASSUME NEW S, NEW a \in S, NEW b \in S, NEW c \in S
  PROVE  <<a, b, c>> \in Seq(S)
PROOF
  OBVIOUS

LEMMA ListOfFour ==
  ASSUME NEW S, NEW a \in S, NEW b \in S, NEW c \in S, NEW d \in S
  PROVE  <<a, b, c, d>> \in Seq(S)
PROOF
  OBVIOUS

LEMMA ListOfFive ==
  ASSUME NEW S, NEW a \in S, NEW b \in S, NEW c \in S, NEW d \in S, NEW e \in S
  PROVE  <<a, b, c, d, e>> \in Seq(S)
PROOF
  OBVIOUS

LEMMA ListOfNine ==
  ASSUME NEW S, NEW a \in S, NEW b \in S, NEW c \in S, NEW d \in S, NEW e \in S,
         NEW f \in S, NEW g \in S, NEW h \in S, NEW i \in S
  PROVE  <<a, b, c, d, e, f, g, h, i>> \in Seq(S)
PROOF
  OBVIOUS

LEMMA ListOfEleven ==
  ASSUME NEW S, NEW a \in S, NEW b \in S, NEW c \in S, NEW d \in S, NEW e \in S,
         NEW f \in S, NEW g \in S, NEW h \in S, NEW i \in S, NEW j \in S, NEW k \in S
  PROVE  <<a, b, c, d, e, f, g, h, i, j, k>> \in Seq(S)
PROOF
  OBVIOUS

-----------------------------------------------------------------------------
(* The calls of the scripts, and their order.                              *)

\* InitSetup and STContract are joined from shorter lists.
Initialise ==
  <<Do("createAddresses", "all"), Do("initChain", "value"), Do("initChain", "utility"),
    Do("copyKeys", "sealer"), Do("startGeth", "all"), Do("writeEnv", "deployment"),
    Do("checkGeth", "all"), Do("importKeys", "all"), Do("writeEnv", "all")>>
StartDynamoDb == <<Do("startDynamo", "all"), Do("initDynamo", "all")>>
DeployST == <<Deploy("simpleToken", "value", "foundation", {})>>
FinishST ==
  <<Send("setAdmin", "value", "foundation", "simpleToken", {"accounts", "simpleToken"}),
    Send("finalize", "value", "valueRegistrar", "simpleToken", {"accounts", "simpleToken"})>>
Executable(c) == <<Do("startExecutable", c)>>

\* The calls the scripts are made of.
Parts ==
  {CleanSetup, Initialise, FundUsers, StartDynamoDb, DeployST, FinishST, FundUsersWithST,
   ValueRegistrar, OpenSTValue, UtilityRegistrar, OpenSTUtility, ValueCore, STPrime,
   RegisterSTPrime, STPrimeMint, FundUsersWithSTPrime, End, StartServices}
  \cup {Named(k) : k \in Contracts} \cup {Executable(c) : c \in Communicators}
AllCalls == UNION {Elements(s) : s \in Parts}

Offered == {"valueRegistrar", "openSTValue", "utilityRegistrar", "openSTUtility"}

WellFormed(c) ==
  /\ c.do \in {"deploy", "name"} => c.what \in Contracts
  /\ c.do = "setOps" => \/ c.what = "valueRegistrar" /\ c.to \in {"valueOps", "valueRegistrar"}
                        \/ c.what = "utilityRegistrar" /\ c.to = "utilityRegistrar"
  /\ c.do = "offerOwnership" => c.what \in Offered
  /\ c.do = "initChain" => c.what \in Chains
  /\ c.do = "startExecutable" => c.what \in Communicators
  /\ c.do = "runScript" => c.what \in Chains \cup Communicators
  /\ c.do = "transferSTP" => c.to # "utilityChainOwner"

Calls == {c \in AllCalls : WellFormed(c)}

Kind(dos) == {c \in Calls : c.do \in dos}

Fresh      == Kind({"freshSetup"})
AfterFresh == {c \in Calls : c.do \notin {"stopServices", "freshSetup"}}
Checking   == Kind({"checkGeth"})
Importing  == Kind({"importKeys"})

\* The roles of valueRegistrar: valueOps takes its own, registers ST Prime, and
\* gives it up; then the ownership is offered.
Taking      == {c \in Kind({"setOps"}) : c.to = "valueOps"}
Registering == Kind({"registerUtilityToken"})
GivingUp    == {c \in Kind({"setOps"}) : c.to = "valueRegistrar"}
Offering    == {c \in Kind({"offerOwnership"}) : c.what = "valueRegistrar"}

Starting   == Kind({"startGeth", "startExecutable", "runScript"})
Stopping   == Kind({"stopServices"})
Creating   == Kind({"createAddresses"})
Cleaning   == Kind({"buildCleanup"})
Renaming   == Kind({"createAddresses", "freshSetup"})
NamingLast == {c \in Kind({"name"}) : c.what = "stPrime"}

\* Only a process that runs all steps changes roles.
RoleCalls == Kind({"setOps", "offerOwnership"})

InOrder(s) ==
  /\ Before(s, Fresh, AfterFresh)
  /\ Before(s, Checking, Importing)

\* The order of the whole setup.
DeployOrder(s) ==
  /\ Before(s, Registering, GivingUp)
  /\ Before(s, GivingUp, Offering)
  /\ Before(s, Taking, Offering)
  /\ Follows(s, Taking, GivingUp)
  /\ Follows(s, Renaming, NamingLast)

WholeOrder(s) ==
  /\ DeployOrder(s)
  /\ Follows(s, Starting, Stopping)
  /\ Follows(s, Creating, Cleaning)

-----------------------------------------------------------------------------
(* The inductive invariant.                                                *)

\* A call of the kind is still to be made.
Left(X) == Elements(calls) \cap X # {}

CallsInv ==
  /\ calls \in Seq(Calls)
  /\ InOrder(calls)
  /\ Left(RoleCalls) => command = "all"
  /\ command = "all" => WholeOrder(calls)

\* A checker that no stale geth has answered has seen no block that is not there, and
\* one that is done two of them.
\* Keys are imported, and contracts deployed, when both have been done.
TwoBlocks == \A ch \in Chains : height[ch] >= 2 \/ ch \in heard

LiveInv ==
  /\ \A ch \in Chains \ heard : seen[ch] <= height[ch] /\ (ch \in ready => height[ch] >= 2)
  /\ status = "running" /\ Head(calls).do \notin {"checkGeth", "chainStatus"} =>
       seen = Zero /\ ready = {}
  /\ "keys" \in disk \/ contracts # {} => TwoBlocks
  /\ Left(Importing) /\ ~Left(Checking) => TwoBlocks /\ ~Left(Fresh)

\* ST Prime of the utility chain owner is minted.
MintInv == <<"STP", "utilityChainOwner">> \in funds => "minted" \in facts

\* What a call that went through leaves behind for good.
Done(c) ==
  /\ c.do = "checkGeth" => TwoBlocks
  /\ c.do = "createAddresses" => "accounts" \in mem
  /\ c.do = "name" => c.what \in mem
  /\ c.do = "deploy" => c.what \in contracts
  /\ c.do = "initialTransfer" => "supply" \in facts /\ "stPrime" \in contracts
  /\ c.do = "setAdmin" => "admin" \in facts
  /\ c.do = "registerUtilityToken" => "registered" \in facts
  /\ c.do = "awaitMint" => "minted" \in facts
  /\ c.do = "setOps" /\ c.what = "utilityRegistrar" =>
       ops["utilityRegistrar"] = "utilityRegistrar"
  /\ c.do = "offerOwnership" => c.what \in offered
  /\ c.do = "postSetupSteps" => "bin" \in disk

\* Whatever runs has a kill on its way, if nothing failed.
KillsSent == faults > 0 \/ up \cup comms \subseteq dying

\* And what may be undone again.
Leaves(c) ==
  /\ Done(c)
  /\ c.do = "freshSetup" => offered = {}
  /\ c.do = "setOps" => ops[c.what] = c.to
  /\ c.do = "stopServices" => KillsSent
  /\ c.do = "buildCleanup" => "tmp" \notin disk
  /\ c.do = "name" => env = mem

\* The process runs, or ran, the whole setup, and no call has ended it.
Whole == command = "all" /\ status \in {"running", "exit0"}

\* Every call of the setup is still to be made, or was made since the folder was
\* emptied and went through; and what is to be undone or written in the end is, or
\* will be.
Steps == Elements(Script("all")) \cap AfterFresh

WholeInv ==
  Whole =>
    /\ \A c \in Steps : c \in Elements(calls) \/ (Done(c) /\ ~Left(Fresh))
    /\ Left(GivingUp) \/ (ops["valueRegistrar"] = "valueRegistrar" /\ ~Left(Fresh))
    /\ Left(Stopping) \/ KillsSent
    /\ Left(Cleaning) \/ "tmp" \notin disk
    /\ Left(NamingLast) \/ env = mem

\* Roles are handed on in this order, and not before the contracts are new.
RolesInv ==
  /\ ops["valueRegistrar"] = "valueRegistrar" => "registered" \in facts
  /\ "valueRegistrar" \in offered => ops["valueRegistrar"] = "valueRegistrar"
  /\ offered \subseteq Offered
  /\ Left(Taking) /\ ~Left(Fresh) => "valueRegistrar" \notin offered

IInv == TypeOK /\ CallsInv /\ LiveInv /\ MintInv /\ WholeInv /\ RolesInv

-----------------------------------------------------------------------------
(* The scripts: what each part does, and in which order.                   *)

DosOf(s) == {c.do : c \in Elements(s)}

\* The list has the call.
Does(s, do, what) == \E c \in Elements(s) : c.do = do /\ c.what = what /\ c.to = what

\* What the call is about.
Makes(c, do, what, to) == c.do = do /\ c.what = what /\ c.to = to

LEMMA MadeCalls ==
  ASSUME NEW do, NEW on, NEW by, NEW what, NEW to, NEW needs
  PROVE  /\ Makes(Send(do, on, by, what, needs), do, what, what)
         /\ Makes(Do(do, what), do, what, what)
         /\ Makes(Fund(do, on, by, what, needs), do, what, what)
         /\ Makes(Deploy(what, on, by, needs), "deploy", what, what)
         /\ Makes(Offer(what, on, by), "offerOwnership", what, what)
         /\ Makes(SetOps(what, on, by, to), "setOps", what, to)
PROOF
  <1>1. Makes(SetOps(what, on, by, to), "setOps", what, to)
    BY DEF Makes, Send, SetOps
  <1>2. QED BY <1>1 DEF Makes, Send, Do, Fund, Deploy, Offer

LEMMA PartsCalls ==
  ASSUME NEW s \in Parts
  PROVE  Elements(s) \subseteq AllCalls
PROOF
  BY DEF AllCalls

LEMMA SeqElements ==
  ASSUME NEW S, NEW s \in Seq(S)
  PROVE  Elements(s) \subseteq S
PROOF
  BY DEF Elements

LEMMA Joined ==
  ASSUME NEW s \in Seq(Calls), NEW t \in Seq(Calls)
  PROVE  /\ s \o t \in Seq(Calls)
         /\ Elements(s \o t) = Elements(s) \cup Elements(t)
         /\ DosOf(s \o t) = DosOf(s) \cup DosOf(t)
         /\ \A do, what : Does(s, do, what) \/ Does(t, do, what) => Does(s \o t, do, what)
PROOF
  <1>1. s \o t \in Seq(Calls) /\ Elements(s \o t) = Elements(s) \cup Elements(t)
    BY ElementsJoin
  <1>2. QED BY <1>1 DEF DosOf, Does

LEMMA CleanSetupPart ==
  /\ CleanSetup \in Seq(Calls)
  /\ DosOf(CleanSetup) \subseteq {"stopServices", "freshSetup"}
  /\ Elements(CleanSetup) \cap Fresh # {}
PROOF
  <1> DEFINE a == Do("stopServices", "all")
             b == Do("freshSetup", "all")
  <1>1. /\ Makes(a, "stopServices", "all", "all")
        /\ Makes(b, "freshSetup", "all", "all")
    BY MadeCalls
  <1>2. CleanSetup = <<a, b>>
    BY DEF CleanSetup, a, b
  <1> HIDE DEF a, b
  <1>3. Elements(CleanSetup) = {a, b}
    BY <1>2 DEF Elements
  <1>4. Elements(CleanSetup) \subseteq AllCalls
    BY PartsCalls DEF Parts
  <1>5. {a, b} \subseteq Calls
    BY <1>1, <1>3, <1>4 DEF Makes, Calls, WellFormed, Offered, Contracts, Chains, Communicators
  <1>6. CleanSetup \in Seq(Calls)
    BY <1>2, <1>5, ListOfTwo
  <1>7. DosOf(CleanSetup) \subseteq {"stopServices", "freshSetup"}
    BY <1>1, <1>3 DEF DosOf, Makes
  <1>8. Elements(CleanSetup) \cap Fresh # {}
    BY <1>1, <1>2, <1>5, <1>3 DEF Makes, Fresh, Kind
  <1>9. QED BY <1>6, <1>7, <1>8

LEMMA RegisterSTPrimePart ==
  /\ RegisterSTPrime \in Seq(Calls)
  /\ DosOf(RegisterSTPrime) \subseteq {"registerUtilityToken", "setOps", "offerOwnership"}
  /\ Does(RegisterSTPrime, "registerUtilityToken", "stPrime")
  /\ Does(RegisterSTPrime, "setOps", "valueRegistrar")
  /\ Does(RegisterSTPrime, "offerOwnership", "valueRegistrar")
  /\ Elements(RegisterSTPrime) \cap Taking = {} /\ Elements(RegisterSTPrime) \cap GivingUp # {}
  /\ Before(RegisterSTPrime, Registering, GivingUp)
  /\ Before(RegisterSTPrime, GivingUp, Offering)
PROOF
  <1> DEFINE a == Send("registerUtilityToken", "value", "valueOps", "stPrime", {"accounts", "valueRegistrar", "openSTValue", "openSTUtility", "stPrime"})
             b == SetOps("valueRegistrar", "value", "valueDeployer", "valueRegistrar")
             c == Offer("valueRegistrar", "value", "valueDeployer")
  <1>1. /\ Makes(a, "registerUtilityToken", "stPrime", "stPrime")
        /\ Makes(b, "setOps", "valueRegistrar", "valueRegistrar")
        /\ Makes(c, "offerOwnership", "valueRegistrar", "valueRegistrar")
    BY MadeCalls
  <1>2. RegisterSTPrime = <<a, b, c>>
    BY DEF RegisterSTPrime, a, b, c
  <1> HIDE DEF a, b, c
  <1>3. Elements(RegisterSTPrime) = {a, b, c}
    BY <1>2 DEF Elements
  <1>4. Elements(RegisterSTPrime) \subseteq AllCalls
    BY PartsCalls DEF Parts
  <1>5. {a, b, c} \subseteq Calls
    BY <1>1, <1>3, <1>4 DEF Makes, Calls, WellFormed, Offered, Contracts, Chains, Communicators
  <1>6. RegisterSTPrime \in Seq(Calls)
    BY <1>2, <1>5, ListOfThree
  <1>7. DosOf(RegisterSTPrime) \subseteq {"registerUtilityToken", "setOps", "offerOwnership"}
    BY <1>1, <1>3 DEF DosOf, Makes
  <1>8. Does(RegisterSTPrime, "registerUtilityToken", "stPrime")
    BY <1>1, <1>3 DEF Does, Makes
  <1>9. Does(RegisterSTPrime, "setOps", "valueRegistrar")
    BY <1>1, <1>3 DEF Does, Makes
  <1>10. Does(RegisterSTPrime, "offerOwnership", "valueRegistrar")
    BY <1>1, <1>3 DEF Does, Makes
  <1>11. Elements(RegisterSTPrime) \cap Taking = {} /\ Elements(RegisterSTPrime) \cap GivingUp # {}
    BY <1>1, <1>2, <1>5, <1>3 DEF Makes, Registering, GivingUp, Offering, Taking, Kind
  <1>12. Before(RegisterSTPrime, Registering, GivingUp)
    BY <1>1, <1>2, <1>5, <1>3 DEF Makes, Before, Registering, GivingUp, Offering, Taking, Kind
  <1>13. Before(RegisterSTPrime, GivingUp, Offering)
    BY <1>1, <1>2, <1>5, <1>3 DEF Makes, Before, Registering, GivingUp, Offering, Taking, Kind
  <1>14. QED BY <1>6, <1>7, <1>8, <1>9, <1>10, <1>11, <1>12, <1>13

LEMMA FundUsersPart ==
  /\ FundUsers \in Seq(Calls)
  /\ DosOf(FundUsers) \subseteq {"transferEth"}
PROOF
  <1> DEFINE a == Fund("transferEth", "value", "foundation", "valueRegistrar", {})
             b == Fund("transferEth", "value", "foundation", "valueDeployer", {})
             c == Fund("transferEth", "value", "foundation", "valueOps", {})
             d == Fund("transferEth", "value", "foundation", "utilityChainOwner", {})
             e == Fund("transferEth", "value", "foundation", "staker", {})
  <1>1. /\ Makes(a, "transferEth", "valueRegistrar", "valueRegistrar")
        /\ Makes(b, "transferEth", "valueDeployer", "valueDeployer")
        /\ Makes(c, "transferEth", "valueOps", "valueOps")
        /\ Makes(d, "transferEth", "utilityChainOwner", "utilityChainOwner")
        /\ Makes(e, "transferEth", "staker", "staker")
    BY MadeCalls
  <1>2. FundUsers = <<a, b, c, d, e>>
    BY DEF FundUsers, a, b, c, d, e
  <1> HIDE DEF a, b, c, d, e
  <1>3. Elements(FundUsers) = {a, b, c, d, e}
    BY <1>2 DEF Elements
  <1>4. Elements(FundUsers) \subseteq AllCalls
    BY PartsCalls DEF Parts
  <1>5. {a, b, c, d, e} \subseteq Calls
    BY <1>1, <1>3, <1>4 DEF Makes, Calls, WellFormed, Offered, Contracts, Chains, Communicators
  <1>6. FundUsers \in Seq(Calls)
    BY <1>2, <1>5, ListOfFive
  <1>7. DosOf(FundUsers) \subseteq {"transferEth"}
    BY <1>1, <1>3 DEF DosOf, Makes
  <1>8. QED BY <1>6, <1>7

LEMMA InitialisePart ==
  /\ Initialise \in Seq(Calls)
  /\ DosOf(Initialise) \subseteq {"createAddresses", "initChain", "copyKeys", "startGeth",
       "writeEnv", "checkGeth", "importKeys"}
  /\ Does(Initialise, "createAddresses", "all")
  /\ Does(Initialise, "checkGeth", "all")
  /\ Before(Initialise, Checking, Importing)
PROOF
  <1> DEFINE a == Do("createAddresses", "all")
             b == Do("initChain", "value")
             c == Do("initChain", "utility")
             d == Do("copyKeys", "sealer")
             e == Do("startGeth", "all")
             f == Do("writeEnv", "deployment")
             g == Do("checkGeth", "all")
             h == Do("importKeys", "all")
             i == Do("writeEnv", "all")
  <1>1. /\ Makes(a, "createAddresses", "all", "all")
        /\ Makes(b, "initChain", "value", "value")
        /\ Makes(c, "initChain", "utility", "utility")
        /\ Makes(d, "copyKeys", "sealer", "sealer")
        /\ Makes(e, "startGeth", "all", "all")
        /\ Makes(f, "writeEnv", "deployment", "deployment")
        /\ Makes(g, "checkGeth", "all", "all")
        /\ Makes(h, "importKeys", "all", "all")
        /\ Makes(i, "writeEnv", "all", "all")
    BY MadeCalls
  <1>2. Initialise = <<a, b, c, d, e, f, g, h, i>>
    BY DEF Initialise, a, b, c, d, e, f, g, h, i
  <1> HIDE DEF a, b, c, d, e, f, g, h, i
  <1>3. Elements(Initialise) = {a, b, c, d, e, f, g, h, i}
    BY <1>2 DEF Elements
  <1>4. Elements(Initialise) \subseteq AllCalls
    BY PartsCalls DEF Parts
  <1>5. {a, b, c, d, e, f, g, h, i} \subseteq Calls
    BY <1>1, <1>3, <1>4 DEF Makes, Calls, WellFormed, Offered, Contracts, Chains, Communicators
  <1>6. Initialise \in Seq(Calls)
    BY <1>2, <1>5, ListOfNine
  <1>7. DosOf(Initialise) \subseteq {"createAddresses", "initChain", "copyKeys", "startGeth",
               "writeEnv", "checkGeth", "importKeys"}
    BY <1>1, <1>3 DEF DosOf, Makes
  <1>8. Does(Initialise, "createAddresses", "all")
    BY <1>1, <1>3 DEF Does, Makes
  <1>9. Does(Initialise, "checkGeth", "all")
    BY <1>1, <1>3 DEF Does, Makes
  <1>10. Before(Initialise, Checking, Importing)
    BY <1>1, <1>2, <1>5, <1>3 DEF Makes, Before, Checking, Importing, Kind
  <1>11. QED BY <1>6, <1>7, <1>8, <1>9, <1>10

LEMMA StartDynamoDbPart ==
  /\ StartDynamoDb \in Seq(Calls)
  /\ DosOf(StartDynamoDb) \subseteq {"startDynamo", "initDynamo"}
PROOF
  <1> DEFINE a == Do("startDynamo", "all")
             b == Do("initDynamo", "all")
  <1>1. /\ Makes(a, "startDynamo", "all", "all")
        /\ Makes(b, "initDynamo", "all", "all")
    BY MadeCalls
  <1>2. StartDynamoDb = <<a, b>>
    BY DEF StartDynamoDb, a, b
  <1> HIDE DEF a, b
  <1>3. Elements(StartDynamoDb) = {a, b}
    BY <1>2 DEF Elements
  <1>4. Elements(StartDynamoDb) \subseteq AllCalls
    BY PartsCalls DEF Parts
  <1>5. {a, b} \subseteq Calls
    BY <1>1, <1>3, <1>4 DEF Makes, Calls, WellFormed, Offered, Contracts, Chains, Communicators
  <1>6. StartDynamoDb \in Seq(Calls)
    BY <1>2, <1>5, ListOfTwo
  <1>7. DosOf(StartDynamoDb) \subseteq {"startDynamo", "initDynamo"}
    BY <1>1, <1>3 DEF DosOf, Makes
  <1>8. QED BY <1>6, <1>7

LEMMA NamedPart ==
  ASSUME NEW k \in Contracts
  PROVE  /\ Named(k) \in Seq(Calls)
         /\ DosOf(Named(k)) \subseteq {"name"}
         /\ Does(Named(k), "name", k)
         /\ k = "stPrime" => Elements(Named(k)) \cap NamingLast # {}
PROOF
  <1> DEFINE a == Do("name", k)
  <1>1. Makes(a, "name", k, k)
    BY MadeCalls
  <1>2. Named(k) = <<a>>
    BY DEF Named
  <1> HIDE DEF a
  <1>3. Elements(Named(k)) = {a}
    BY <1>2 DEF Elements
  <1>4. Elements(Named(k)) \subseteq AllCalls
    BY PartsCalls DEF Parts
  <1>5. a \in Calls
    BY <1>1, <1>3, <1>4 DEF Makes, Calls, WellFormed
  <1>6. Named(k) \in Seq(Calls)
    BY <1>2, <1>5, ListOfOne
  <1>7. QED BY <1>1, <1>3, <1>5, <1>6 DEF Makes, DosOf, Does, NamingLast, Kind

LEMMA ExecutablePart ==
  ASSUME NEW c \in Communicators
  PROVE  /\ Executable(c) \in Seq(Calls)
         /\ DosOf(Executable(c)) \subseteq {"startExecutable"}
PROOF
  <1> DEFINE a == Do("startExecutable", c)
  <1>1. Makes(a, "startExecutable", c, c)
    BY MadeCalls
  <1>2. Executable(c) = <<a>>
    BY DEF Executable
  <1> HIDE DEF a
  <1>3. Elements(Executable(c)) = {a}
    BY <1>2 DEF Elements
  <1>4. Elements(Executable(c)) \subseteq AllCalls
    BY PartsCalls DEF Parts
  <1>5. a \in Calls
    BY <1>1, <1>3, <1>4 DEF Makes, Calls, WellFormed
  <1>6. Executable(c) \in Seq(Calls)
    BY <1>2, <1>5, ListOfOne
  <1>7. QED BY <1>1, <1>3, <1>6 DEF Makes, DosOf

LEMMA DeploySTPart ==
  /\ DeployST \in Seq(Calls)
  /\ DosOf(DeployST) \subseteq {"deploy"}
  /\ Does(DeployST, "deploy", "simpleToken")
PROOF
  <1> DEFINE a == Deploy("simpleToken", "value", "foundation", {})
  <1>1. Makes(a, "deploy", "simpleToken", "simpleToken")
    BY MadeCalls
  <1>2. DeployST = <<a>>
    BY DEF DeployST, a
  <1> HIDE DEF a
  <1>3. Elements(DeployST) = {a}
    BY <1>2 DEF Elements
  <1>4. Elements(DeployST) \subseteq AllCalls
    BY PartsCalls DEF Parts
  <1>5. {a} \subseteq Calls
    BY <1>1, <1>3, <1>4 DEF Makes, Calls, WellFormed, Offered, Contracts, Chains, Communicators
  <1>6. DeployST \in Seq(Calls)
    BY <1>2, <1>5, ListOfOne
  <1>7. DosOf(DeployST) \subseteq {"deploy"}
    BY <1>1, <1>3 DEF DosOf, Makes
  <1>8. Does(DeployST, "deploy", "simpleToken")
    BY <1>1, <1>3 DEF Does, Makes
  <1>9. QED BY <1>6, <1>7, <1>8

LEMMA FinishSTPart ==
  /\ FinishST \in Seq(Calls)
  /\ DosOf(FinishST) \subseteq {"setAdmin", "finalize"}
  /\ Does(FinishST, "setAdmin", "simpleToken")
PROOF
  <1> DEFINE a == Send("setAdmin", "value", "foundation", "simpleToken", {"accounts", "simpleToken"})
             b == Send("finalize", "value", "valueRegistrar", "simpleToken", {"accounts", "simpleToken"})
  <1>1. /\ Makes(a, "setAdmin", "simpleToken", "simpleToken")
        /\ Makes(b, "finalize", "simpleToken", "simpleToken")
    BY MadeCalls
  <1>2. FinishST = <<a, b>>
    BY DEF FinishST, a, b
  <1> HIDE DEF a, b
  <1>3. Elements(FinishST) = {a, b}
    BY <1>2 DEF Elements
  <1>4. Elements(FinishST) \subseteq AllCalls
    BY PartsCalls DEF Parts
  <1>5. {a, b} \subseteq Calls
    BY <1>1, <1>3, <1>4 DEF Makes, Calls, WellFormed, Offered, Contracts, Chains, Communicators
  <1>6. FinishST \in Seq(Calls)
    BY <1>2, <1>5, ListOfTwo
  <1>7. DosOf(FinishST) \subseteq {"setAdmin", "finalize"}
    BY <1>1, <1>3 DEF DosOf, Makes
  <1>8. Does(FinishST, "setAdmin", "simpleToken")
    BY <1>1, <1>3 DEF Does, Makes
  <1>9. QED BY <1>6, <1>7, <1>8

LEMMA FundUsersWithSTPart ==
  /\ FundUsersWithST \in Seq(Calls)
  /\ DosOf(FundUsersWithST) \subseteq {"transferST"}
PROOF
  <1> DEFINE a == Fund("transferST", "value", "foundation", "utilityChainOwner", {"simpleToken"})
  <1>1. Makes(a, "transferST", "utilityChainOwner", "utilityChainOwner")
    BY MadeCalls
  <1>2. FundUsersWithST = <<a>>
    BY DEF FundUsersWithST, a
  <1> HIDE DEF a
  <1>3. Elements(FundUsersWithST) = {a}
    BY <1>2 DEF Elements
  <1>4. Elements(FundUsersWithST) \subseteq AllCalls
    BY PartsCalls DEF Parts
  <1>5. {a} \subseteq Calls
    BY <1>1, <1>3, <1>4 DEF Makes, Calls, WellFormed, Offered, Contracts, Chains, Communicators
  <1>6. FundUsersWithST \in Seq(Calls)
    BY <1>2, <1>5, ListOfOne
  <1>7. DosOf(FundUsersWithST) \subseteq {"transferST"}
    BY <1>1, <1>3 DEF DosOf, Makes
  <1>8. QED BY <1>6, <1>7

LEMMA ValueRegistrarPart ==
  /\ ValueRegistrar \in Seq(Calls)
  /\ DosOf(ValueRegistrar) \subseteq {"deploy", "setOps"}
  /\ Does(ValueRegistrar, "deploy", "valueRegistrar")
  /\ Elements(ValueRegistrar) \cap GivingUp = {}
PROOF
  <1> DEFINE a == Deploy("valueRegistrar", "value", "valueDeployer", {})
             b == SetOps("valueRegistrar", "value", "valueDeployer", "valueOps")
  <1>1. /\ Makes(a, "deploy", "valueRegistrar", "valueRegistrar")
        /\ Makes(b, "setOps", "valueRegistrar", "valueOps")
    BY MadeCalls
  <1>2. ValueRegistrar = <<a, b>>
    BY DEF ValueRegistrar, a, b
  <1> HIDE DEF a, b
  <1>3. Elements(ValueRegistrar) = {a, b}
    BY <1>2 DEF Elements
  <1>4. Elements(ValueRegistrar) \subseteq AllCalls
    BY PartsCalls DEF Parts
  <1>5. {a, b} \subseteq Calls
    BY <1>1, <1>3, <1>4 DEF Makes, Calls, WellFormed, Offered, Contracts, Chains, Communicators
  <1>6. ValueRegistrar \in Seq(Calls)
    BY <1>2, <1>5, ListOfTwo
  <1>7. DosOf(ValueRegistrar) \subseteq {"deploy", "setOps"}
    BY <1>1, <1>3 DEF DosOf, Makes
  <1>8. Does(ValueRegistrar, "deploy", "valueRegistrar")
    BY <1>1, <1>3 DEF Does, Makes
  <1>9. Elements(ValueRegistrar) \cap GivingUp = {}
    BY <1>1, <1>2, <1>5, <1>3 DEF Makes, Registering, GivingUp, Offering, Taking, Kind
  <1>10. QED BY <1>6, <1>7, <1>8, <1>9

LEMMA OpenSTValuePart ==
  /\ OpenSTValue \in Seq(Calls)
  /\ DosOf(OpenSTValue) \subseteq {"deploy", "offerOwnership"}
  /\ Does(OpenSTValue, "deploy", "openSTValue")
  /\ Does(OpenSTValue, "offerOwnership", "openSTValue")
  /\ Elements(OpenSTValue) \cap GivingUp = {} /\ Elements(OpenSTValue) \cap Offering = {}
PROOF
  <1> DEFINE a == Deploy("openSTValue", "value", "valueDeployer", {"simpleToken", "valueRegistrar"})
             b == Offer("openSTValue", "value", "valueDeployer")
  <1>1. /\ Makes(a, "deploy", "openSTValue", "openSTValue")
        /\ Makes(b, "offerOwnership", "openSTValue", "openSTValue")
    BY MadeCalls
  <1>2. OpenSTValue = <<a, b>>
    BY DEF OpenSTValue, a, b
  <1> HIDE DEF a, b
  <1>3. Elements(OpenSTValue) = {a, b}
    BY <1>2 DEF Elements
  <1>4. Elements(OpenSTValue) \subseteq AllCalls
    BY PartsCalls DEF Parts
  <1>5. {a, b} \subseteq Calls
    BY <1>1, <1>3, <1>4 DEF Makes, Calls, WellFormed, Offered, Contracts, Chains, Communicators
  <1>6. OpenSTValue \in Seq(Calls)
    BY <1>2, <1>5, ListOfTwo
  <1>7. DosOf(OpenSTValue) \subseteq {"deploy", "offerOwnership"}
    BY <1>1, <1>3 DEF DosOf, Makes
  <1>8. Does(OpenSTValue, "deploy", "openSTValue")
    BY <1>1, <1>3 DEF Does, Makes
  <1>9. Does(OpenSTValue, "offerOwnership", "openSTValue")
    BY <1>1, <1>3 DEF Does, Makes
  <1>10. Elements(OpenSTValue) \cap GivingUp = {} /\ Elements(OpenSTValue) \cap Offering = {}
    BY <1>1, <1>2, <1>5, <1>3 DEF Makes, Registering, GivingUp, Offering, Taking, Kind
  <1>11. QED BY <1>6, <1>7, <1>8, <1>9, <1>10

LEMMA UtilityRegistrarPart ==
  /\ UtilityRegistrar \in Seq(Calls)
  /\ DosOf(UtilityRegistrar) \subseteq {"deploy", "setOps", "offerOwnership"}
  /\ Does(UtilityRegistrar, "deploy", "utilityRegistrar")
  /\ Does(UtilityRegistrar, "setOps", "utilityRegistrar")
  /\ Does(UtilityRegistrar, "offerOwnership", "utilityRegistrar")
  /\ Elements(UtilityRegistrar) \cap GivingUp = {} /\ Elements(UtilityRegistrar) \cap Offering = {}
PROOF
  <1> DEFINE a == Deploy("utilityRegistrar", "utility", "utilityDeployer", {})
             b == SetOps("utilityRegistrar", "utility", "utilityDeployer", "utilityRegistrar")
             c == Offer("utilityRegistrar", "utility", "utilityDeployer")
  <1>1. /\ Makes(a, "deploy", "utilityRegistrar", "utilityRegistrar")
        /\ Makes(b, "setOps", "utilityRegistrar", "utilityRegistrar")
        /\ Makes(c, "offerOwnership", "utilityRegistrar", "utilityRegistrar")
    BY MadeCalls
  <1>2. UtilityRegistrar = <<a, b, c>>
    BY DEF UtilityRegistrar, a, b, c
  <1> HIDE DEF a, b, c
  <1>3. Elements(UtilityRegistrar) = {a, b, c}
    BY <1>2 DEF Elements
  <1>4. Elements(UtilityRegistrar) \subseteq AllCalls
    BY PartsCalls DEF Parts
  <1>5. {a, b, c} \subseteq Calls
    BY <1>1, <1>3, <1>4 DEF Makes, Calls, WellFormed, Offered, Contracts, Chains, Communicators
  <1>6. UtilityRegistrar \in Seq(Calls)
    BY <1>2, <1>5, ListOfThree
  <1>7. DosOf(UtilityRegistrar) \subseteq {"deploy", "setOps", "offerOwnership"}
    BY <1>1, <1>3 DEF DosOf, Makes
  <1>8. Does(UtilityRegistrar, "deploy", "utilityRegistrar")
    BY <1>1, <1>3 DEF Does, Makes
  <1>9. Does(UtilityRegistrar, "setOps", "utilityRegistrar")
    BY <1>1, <1>3 DEF Does, Makes
  <1>10. Does(UtilityRegistrar, "offerOwnership", "utilityRegistrar")
    BY <1>1, <1>3 DEF Does, Makes
  <1>11. Elements(UtilityRegistrar) \cap GivingUp = {} /\ Elements(UtilityRegistrar) \cap Offering = {}
    BY <1>1, <1>2, <1>5, <1>3 DEF Makes, Registering, GivingUp, Offering, Taking, Kind
  <1>12. QED BY <1>6, <1>7, <1>8, <1>9, <1>10, <1>11

LEMMA OpenSTUtilityPart ==
  /\ OpenSTUtility \in Seq(Calls)
  /\ DosOf(OpenSTUtility) \subseteq {"deploy", "offerOwnership"}
  /\ Does(OpenSTUtility, "deploy", "openSTUtility")
  /\ Does(OpenSTUtility, "offerOwnership", "openSTUtility")
  /\ Elements(OpenSTUtility) \cap GivingUp = {} /\ Elements(OpenSTUtility) \cap Offering = {}
PROOF
  <1> DEFINE a == Deploy("openSTUtility", "utility", "utilityDeployer", {"utilityRegistrar"})
             b == Offer("openSTUtility", "utility", "utilityDeployer")
  <1>1. /\ Makes(a, "deploy", "openSTUtility", "openSTUtility")
        /\ Makes(b, "offerOwnership", "openSTUtility", "openSTUtility")
    BY MadeCalls
  <1>2. OpenSTUtility = <<a, b>>
    BY DEF OpenSTUtility, a, b
  <1> HIDE DEF a, b
  <1>3. Elements(OpenSTUtility) = {a, b}
    BY <1>2 DEF Elements
  <1>4. Elements(OpenSTUtility) \subseteq AllCalls
    BY PartsCalls DEF Parts
  <1>5. {a, b} \subseteq Calls
    BY <1>1, <1>3, <1>4 DEF Makes, Calls, WellFormed, Offered, Contracts, Chains, Communicators
  <1>6. OpenSTUtility \in Seq(Calls)
    BY <1>2, <1>5, ListOfTwo
  <1>7. DosOf(OpenSTUtility) \subseteq {"deploy", "offerOwnership"}
    BY <1>1, <1>3 DEF DosOf, Makes
  <1>8. Does(OpenSTUtility, "deploy", "openSTUtility")
    BY <1>1, <1>3 DEF Does, Makes
  <1>9. Does(OpenSTUtility, "offerOwnership", "openSTUtility")
    BY <1>1, <1>3 DEF Does, Makes
  <1>10. Elements(OpenSTUtility) \cap GivingUp = {} /\ Elements(OpenSTUtility) \cap Offering = {}
    BY <1>1, <1>2, <1>5, <1>3 DEF Makes, Registering, GivingUp, Offering, Taking, Kind
  <1>11. QED BY <1>6, <1>7, <1>8, <1>9, <1>10

LEMMA ValueCorePart ==
  /\ ValueCore \in Seq(Calls)
  /\ DosOf(ValueCore) \subseteq {"deploy", "addCore"}
  /\ Does(ValueCore, "deploy", "valueCore")
PROOF
  <1> DEFINE a == Deploy("valueCore", "value", "valueDeployer", {"valueRegistrar", "openSTUtility", "openSTValue"})
             b == Send("addCore", "value", "valueOps", "valueCore", {"accounts", "valueRegistrar", "openSTValue"})
  <1>1. /\ Makes(a, "deploy", "valueCore", "valueCore")
        /\ Makes(b, "addCore", "valueCore", "valueCore")
    BY MadeCalls
  <1>2. ValueCore = <<a, b>>
    BY DEF ValueCore, a, b
  <1> HIDE DEF a, b
  <1>3. Elements(ValueCore) = {a, b}
    BY <1>2 DEF Elements
  <1>4. Elements(ValueCore) \subseteq AllCalls
    BY PartsCalls DEF Parts
  <1>5. {a, b} \subseteq Calls
    BY <1>1, <1>3, <1>4 DEF Makes, Calls, WellFormed, Offered, Contracts, Chains, Communicators
  <1>6. ValueCore \in Seq(Calls)
    BY <1>2, <1>5, ListOfTwo
  <1>7. DosOf(ValueCore) \subseteq {"deploy", "addCore"}
    BY <1>1, <1>3 DEF DosOf, Makes
  <1>8. Does(ValueCore, "deploy", "valueCore")
    BY <1>1, <1>3 DEF Does, Makes
  <1>9. QED BY <1>6, <1>7, <1>8

LEMMA STPrimePart ==
  /\ STPrime \in Seq(Calls)
  /\ DosOf(STPrime) \subseteq {"initialTransfer"}
  /\ Does(STPrime, "initialTransfer", "stPrime")
PROOF
  <1> DEFINE a == Send("initialTransfer", "utility", "utilityInitialSTPrimeHolder", "stPrime", {"accounts", "openSTUtility"})
  <1>1. Makes(a, "initialTransfer", "stPrime", "stPrime")
    BY MadeCalls
  <1>2. STPrime = <<a>>
    BY DEF STPrime, a
  <1> HIDE DEF a
  <1>3. Elements(STPrime) = {a}
    BY <1>2 DEF Elements
  <1>4. Elements(STPrime) \subseteq AllCalls
    BY PartsCalls DEF Parts
  <1>5. {a} \subseteq Calls
    BY <1>1, <1>3, <1>4 DEF Makes, Calls, WellFormed, Offered, Contracts, Chains, Communicators
  <1>6. STPrime \in Seq(Calls)
    BY <1>2, <1>5, ListOfOne
  <1>7. DosOf(STPrime) \subseteq {"initialTransfer"}
    BY <1>1, <1>3 DEF DosOf, Makes
  <1>8. Does(STPrime, "initialTransfer", "stPrime")
    BY <1>1, <1>3 DEF Does, Makes
  <1>9. QED BY <1>6, <1>7, <1>8

LEMMA STPrimeMintPart ==
  /\ STPrimeMint \in Seq(Calls)
  /\ DosOf(STPrimeMint) \subseteq {"transferST", "approve", "stake", "awaitMint"}
  /\ Does(STPrimeMint, "awaitMint", "stPrime")
PROOF
  <1> DEFINE a == Fund("transferST", "value", "utilityChainOwner", "staker", {"simpleToken"})
             b == Send("approve", "value", "staker", "openSTValue", {"accounts", "simpleToken", "openSTValue"})
             c == Send("stake", "value", "staker", "stPrime", {"accounts", "openSTValue", "stPrime"})
             d == Do("awaitMint", "stPrime")
  <1>1. /\ Makes(a, "transferST", "staker", "staker")
        /\ Makes(b, "approve", "openSTValue", "openSTValue")
        /\ Makes(c, "stake", "stPrime", "stPrime")
        /\ Makes(d, "awaitMint", "stPrime", "stPrime")
    BY MadeCalls
  <1>2. STPrimeMint = <<a, b, c, d>>
    BY DEF STPrimeMint, a, b, c, d
  <1> HIDE DEF a, b, c, d
  <1>3. Elements(STPrimeMint) = {a, b, c, d}
    BY <1>2 DEF Elements
  <1>4. Elements(STPrimeMint) \subseteq AllCalls
    BY PartsCalls DEF Parts
  <1>5. {a, b, c, d} \subseteq Calls
    BY <1>1, <1>3, <1>4 DEF Makes, Calls, WellFormed, Offered, Contracts, Chains, Communicators
  <1>6. STPrimeMint \in Seq(Calls)
    BY <1>2, <1>5, ListOfFour
  <1>7. DosOf(STPrimeMint) \subseteq {"transferST", "approve", "stake", "awaitMint"}
    BY <1>1, <1>3 DEF DosOf, Makes
  <1>8. Does(STPrimeMint, "awaitMint", "stPrime")
    BY <1>1, <1>3 DEF Does, Makes
  <1>9. QED BY <1>6, <1>7, <1>8

LEMMA FundUsersWithSTPrimePart ==
  /\ FundUsersWithSTPrime \in Seq(Calls)
  /\ DosOf(FundUsersWithSTPrime) \subseteq {"transferSTP"}
PROOF
  <1> DEFINE a == Fund("transferSTP", "utility", "utilityChainOwner", "staker", {"stPrime"})
             b == Fund("transferSTP", "utility", "utilityChainOwner", "redeemer", {"stPrime"})
             c == Fund("transferSTP", "utility", "utilityChainOwner", "utilityRegistrar", {"stPrime"})
             d == Fund("transferSTP", "utility", "utilityChainOwner", "utilityOps", {"stPrime"})
             e == Fund("transferSTP", "utility", "utilityChainOwner", "utilityDeployer", {"stPrime"})
  <1>1. /\ Makes(a, "transferSTP", "staker", "staker")
        /\ Makes(b, "transferSTP", "redeemer", "redeemer")
        /\ Makes(c, "transferSTP", "utilityRegistrar", "utilityRegistrar")
        /\ Makes(d, "transferSTP", "utilityOps", "utilityOps")
        /\ Makes(e, "transferSTP", "utilityDeployer", "utilityDeployer")
    BY MadeCalls
  <1>2. FundUsersWithSTPrime = <<a, b, c, d, e>>
    BY DEF FundUsersWithSTPrime, a, b, c, d, e
  <1> HIDE DEF a, b, c, d, e
  <1>3. Elements(FundUsersWithSTPrime) = {a, b, c, d, e}
    BY <1>2 DEF Elements
  <1>4. Elements(FundUsersWithSTPrime) \subseteq AllCalls
    BY PartsCalls DEF Parts
  <1>5. {a, b, c, d, e} \subseteq Calls
    BY <1>1, <1>3, <1>4 DEF Makes, Calls, WellFormed, Offered, Contracts, Chains, Communicators
  <1>6. FundUsersWithSTPrime \in Seq(Calls)
    BY <1>2, <1>5, ListOfFive
  <1>7. DosOf(FundUsersWithSTPrime) \subseteq {"transferSTP"}
    BY <1>1, <1>3 DEF DosOf, Makes
  <1>8. QED BY <1>6, <1>7

LEMMA EndPart ==
  /\ End \in Seq(Calls)
  /\ DosOf(End) \subseteq {"buildCleanup", "stopServices", "postSetupSteps"}
  /\ Does(End, "postSetupSteps", "all")
  /\ Elements(End) \cap Cleaning # {} /\ Elements(End) \cap Stopping # {}
PROOF
  <1> DEFINE a == Do("buildCleanup", "all")
             b == Do("stopServices", "all")
             c == Do("postSetupSteps", "all")
  <1>1. /\ Makes(a, "buildCleanup", "all", "all")
        /\ Makes(b, "stopServices", "all", "all")
        /\ Makes(c, "postSetupSteps", "all", "all")
    BY MadeCalls
  <1>2. End = <<a, b, c>>
    BY DEF End, a, b, c
  <1> HIDE DEF a, b, c
  <1>3. Elements(End) = {a, b, c}
    BY <1>2 DEF Elements
  <1>4. Elements(End) \subseteq AllCalls
    BY PartsCalls DEF Parts
  <1>5. {a, b, c} \subseteq Calls
    BY <1>1, <1>3, <1>4 DEF Makes, Calls, WellFormed, Offered, Contracts, Chains, Communicators
  <1>6. End \in Seq(Calls)
    BY <1>2, <1>5, ListOfThree
  <1>7. DosOf(End) \subseteq {"buildCleanup", "stopServices", "postSetupSteps"}
    BY <1>1, <1>3 DEF DosOf, Makes
  <1>8. Does(End, "postSetupSteps", "all")
    BY <1>1, <1>3 DEF Does, Makes
  <1>9. Elements(End) \cap Cleaning # {} /\ Elements(End) \cap Stopping # {}
    BY <1>1, <1>2, <1>5, <1>3 DEF Makes, Cleaning, Stopping, Kind
  <1>10. QED BY <1>6, <1>7, <1>8, <1>9

LEMMA StartServicesPart ==
  /\ StartServices \in Seq(Calls)
  /\ DosOf(StartServices) \subseteq {"startDynamo", "runScript", "chainStatus", "monitor"}
PROOF
  <1> DEFINE a == Do("startDynamo", "all")
             b == Do("runScript", "value")
             c == Do("runScript", "utility")
             d == Do("chainStatus", "value")
             e == Do("chainStatus", "utility")
             f == Do("runScript", "stake_and_mint")
             g == Do("runScript", "redeem_and_unstake")
             h == Do("runScript", "register_branded_token")
             i == Do("runScript", "stake_and_mint_processor")
             j == Do("runScript", "redeem_and_unstake_processor")
             k == Do("monitor", "all")
  <1>1. /\ Makes(a, "startDynamo", "all", "all")
        /\ Makes(b, "runScript", "value", "value")
        /\ Makes(c, "runScript", "utility", "utility")
        /\ Makes(d, "chainStatus", "value", "value")
        /\ Makes(e, "chainStatus", "utility", "utility")
        /\ Makes(f, "runScript", "stake_and_mint", "stake_and_mint")
        /\ Makes(g, "runScript", "redeem_and_unstake", "redeem_and_unstake")
        /\ Makes(h, "runScript", "register_branded_token", "register_branded_token")
        /\ Makes(i, "runScript", "stake_and_mint_processor", "stake_and_mint_processor")
        /\ Makes(j, "runScript", "redeem_and_unstake_processor", "redeem_and_unstake_processor")
        /\ Makes(k, "monitor", "all", "all")
    BY MadeCalls
  <1>2. StartServices = <<a, b, c, d, e, f, g, h, i, j, k>>
    BY DEF StartServices, a, b, c, d, e, f, g, h, i, j, k
  <1> HIDE DEF a, b, c, d, e, f, g, h, i, j, k
  <1>3. Elements(StartServices) = {a, b, c, d, e, f, g, h, i, j, k}
    BY <1>2 DEF Elements
  <1>4. Elements(StartServices) \subseteq AllCalls
    BY PartsCalls DEF Parts
  <1>5. {a, b, c, d, e, f, g, h, i, j, k} \subseteq Calls
    BY <1>1, <1>3, <1>4 DEF Makes, Calls, WellFormed, Offered, Contracts, Chains, Communicators
  <1>6. StartServices \in Seq(Calls)
    BY <1>2, <1>5, ListOfEleven
  <1>7. DosOf(StartServices) \subseteq {"startDynamo", "runScript", "chainStatus", "monitor"}
    BY <1>1, <1>3 DEF DosOf, Makes
  <1>8. QED BY <1>6, <1>7


-----------------------------------------------------------------------------
(* The scripts joined.                                                     *)

LEMMA Without ==
  ASSUME NEW s, NEW D, DosOf(s) \cap D = {}
  PROVE  /\ Elements(s) \cap Kind(D) = {}
         /\ \A E \in SUBSET D : Elements(s) \cap Kind(E) = {}
PROOF
  BY DEF DosOf, Kind

LEMMA InitSetupPart ==
  /\ InitSetup \in Seq(Calls)
  /\ DosOf(InitSetup) \subseteq {"createAddresses", "initChain", "copyKeys", "startGeth",
       "writeEnv", "checkGeth", "importKeys", "transferEth", "startDynamo", "initDynamo"}
  /\ Does(InitSetup, "createAddresses", "all")
  /\ Elements(InitSetup) \cap Checking # {}
  /\ Before(InitSetup, Checking, Importing)
PROOF
  <1> DEFINE p == Initialise \o FundUsers
  <1>1. InitSetup = p \o StartDynamoDb
    BY DEF InitSetup, Initialise, StartDynamoDb
  <1>2. /\ p \in Seq(Calls)
        /\ Elements(p) = Elements(Initialise) \cup Elements(FundUsers)
        /\ DosOf(p) = DosOf(Initialise) \cup DosOf(FundUsers)
        /\ Does(p, "createAddresses", "all")
    BY Joined, InitialisePart, FundUsersPart
  <1>3. Elements(FundUsers) \cap Checking = {} /\ Elements(FundUsers) \cap Importing = {}
    BY Without, FundUsersPart DEF Checking, Importing
  <1>4. Before(p, Checking, Importing)
    BY <1>3, BeforeNone, BeforeJoin, InitialisePart, FundUsersPart
  <1> HIDE DEF p
  <1>5. /\ InitSetup \in Seq(Calls)
        /\ Elements(InitSetup) = Elements(p) \cup Elements(StartDynamoDb)
        /\ DosOf(InitSetup) = DosOf(p) \cup DosOf(StartDynamoDb)
        /\ Does(InitSetup, "createAddresses", "all")
    BY <1>1, <1>2, Joined, StartDynamoDbPart
  <1>6. Elements(StartDynamoDb) \cap Checking = {} /\ Elements(StartDynamoDb) \cap Importing = {}
    BY Without, StartDynamoDbPart DEF Checking, Importing
  <1>7. Before(InitSetup, Checking, Importing)
    BY <1>1, <1>2, <1>4, <1>6, BeforeNone, BeforeJoin, StartDynamoDbPart
  <1>8. Elements(InitSetup) \cap Checking # {}
    <2>1. PICK c \in Elements(Initialise) : c.do = "checkGeth"
      BY InitialisePart DEF Does
    <2>2. c \in Elements(InitSetup)
      BY <1>2, <1>5
    <2>3. c \in Checking
      BY <2>1, InitialisePart, SeqElements DEF Checking, Kind
    <2>4. QED BY <2>2, <2>3
  <1>9. DosOf(InitSetup) = DosOf(Initialise) \cup DosOf(FundUsers) \cup DosOf(StartDynamoDb)
    BY <1>2, <1>5
  <1>10. QED BY <1>5, <1>7, <1>8, <1>9, InitialisePart, FundUsersPart, StartDynamoDbPart

LEMMA STContractPart ==
  /\ STContract \in Seq(Calls)
  /\ DosOf(STContract) \subseteq {"deploy", "name", "setAdmin", "finalize"}
  /\ Does(STContract, "deploy", "simpleToken")
  /\ Does(STContract, "name", "simpleToken")
  /\ Does(STContract, "setAdmin", "simpleToken")
PROOF
  <1> DEFINE n == Named("simpleToken")
             p == DeployST \o n
  <1>1. STContract = p \o FinishST
    BY DEF STContract, DeployST, FinishST
  <1>2. n \in Seq(Calls) /\ DosOf(n) \subseteq {"name"} /\ Does(n, "name", "simpleToken")
    BY NamedPart DEF Contracts
  <1> HIDE DEF n
  <1>3. /\ p \in Seq(Calls)
        /\ DosOf(p) = DosOf(DeployST) \cup DosOf(n)
        /\ Does(p, "deploy", "simpleToken") /\ Does(p, "name", "simpleToken")
    BY <1>2, Joined, DeploySTPart
  <1> HIDE DEF p
  <1>4. /\ STContract \in Seq(Calls)
        /\ DosOf(STContract) = DosOf(p) \cup DosOf(FinishST)
        /\ Does(STContract, "deploy", "simpleToken") /\ Does(STContract, "name", "simpleToken")
        /\ Does(STContract, "setAdmin", "simpleToken")
    BY <1>1, <1>3, Joined, FinishSTPart
  <1>5. QED BY <1>2, <1>3, <1>4, DeploySTPart, FinishSTPart

\* Up to the registration of ST Prime.
DeployAll ==
  ValueRegistrar \o Named("valueRegistrar") \o OpenSTValue \o Named("openSTValue")
  \o UtilityRegistrar \o Named("utilityRegistrar") \o OpenSTUtility \o Named("openSTUtility")
  \o ValueCore \o Named("valueCore") \o STPrime \o Named("stPrime")

LEMMA DeployAllPart ==
  /\ DeployAll \in Seq(Calls)
  /\ DosOf(DeployAll) \subseteq {"deploy", "name", "setOps", "offerOwnership", "addCore",
       "initialTransfer"}
  /\ \A k \in {"valueRegistrar", "openSTValue", "utilityRegistrar", "openSTUtility", "valueCore"} :
       Does(DeployAll, "deploy", k)
  /\ \A k \in {"valueRegistrar", "openSTValue", "utilityRegistrar", "openSTUtility", "valueCore",
           "stPrime"} : Does(DeployAll, "name", k)
  /\ Does(DeployAll, "setOps", "utilityRegistrar")
  /\ \A k \in {"openSTValue", "utilityRegistrar", "openSTUtility"} :
       Does(DeployAll, "offerOwnership", k)
  /\ Does(DeployAll, "initialTransfer", "stPrime")
  /\ Elements(DeployAll) \cap NamingLast # {}
  /\ Elements(DeployAll) \cap GivingUp = {} /\ Elements(DeployAll) \cap Offering = {}
PROOF
  <1> DEFINE n1 == Named("valueRegistrar")
             n2 == Named("openSTValue")
             n3 == Named("utilityRegistrar")
             n4 == Named("openSTUtility")
             n5 == Named("valueCore")
             n6 == Named("stPrime")
             p1 == ValueRegistrar \o n1
             p2 == p1 \o OpenSTValue
             p3 == p2 \o n2
             p4 == p3 \o UtilityRegistrar
             p5 == p4 \o n3
             p6 == p5 \o OpenSTUtility
             p7 == p6 \o n4
             p8 == p7 \o ValueCore
             p9 == p8 \o n5
             p10 == p9 \o STPrime
             p11 == p10 \o n6
  <1>1. DeployAll = p11
    BY DEF DeployAll
  <1>2. /\ n1 \in Seq(Calls) /\ DosOf(n1) \subseteq {"name"} /\ Does(n1, "name", "valueRegistrar")
        /\ n2 \in Seq(Calls) /\ DosOf(n2) \subseteq {"name"} /\ Does(n2, "name", "openSTValue")
        /\ n3 \in Seq(Calls) /\ DosOf(n3) \subseteq {"name"} /\ Does(n3, "name", "utilityRegistrar")
        /\ n4 \in Seq(Calls) /\ DosOf(n4) \subseteq {"name"} /\ Does(n4, "name", "openSTUtility")
        /\ n5 \in Seq(Calls) /\ DosOf(n5) \subseteq {"name"} /\ Does(n5, "name", "valueCore")
        /\ n6 \in Seq(Calls) /\ DosOf(n6) \subseteq {"name"} /\ Does(n6, "name", "stPrime")
        /\ Elements(n6) \cap NamingLast # {}
    BY NamedPart DEF Contracts
  <1> HIDE DEF n1, n2, n3, n4, n5, n6
  <1>3. /\ p1 \in Seq(Calls)
        /\ Elements(p1) = Elements(ValueRegistrar) \cup Elements(n1)
    BY <1>2, ValueRegistrarPart, Joined
  <1> HIDE DEF p1
  <1>4. /\ p2 \in Seq(Calls)
        /\ Elements(p2) = Elements(p1) \cup Elements(OpenSTValue)
    BY <1>2, <1>3, OpenSTValuePart, Joined
  <1> HIDE DEF p2
  <1>5. /\ p3 \in Seq(Calls)
        /\ Elements(p3) = Elements(p2) \cup Elements(n2)
    BY <1>2, <1>4, Joined
  <1> HIDE DEF p3
  <1>6. /\ p4 \in Seq(Calls)
        /\ Elements(p4) = Elements(p3) \cup Elements(UtilityRegistrar)
    BY <1>2, <1>5, UtilityRegistrarPart, Joined
  <1> HIDE DEF p4
  <1>7. /\ p5 \in Seq(Calls)
        /\ Elements(p5) = Elements(p4) \cup Elements(n3)
    BY <1>2, <1>6, Joined
  <1> HIDE DEF p5
  <1>8. /\ p6 \in Seq(Calls)
        /\ Elements(p6) = Elements(p5) \cup Elements(OpenSTUtility)
    BY <1>2, <1>7, OpenSTUtilityPart, Joined
  <1> HIDE DEF p6
  <1>9. /\ p7 \in Seq(Calls)
        /\ Elements(p7) = Elements(p6) \cup Elements(n4)
    BY <1>2, <1>8, Joined
  <1> HIDE DEF p7
  <1>10. /\ p8 \in Seq(Calls)
        /\ Elements(p8) = Elements(p7) \cup Elements(ValueCore)
    BY <1>2, <1>9, ValueCorePart, Joined
  <1> HIDE DEF p8
  <1>11. /\ p9 \in Seq(Calls)
        /\ Elements(p9) = Elements(p8) \cup Elements(n5)
    BY <1>2, <1>10, Joined
  <1> HIDE DEF p9
  <1>12. /\ p10 \in Seq(Calls)
        /\ Elements(p10) = Elements(p9) \cup Elements(STPrime)
    BY <1>2, <1>11, STPrimePart, Joined
  <1> HIDE DEF p10
  <1>13. /\ p11 \in Seq(Calls)
        /\ Elements(p11) = Elements(p10) \cup Elements(n6)
    BY <1>2, <1>12, Joined
  <1> HIDE DEF p11
  <1>14. Elements(DeployAll) =
          Elements(ValueRegistrar) \cup Elements(n1) \cup Elements(OpenSTValue) \cup Elements(n2)
          \cup Elements(UtilityRegistrar) \cup Elements(n3) \cup Elements(OpenSTUtility)
          \cup Elements(n4) \cup Elements(ValueCore) \cup Elements(n5) \cup Elements(STPrime)
          \cup Elements(n6)
    BY <1>1, <1>3, <1>4, <1>5, <1>6, <1>7, <1>8, <1>9, <1>10, <1>11, <1>12, <1>13
  <1>15. DosOf(DeployAll) =
          DosOf(ValueRegistrar) \cup DosOf(n1) \cup DosOf(OpenSTValue) \cup DosOf(n2)
          \cup DosOf(UtilityRegistrar) \cup DosOf(n3) \cup DosOf(OpenSTUtility) \cup DosOf(n4)
          \cup DosOf(ValueCore) \cup DosOf(n5) \cup DosOf(STPrime) \cup DosOf(n6)
    BY <1>14 DEF DosOf
  <1>16. DosOf(DeployAll) \subseteq {"deploy", "name", "setOps", "offerOwnership", "addCore",
                                   "initialTransfer"}
    BY <1>2, <1>15, ValueRegistrarPart, OpenSTValuePart, UtilityRegistrarPart, OpenSTUtilityPart,
       ValueCorePart, STPrimePart
  <1>17. \A k \in {"valueRegistrar", "openSTValue", "utilityRegistrar", "openSTUtility", "valueCore"} :
         Does(DeployAll, "deploy", k)
    BY <1>14, ValueRegistrarPart, OpenSTValuePart, UtilityRegistrarPart,
       OpenSTUtilityPart, ValueCorePart DEF Does
  <1>18. \A k \in {"valueRegistrar", "openSTValue", "utilityRegistrar", "openSTUtility", "valueCore",
             "stPrime"} : Does(DeployAll, "name", k)
    BY <1>2, <1>14 DEF Does
  <1>19. Does(DeployAll, "setOps", "utilityRegistrar")
    BY <1>14, UtilityRegistrarPart DEF Does
  <1>20. \A k \in {"openSTValue", "utilityRegistrar", "openSTUtility"} :
         Does(DeployAll, "offerOwnership", k)
    BY <1>14, OpenSTValuePart, UtilityRegistrarPart, OpenSTUtilityPart DEF Does
  <1>21. Does(DeployAll, "initialTransfer", "stPrime")
    BY <1>14, STPrimePart DEF Does
  <1>22. Elements(DeployAll) \cap NamingLast # {}
    BY <1>2, <1>14
  <1>23. \A s \in {n1, n2, n3, n4, n5, n6, ValueCore, STPrime} :
           DosOf(s) \cap {"setOps", "offerOwnership"} = {}
    BY <1>2, ValueCorePart, STPrimePart
  <1>24. \A s \in {n1, n2, n3, n4, n5, n6, ValueCore, STPrime} :
           Elements(s) \cap GivingUp = {} /\ Elements(s) \cap Offering = {}
    BY <1>23 DEF DosOf, Kind, GivingUp, Offering
  <1>25. Elements(ValueRegistrar) \cap Offering = {}
    BY ValueRegistrarPart DEF DosOf, Kind, Offering
  <1>26. Elements(DeployAll) \cap GivingUp = {} /\ Elements(DeployAll) \cap Offering = {}
    BY <1>14, <1>24, <1>25, ValueRegistrarPart, OpenSTValuePart, UtilityRegistrarPart,
       OpenSTUtilityPart
  <1>27. DeployAll \in Seq(Calls)
    BY <1>1, <1>13
  <1>28. QED BY <1>16, <1>17, <1>18, <1>19, <1>20, <1>21, <1>22, <1>26, <1>27

LEMMA DeployPlatformContractsPart ==
  /\ DeployPlatformContracts \in Seq(Calls)
  /\ DosOf(DeployPlatformContracts) \subseteq
       {"deploy", "name", "setOps", "offerOwnership", "addCore", "initialTransfer",
        "registerUtilityToken"}
  /\ Elements(DeployPlatformContracts) = Elements(DeployAll) \cup Elements(RegisterSTPrime)
  /\ Elements(DeployPlatformContracts) \cap GivingUp # {}
  /\ Elements(DeployPlatformContracts) \cap NamingLast # {}
  /\ DeployOrder(DeployPlatformContracts)
PROOF
  <1> DEFINE d == DeployAll
             r == RegisterSTPrime
             w == DeployPlatformContracts
  <1>1. w = d \o r
    BY DEF DeployPlatformContracts, DeployAll
  <1>2. /\ d \in Seq(Calls) /\ r \in Seq(Calls) /\ w \in Seq(Calls)
        /\ Elements(w) = Elements(d) \cup Elements(r)
        /\ DosOf(w) = DosOf(d) \cup DosOf(r)
    BY <1>1, Joined, DeployAllPart, RegisterSTPrimePart
  <1>3. /\ Elements(d) \cap Registering = {}
        /\ Elements(d) \cap Renaming = {} /\ Elements(r) \cap Renaming = {}
    BY DeployAllPart, RegisterSTPrimePart, Without DEF Registering, Renaming
  <1>4. Before(w, Registering, GivingUp)
    <2>1. Before(d, Registering, GivingUp)
      BY <1>3, BeforeNone
    <2>2. QED BY <1>1, <1>2, <2>1, BeforeJoin, DeployAllPart, RegisterSTPrimePart
  <1>5. Before(w, GivingUp, Offering)
    <2>1. Before(d, GivingUp, Offering)
      BY BeforeNone, DeployAllPart
    <2>2. QED BY <1>1, <1>2, <2>1, BeforeJoin, DeployAllPart, RegisterSTPrimePart
  <1>6. Before(w, Taking, Offering)
    <2>1. Before(d, Taking, Offering) /\ Before(r, Taking, Offering)
      BY BeforeNone, DeployAllPart, RegisterSTPrimePart
    <2>2. QED BY <1>1, <1>2, <2>1, BeforeJoin, DeployAllPart
  <1>7. Follows(w, Taking, GivingUp)
    <2>1. Follows(r, Taking, GivingUp)
      BY FollowsNone, RegisterSTPrimePart
    <2>2. QED BY <1>1, <1>2, <2>1, FollowsJoin, RegisterSTPrimePart
  <1>8. Follows(w, Renaming, NamingLast)
    BY <1>2, <1>3, FollowsNone
  <1>9. DeployOrder(w)
    BY <1>4, <1>5, <1>6, <1>7, <1>8 DEF DeployOrder
  <1>10. QED BY <1>2, <1>9, DeployAllPart, RegisterSTPrimePart

LEMMA MintPart ==
  LET s == STPrimeMint \o FundUsersWithSTPrime IN
    /\ s \in Seq(Calls)
    /\ DosOf(s) \subseteq {"transferST", "approve", "stake", "awaitMint", "transferSTP"}
    /\ Does(s, "awaitMint", "stPrime")
PROOF
  <1>1. /\ STPrimeMint \o FundUsersWithSTPrime \in Seq(Calls)
        /\ DosOf(STPrimeMint \o FundUsersWithSTPrime) =
             DosOf(STPrimeMint) \cup DosOf(FundUsersWithSTPrime)
        /\ Does(STPrimeMint \o FundUsersWithSTPrime, "awaitMint", "stPrime")
    BY Joined, STPrimeMintPart, FundUsersWithSTPrimePart
  <1>2. QED BY <1>1, STPrimeMintPart, FundUsersWithSTPrimePart

\* The rest of a script, which neither empties the folder nor imports keys, does not
\* change what is before what.
LEMMA JoinedInOrder ==
  ASSUME NEW s \in Seq(Calls), NEW t \in Seq(Calls), InOrder(s),
         DosOf(t) \cap {"freshSetup", "checkGeth", "importKeys"} = {}
  PROVE  /\ InOrder(s \o t)
         /\ Elements(s \o t) \cap Checking = Elements(s) \cap Checking
         /\ Elements(s \o t) \cap Importing = Elements(s) \cap Importing
PROOF
  <1>1. /\ Elements(t) \cap Fresh = {} /\ Elements(t) \cap Checking = {}
        /\ Elements(t) \cap Importing = {}
    BY Without DEF Fresh, Checking, Importing
  <1>2. Before(t, Fresh, AfterFresh) /\ Before(t, Checking, Importing)
    BY <1>1, BeforeNone
  <1>3. InOrder(s \o t)
    <2>1. Before(s \o t, Fresh, AfterFresh)
      BY <1>1, <1>2, BeforeJoin DEF InOrder
    <2>2. Before(s \o t, Checking, Importing)
      BY <1>1, <1>2, BeforeJoin DEF InOrder
    <2>3. QED BY <2>1, <2>2 DEF InOrder
  <1>4. QED BY <1>1, <1>3, Joined

\* A part of the script of a process, or nothing.
When(step, name, script) ==
  IF step \in ValidSteps /\ step \in {name, "all"} THEN script ELSE <<>>

LEMMA WhenPart ==
  ASSUME NEW step, NEW name, NEW script \in Seq(Calls)
  PROVE  /\ When(step, name, script) \in Seq(Calls)
         /\ DosOf(When(step, name, script)) \subseteq DosOf(script)
         /\ When(step, name, script) \in {script, <<>>}
PROOF
  <1>1. <<>> \in Seq(Calls) /\ DosOf(<<>>) = {}
    BY EmptyList DEF DosOf
  <1>2. QED BY <1>1 DEF When

LEMMA PerformCalls ==
  ASSUME NEW t
  PROVE  /\ Perform(t) \in Seq(Calls)
         /\ InOrder(Perform(t))
         /\ Elements(Perform(t)) \cap Importing # {} => Elements(Perform(t)) \cap Checking # {}
         /\ t # "all" => Elements(Perform(t)) \cap RoleCalls = {}
PROOF
  <1> DEFINE w1 == When(t, "setup", CleanSetup)
             w2 == When(t, "init", InitSetup)
             w3 == When(t, "st_contract", STContract)
             w4 == When(t, "fund_users_with_st", FundUsersWithST)
             w5 == When(t, "deploy_platform_contracts", DeployPlatformContracts)
             w6 == When(t, "stake_n_mint", Executable("stake_and_mint"))
             w7 == When(t, "stake_and_mint_processor", Executable("stake_and_mint_processor"))
             w8 == When(t, "st_prime_mint", STPrimeMint \o FundUsersWithSTPrime)
             w9 == When(t, "end", End)
             s2 == w1 \o w2
             s3 == s2 \o w3
             s4 == s3 \o w4
             s5 == s4 \o w5
             s6 == s5 \o w6
             s7 == s6 \o w7
             s8 == s7 \o w8
             s9 == s8 \o w9
  <1>1. Perform(t) = s9
    BY DEF Perform, When, Executable
  <1>2. /\ w1 \in Seq(Calls) /\ DosOf(w1) \subseteq DosOf(CleanSetup)
        /\ w2 \in Seq(Calls) /\ DosOf(w2) \subseteq DosOf(InitSetup) /\ w2 \in {InitSetup, <<>>}
        /\ w3 \in Seq(Calls) /\ DosOf(w3) \subseteq DosOf(STContract)
        /\ w4 \in Seq(Calls) /\ DosOf(w4) \subseteq DosOf(FundUsersWithST)
    BY WhenPart, CleanSetupPart, InitSetupPart, STContractPart, FundUsersWithSTPart
  <1>3. w5 \in Seq(Calls) /\ DosOf(w5) \subseteq DosOf(DeployPlatformContracts)
    BY WhenPart, DeployPlatformContractsPart
  <1>4. /\ w6 \in Seq(Calls) /\ DosOf(w6) \subseteq {"startExecutable"}
        /\ w7 \in Seq(Calls) /\ DosOf(w7) \subseteq {"startExecutable"}
    <2>1. /\ Executable("stake_and_mint") \in Seq(Calls)
          /\ DosOf(Executable("stake_and_mint")) \subseteq {"startExecutable"}
          /\ Executable("stake_and_mint_processor") \in Seq(Calls)
          /\ DosOf(Executable("stake_and_mint_processor")) \subseteq {"startExecutable"}
      BY ExecutablePart DEF Communicators
    <2>2. QED BY <2>1, WhenPart
  <1>5. /\ w8 \in Seq(Calls)
        /\ DosOf(w8) \subseteq {"transferST", "approve", "stake", "awaitMint", "transferSTP"}
    BY WhenPart, MintPart
  <1>6. w9 \in Seq(Calls) /\ DosOf(w9) \subseteq DosOf(End)
    BY WhenPart, EndPart
  <1>7. t # "all" => w5 = <<>>
    BY DEF When, ValidSteps
  <1> HIDE DEF w1, w2, w3, w4, w5, w6, w7, w8, w9
  <1>8. InOrder(w1) /\ InOrder(w2)
    <2>1. Elements(w1) \cap AfterFresh = {}
      BY <1>2, CleanSetupPart DEF DosOf, AfterFresh
    <2>2. Elements(w1) \cap Importing = {} /\ Elements(w2) \cap Fresh = {}
      BY <1>2, CleanSetupPart, InitSetupPart, Without DEF Importing, Fresh
    <2>3. Before(w2, Checking, Importing)
      BY <1>2, InitSetupPart, EmptyList
    <2>4. QED BY <2>1, <2>2, <2>3, BeforeNone DEF InOrder
  <1>9. /\ s2 \in Seq(Calls) /\ InOrder(s2)
        /\ DosOf(s2) = DosOf(w1) \cup DosOf(w2)
        /\ Elements(s2) \cap Importing # {} => Elements(s2) \cap Checking # {}
    <2>1. Elements(w2) \cap Fresh = {} /\ Elements(w1) \cap Importing = {}
      BY <1>2, CleanSetupPart, InitSetupPart, Without DEF Fresh, Importing
    <2>2. Before(s2, Fresh, AfterFresh)
      BY <1>2, <1>8, <2>1, BeforeJoin DEF InOrder
    <2>3. Before(s2, Checking, Importing)
      BY <1>2, <1>8, <2>1, BeforeJoin DEF InOrder
    <2>4. Elements(w2) \cap Importing # {} => Elements(w2) \cap Checking # {}
      BY <1>2, InitSetupPart, EmptyList
    <2>5. s2 \in Seq(Calls) /\ Elements(s2) = Elements(w1) \cup Elements(w2)
          /\ DosOf(s2) = DosOf(w1) \cup DosOf(w2)
      BY <1>2, Joined
    <2>6. QED BY <2>1, <2>2, <2>3, <2>4, <2>5 DEF InOrder
  <1> DEFINE Fine(s) ==
        /\ s \in Seq(Calls) /\ InOrder(s)
        /\ Elements(s) \cap Importing # {} => Elements(s) \cap Checking # {}
  <1>10. ASSUME NEW s, Fine(s), NEW w \in Seq(Calls),
                DosOf(w) \cap {"freshSetup", "checkGeth", "importKeys"} = {}
         PROVE  Fine(s \o w) /\ DosOf(s \o w) = DosOf(s) \cup DosOf(w)
    BY <1>10, JoinedInOrder, Joined
  <1>11. Fine(s2)
    BY <1>9
  <1> HIDE DEF Fine, s2
  <1>12. Fine(s3) /\ DosOf(s3) = DosOf(s2) \cup DosOf(w3)
    BY <1>2, <1>10, <1>11, STContractPart
  <1> HIDE DEF s3
  <1>13. Fine(s4) /\ DosOf(s4) = DosOf(s3) \cup DosOf(w4)
    BY <1>2, <1>10, <1>12, FundUsersWithSTPart
  <1> HIDE DEF s4
  <1>14. Fine(s5) /\ DosOf(s5) = DosOf(s4) \cup DosOf(w5)
    BY <1>3, <1>10, <1>13, DeployPlatformContractsPart
  <1> HIDE DEF s5
  <1>15. Fine(s6) /\ DosOf(s6) = DosOf(s5) \cup DosOf(w6)
    BY <1>4, <1>10, <1>14
  <1> HIDE DEF s6
  <1>16. Fine(s7) /\ DosOf(s7) = DosOf(s6) \cup DosOf(w7)
    BY <1>4, <1>10, <1>15
  <1> HIDE DEF s7
  <1>17. Fine(s8) /\ DosOf(s8) = DosOf(s7) \cup DosOf(w8)
    BY <1>5, <1>10, <1>16
  <1> HIDE DEF s8
  <1>18. Fine(s9) /\ DosOf(s9) = DosOf(s8) \cup DosOf(w9)
    BY <1>6, <1>10, <1>17, EndPart
  <1> HIDE DEF s9
  <1>19. ASSUME t # "all"
         PROVE  Elements(s9) \cap RoleCalls = {}
    <2>1. DosOf(w5) = {}
      BY <1>7, <1>19, EmptyList DEF DosOf
    <2>2. DosOf(s5) \cap {"setOps", "offerOwnership"} = {}
      BY <1>2, <1>9, <1>12, <1>13, <1>14, <2>1, CleanSetupPart, InitSetupPart, STContractPart,
         FundUsersWithSTPart
    <2>3. DosOf(s9) \cap {"setOps", "offerOwnership"} = {}
      BY <1>4, <1>5, <1>6, <1>15, <1>16, <1>17, <1>18, <2>2, EndPart
    <2>4. QED BY <2>3, Without DEF RoleCalls
  <1>20. QED BY <1>1, <1>18, <1>19 DEF Fine

LEMMA ScriptCalls ==
  ASSUME NEW t
  PROVE  /\ Script(t) \in Seq(Calls)
         /\ InOrder(Script(t))
         /\ Elements(Script(t)) \cap Importing # {} => Elements(Script(t)) \cap Checking # {}
         /\ t # "all" => Elements(Script(t)) \cap RoleCalls = {}
PROOF
  <1>1. CASE t = "start_services"
    <2>1. /\ Elements(StartServices) \cap Fresh = {} /\ Elements(StartServices) \cap Checking = {}
          /\ Elements(StartServices) \cap Importing = {}
          /\ Elements(StartServices) \cap RoleCalls = {}
      BY StartServicesPart, Without DEF Fresh, Checking, Importing, RoleCalls
    <2>2. InOrder(StartServices)
      BY <2>1, BeforeNone DEF InOrder
    <2>3. QED BY <1>1, <2>1, <2>2, StartServicesPart DEF Script
  <1>2. CASE t # "start_services"
    BY <1>2, PerformCalls DEF Script
  <1>3. QED BY <1>1, <1>2

\* What leaves the roles alone and renames nothing can be joined on either side.
LEMMA JoinedDeployOrder ==
  ASSUME NEW s \in Seq(Calls), NEW t \in Seq(Calls), DeployOrder(s),
         DosOf(t) \cap {"registerUtilityToken", "setOps", "offerOwnership", "createAddresses",
                        "freshSetup"} = {}
  PROVE  DeployOrder(s \o t)
PROOF
  <1>1. /\ Elements(t) \cap Registering = {} /\ Elements(t) \cap GivingUp = {}
        /\ Elements(t) \cap Offering = {} /\ Elements(t) \cap Taking = {}
        /\ Elements(t) \cap Renaming = {}
    BY DEF DosOf, Registering, GivingUp, Offering, Taking, Renaming, Kind
  <1>2. /\ Before(t, Registering, GivingUp) /\ Before(t, GivingUp, Offering)
        /\ Before(t, Taking, Offering)
        /\ Follows(t, Taking, GivingUp) /\ Follows(t, Renaming, NamingLast)
    BY <1>1, BeforeNone, FollowsNone
  <1>3. Before(s \o t, Registering, GivingUp)
    BY <1>1, <1>2, BeforeJoin DEF DeployOrder
  <1>4. Before(s \o t, GivingUp, Offering)
    BY <1>1, <1>2, BeforeJoin DEF DeployOrder
  <1>5. Before(s \o t, Taking, Offering)
    BY <1>1, <1>2, BeforeJoin DEF DeployOrder
  <1>6. Follows(s \o t, Taking, GivingUp)
    BY <1>2, FollowsJoin DEF DeployOrder
  <1>7. Follows(s \o t, Renaming, NamingLast)
    BY <1>2, FollowsJoin DEF DeployOrder
  <1>8. QED BY <1>3, <1>4, <1>5, <1>6, <1>7 DEF DeployOrder

LEMMA WholeCalls ==
  LET s == Script("all") IN
    /\ WholeOrder(s)
    /\ Elements(s) \cap Stopping # {} /\ Elements(s) \cap Cleaning # {}
    /\ Elements(s) \cap NamingLast # {} /\ Elements(s) \cap Fresh # {}
    /\ Elements(s) \cap GivingUp # {}
    /\ Does(s, "createAddresses", "all") /\ Does(s, "setAdmin", "simpleToken")
    /\ \A k \in Contracts : Does(s, "name", k)
    /\ \A k \in Contracts \ {"stPrime"} : Does(s, "deploy", k)
    /\ Does(s, "initialTransfer", "stPrime") /\ Does(s, "registerUtilityToken", "stPrime")
    /\ Does(s, "setOps", "utilityRegistrar")
    /\ \A k \in Offered : Does(s, "offerOwnership", k)
    /\ Does(s, "awaitMint", "stPrime") /\ Does(s, "postSetupSteps", "all")
PROOF
  <1> DEFINE w1 == CleanSetup
             w2 == InitSetup
             w3 == STContract
             w4 == FundUsersWithST
             w5 == DeployPlatformContracts
             w6 == Executable("stake_and_mint")
             w7 == Executable("stake_and_mint_processor")
             w8 == STPrimeMint \o FundUsersWithSTPrime
             w9 == End
             s2 == w1 \o w2
             s3 == s2 \o w3
             s4 == s3 \o w4
             s5 == s4 \o w5
             s6 == s5 \o w6
             s7 == s6 \o w7
             s8 == s7 \o w8
             s9 == s8 \o w9
  <1>1. Script("all") = s9
    BY DEF Script, Perform, ValidSteps, Executable
  <1>2. /\ w1 \in Seq(Calls) /\ w2 \in Seq(Calls) /\ w3 \in Seq(Calls) /\ w4 \in Seq(Calls)
        /\ w5 \in Seq(Calls) /\ w9 \in Seq(Calls)
        /\ DosOf(w5) \subseteq {"deploy", "name", "setOps", "offerOwnership", "addCore",
                                "initialTransfer", "registerUtilityToken"}
    BY CleanSetupPart, InitSetupPart, STContractPart, FundUsersWithSTPart,
       DeployPlatformContractsPart, EndPart
  <1>3. /\ w6 \in Seq(Calls) /\ DosOf(w6) \subseteq {"startExecutable"}
        /\ w7 \in Seq(Calls) /\ DosOf(w7) \subseteq {"startExecutable"}
    BY ExecutablePart DEF Communicators
  <1>4. /\ w8 \in Seq(Calls)
        /\ DosOf(w8) \subseteq {"transferST", "approve", "stake", "awaitMint", "transferSTP"}
        /\ Does(w8, "awaitMint", "stPrime")
    BY MintPart
  <1>5. w9 \in Seq(Calls) /\ DosOf(w9) \subseteq {"buildCleanup", "stopServices", "postSetupSteps"}
    BY EndPart
  <1>6. Elements(w5) \cap GivingUp # {} /\ Elements(w5) \cap NamingLast # {} /\ DeployOrder(w5)
    BY DeployPlatformContractsPart
  <1>7. DosOf(w1) \cup DosOf(w2) \cup DosOf(w3) \cup DosOf(w4) \subseteq
          {"stopServices", "freshSetup", "createAddresses", "initChain", "copyKeys", "startGeth",
           "writeEnv", "checkGeth", "importKeys", "transferEth", "startDynamo", "initDynamo",
           "deploy", "name", "setAdmin", "finalize", "transferST"}
    BY CleanSetupPart, InitSetupPart, STContractPart, FundUsersWithSTPart
  <1>8. /\ Does(w2, "createAddresses", "all") /\ Does(w3, "setAdmin", "simpleToken")
        /\ Does(w3, "name", "simpleToken") /\ Does(w3, "deploy", "simpleToken")
        /\ Does(w9, "postSetupSteps", "all")
        /\ Elements(w9) \cap Cleaning # {} /\ Elements(w9) \cap Stopping # {}
        /\ Elements(w1) \cap Fresh # {}
    BY CleanSetupPart, InitSetupPart, STContractPart, EndPart
  <1>9. /\ \A k \in Contracts \ {"simpleToken"} : Does(w5, "name", k)
        /\ \A k \in Contracts \ {"simpleToken", "stPrime"} : Does(w5, "deploy", k)
        /\ Does(w5, "initialTransfer", "stPrime") /\ Does(w5, "registerUtilityToken", "stPrime")
        /\ Does(w5, "setOps", "valueRegistrar") /\ Does(w5, "setOps", "utilityRegistrar")
        /\ \A k \in Offered : Does(w5, "offerOwnership", k)
    <2>1. \A do, k : Does(DeployAll, do, k) \/ Does(RegisterSTPrime, do, k) => Does(w5, do, k)
      BY DeployPlatformContractsPart DEF Does
    <2>2. \A k \in Contracts \ {"simpleToken"} : Does(w5, "name", k)
      BY <2>1, DeployAllPart DEF Contracts
    <2>3. \A k \in Contracts \ {"simpleToken", "stPrime"} : Does(w5, "deploy", k)
      BY <2>1, DeployAllPart DEF Contracts
    <2>4. \A k \in Offered : Does(w5, "offerOwnership", k)
      BY <2>1, DeployAllPart, RegisterSTPrimePart DEF Offered
    <2>5. /\ Does(w5, "initialTransfer", "stPrime")
          /\ Does(w5, "registerUtilityToken", "stPrime")
          /\ Does(w5, "setOps", "valueRegistrar") /\ Does(w5, "setOps", "utilityRegistrar")
      BY <2>1, DeployAllPart, RegisterSTPrimePart
    <2>6. QED BY <2>2, <2>3, <2>4, <2>5
  <1> HIDE DEF w1, w2, w3, w4, w5, w6, w7, w8, w9
  <1>10. /\ s2 \in Seq(Calls) /\ Elements(s2) = Elements(w1) \cup Elements(w2)
         /\ DosOf(s2) = DosOf(w1) \cup DosOf(w2)
    BY <1>2, Joined
  <1> HIDE DEF s2
  <1>11. /\ s3 \in Seq(Calls) /\ Elements(s3) = Elements(s2) \cup Elements(w3)
         /\ DosOf(s3) = DosOf(s2) \cup DosOf(w3)
    BY <1>2, <1>10, Joined
  <1> HIDE DEF s3
  <1>12. /\ s4 \in Seq(Calls) /\ Elements(s4) = Elements(s3) \cup Elements(w4)
         /\ DosOf(s4) = DosOf(s3) \cup DosOf(w4)
    BY <1>2, <1>11, Joined
  <1> HIDE DEF s4
  <1>13. DosOf(s4) \cap {"setOps", "offerOwnership", "registerUtilityToken"} = {}
    BY <1>7, <1>10, <1>11, <1>12
  <1>14. /\ s5 \in Seq(Calls) /\ Elements(s5) = Elements(s4) \cup Elements(w5)
         /\ DeployOrder(s5)
    <2>1. /\ Elements(s4) \cap Registering = {} /\ Elements(s4) \cap GivingUp = {}
          /\ Elements(s4) \cap Offering = {} /\ Elements(s4) \cap Taking = {}
      BY <1>13 DEF DosOf, Registering, GivingUp, Offering, Taking, Kind
    <2>2. /\ Before(s4, Registering, GivingUp) /\ Before(s4, GivingUp, Offering)
          /\ Before(s4, Taking, Offering)
      BY <2>1, BeforeNone
    <2>3. Before(s5, Registering, GivingUp)
      BY <1>2, <1>6, <1>12, <2>1, <2>2, BeforeJoin DEF DeployOrder
    <2>4. Before(s5, GivingUp, Offering)
      BY <1>2, <1>6, <1>12, <2>1, <2>2, BeforeJoin DEF DeployOrder
    <2>5. Before(s5, Taking, Offering)
      BY <1>2, <1>6, <1>12, <2>1, <2>2, BeforeJoin DEF DeployOrder
    <2>6. Follows(s5, Taking, GivingUp)
      BY <1>2, <1>6, <1>12, FollowsJoin DEF DeployOrder
    <2>7. Follows(s5, Renaming, NamingLast)
      BY <1>2, <1>6, <1>12, FollowsJoin DEF DeployOrder
    <2>8. s5 \in Seq(Calls) /\ Elements(s5) = Elements(s4) \cup Elements(w5)
      BY <1>2, <1>12, Joined
    <2>9. QED BY <2>3, <2>4, <2>5, <2>6, <2>7, <2>8 DEF DeployOrder
  <1> HIDE DEF s5
  <1>15. /\ s6 \in Seq(Calls) /\ Elements(s6) = Elements(s5) \cup Elements(w6)
         /\ DeployOrder(s6)
    BY <1>3, <1>14, Joined, JoinedDeployOrder
  <1> HIDE DEF s6
  <1>16. /\ s7 \in Seq(Calls) /\ Elements(s7) = Elements(s6) \cup Elements(w7)
         /\ DeployOrder(s7)
    BY <1>3, <1>15, Joined, JoinedDeployOrder
  <1> HIDE DEF s7
  <1>17. /\ s8 \in Seq(Calls) /\ Elements(s8) = Elements(s7) \cup Elements(w8)
         /\ DeployOrder(s8)
    BY <1>4, <1>16, Joined, JoinedDeployOrder
  <1> HIDE DEF s8
  <1>18. /\ s9 \in Seq(Calls) /\ Elements(s9) = Elements(s8) \cup Elements(w9)
         /\ DeployOrder(s9)
    BY <1>5, <1>17, Joined, JoinedDeployOrder
  <1>19. Follows(s9, Starting, Stopping) /\ Follows(s9, Creating, Cleaning)
    <2>1. Elements(w9) \cap Starting = {} /\ Elements(w9) \cap Creating = {}
      BY <1>5, Without DEF Starting, Creating
    <2>2. Follows(w9, Starting, Stopping) /\ Follows(w9, Creating, Cleaning)
      BY <2>1, FollowsNone
    <2>3. Follows(s9, Starting, Stopping)
      BY <1>5, <1>8, <1>17, <2>2, FollowsJoin
    <2>4. Follows(s9, Creating, Cleaning)
      BY <1>5, <1>8, <1>17, <2>2, FollowsJoin
    <2>5. QED BY <2>3, <2>4
  <1> HIDE DEF s9
  <1>20. Elements(s9) = Elements(w1) \cup Elements(w2) \cup Elements(w3) \cup Elements(w4)
                        \cup Elements(w5) \cup Elements(w6) \cup Elements(w7) \cup Elements(w8)
                        \cup Elements(w9)
    BY <1>10, <1>11, <1>12, <1>14, <1>15, <1>16, <1>17, <1>18
  <1>21. \A do, k : Does(w2, do, k) \/ Does(w3, do, k) \/ Does(w5, do, k) \/ Does(w8, do, k)
                    \/ Does(w9, do, k) => Does(s9, do, k)
    BY <1>20 DEF Does
  <1>22. \A k \in Contracts : Does(s9, "name", k)
    BY <1>8, <1>9, <1>21
  <1>23. \A k \in Contracts \ {"stPrime"} : Does(s9, "deploy", k)
    BY <1>8, <1>9, <1>21
  <1>24. /\ Elements(s9) \cap Stopping # {} /\ Elements(s9) \cap Cleaning # {}
         /\ Elements(s9) \cap NamingLast # {} /\ Elements(s9) \cap Fresh # {}
         /\ Elements(s9) \cap GivingUp # {}
    BY <1>6, <1>8, <1>20
  <1>25. /\ Does(s9, "createAddresses", "all") /\ Does(s9, "setAdmin", "simpleToken")
         /\ Does(s9, "initialTransfer", "stPrime") /\ Does(s9, "registerUtilityToken", "stPrime")
         /\ Does(s9, "setOps", "valueRegistrar") /\ Does(s9, "setOps", "utilityRegistrar")
         /\ \A k \in Offered : Does(s9, "offerOwnership", k)
         /\ Does(s9, "awaitMint", "stPrime") /\ Does(s9, "postSetupSteps", "all")
    BY <1>4, <1>8, <1>9, <1>21
  <1>26. WholeOrder(s9)
    BY <1>18, <1>19 DEF WholeOrder
  <1>27. QED BY <1>1, <1>22, <1>23, <1>24, <1>25, <1>26

-----------------------------------------------------------------------------
(* What a step changes.                                                    *)

\* What becomes of the process: nothing, a new one, its end, or its next call.
Ends == \E s \in {"hung", "monitoring", "exit1", "killed"} : Halt(s)
GoesOn ==
  \E c \in Calls :
    /\ status = "running" /\ c = Head(calls) /\ Proceed
    /\ Leaves(c)'
    /\ c.do \in {"checkGeth", "chainStatus"} => seen' = Zero /\ ready' = {}
Moves == UNCHANGED process \/ Run \/ Ends \/ GoesOn

\* Which steps change what.
Frame ==
  /\ Moves
  /\ UNCHANGED mem \/ Run \/ CreateAddresses \/ NameContract
  /\ UNCHANGED env \/ Kill \/ FreshSetup \/ WriteEnv \/ NameContract
  /\ UNCHANGED disk \/ FreshSetup \/ CreateAddresses \/ InitChain \/ CopyKeys \/ ImportKeys
      \/ WriteEnv \/ NameContract \/ BuildCleanup \/ PostSetupSteps
  /\ UNCHANGED checkers \/ Run \/ ChainsReady \/ (\E chain \in Chains : Poll(chain))
  /\ UNCHANGED up \/ StartGeth \/ RunScript \/ ProcessDies \/ ServiceEnds
  /\ UNCHANGED height \/ FreshSetup \/ (\E chain \in Chains : MineBlock(chain))
  /\ UNCHANGED contracts \/ FreshSetup \/ DeployContract \/ InitialTransferToContract
  /\ UNCHANGED ops \/ FreshSetup \/ SetOpsAddress
  /\ UNCHANGED offered \/ FreshSetup \/ InitiateOwnerShipTransfer
  /\ UNCHANGED facts \/ FreshSetup \/ SetAdminAddress \/ Finalize \/ AddCore
      \/ RegisterUtilityToken \/ Stake \/ InitialTransferToContract \/ Approve \/ MintSTPrime
  /\ UNCHANGED funds \/ FreshSetup \/ InitChain \/ TransferEth \/ TransferST \/ TransferSTP
      \/ DeployContract \/ InitialTransferToContract \/ MintSTPrime
  /\ UNCHANGED comms \/ StartExecutable \/ RunScript \/ ProcessDies \/ ServiceEnds
  /\ UNCHANGED dying \/ StopServices \/ StartExecutable \/ RunScript \/ ProcessDies \/ ServiceEnds
  /\ UNCHANGED stale \/ FreshSetup \/ StartExecutable \/ RunScript \/ ProcessDies \/ ServiceEnds
  /\ UNCHANGED heard \/ FreshSetup \/ \E chain \in Chains : Poll(chain)
  /\ UNCHANGED faults \/ Fault
  /\ UNCHANGED kills \/ (kills < MaxKills /\ kills' = kills + 1)

\* The call a running process is at.
LEMMA HeadCall ==
  ASSUME TypeOK, CallsInv, status = "running"
  PROVE  calls # <<>> /\ Head(calls) \in Calls
PROOF
  BY HeadAndTail DEF TypeOK, CallsInv

LEMMA Frames ==
  ASSUME TypeOK, CallsInv, LiveInv, MintInv, [Next]_vars
  PROVE  Frame
PROOF
  <1>1. CASE Run
    <2>1. Moves
      BY <1>1 DEF Moves
    <2>2. UNCHANGED <<env, disk, up, height, contracts, ops, offered, facts, funds, comms,
                      faults, kills, dying, stale, heard>>
      BY <1>1 DEF Run, files, contractVars, services
    <2>3. QED BY <1>1, <2>1, <2>2 DEF Frame, checkers
  <1>2. CASE Kill
    <2>1. Moves
      BY <1>2 DEF Kill, Moves, Ends
    <2>2. UNCHANGED <<mem, disk, checkers, up, height, contracts, ops, offered, facts,
                      funds, comms, faults, dying, stale, heard>>
      BY <1>2 DEF Kill, checkers, contractVars, services
    <2>3. UNCHANGED kills \/ (kills < MaxKills /\ kills' = kills + 1)
      BY <1>2 DEF Kill
    <2>4. QED BY <1>2, <2>1, <2>2, <2>3 DEF Frame, checkers
  <1>3. CASE StopServices
    <2>1. Moves
      <3>1. PICK c \in Calls : c = Head(calls) /\ status = "running" /\ c.do = "stopServices"
        BY <1>3, HeadCall DEF StopServices, Doing
      <3>2. KillsSent'
        <4>1. CASE dying' = up \cup comms /\ NoFault
          BY <1>3, <4>1 DEF StopServices, KillsSent
        <4>2. CASE Fault
          BY <4>2 DEF Fault, KillsSent, TypeOK
        <4>3. QED BY <1>3, <4>1, <4>2 DEF StopServices
      <3>3. Leaves(c)'
        BY <3>1, <3>2 DEF Leaves, Done
      <3>4. QED BY <1>3, <3>1, <3>3 DEF StopServices, Moves, GoesOn
    <2>2. UNCHANGED <<mem, env, disk, checkers, height, contracts, ops, offered, facts,
                      funds, kills, up, comms, stale, heard>>
      BY <1>3 DEF StopServices, files, checkers, contractVars
    <2>3. UNCHANGED faults \/ Fault
      BY <1>3 DEF StopServices, NoFault
    <2>4. QED BY <1>3, <2>1, <2>2, <2>3 DEF Frame, checkers
  <1>4. CASE FreshSetup
    <2>1. Moves
      BY <1>4, HeadCall DEF FreshSetup, Doing, ShellOk, ShellFails, Moves, GoesOn, Leaves,
        Done, Ends
    <2>2. UNCHANGED <<mem, checkers, up, comms, kills, dying>>
      BY <1>4 DEF FreshSetup, ShellOk, ShellFails, NoFault, checkers
    <2>3. UNCHANGED faults \/ Fault
      BY <1>4 DEF FreshSetup, ShellOk, ShellFails, NoFault
    <2>4. QED BY <1>4, <2>1, <2>2, <2>3 DEF Frame, checkers
  <1>5. CASE CreateAddresses
    <2>1. Moves
      BY <1>5, HeadCall DEF CreateAddresses, Doing, ShellOk, ShellFails, Moves, GoesOn,
        Leaves, Done, Ends
    <2>2. UNCHANGED <<env, checkers, up, height, contracts, ops, offered, facts, funds,
                      comms, kills, dying, stale, heard>>
      BY <1>5 DEF CreateAddresses, ShellOk, ShellFails, NoFault, checkers, contractVars, services
    <2>3. UNCHANGED faults \/ Fault
      BY <1>5 DEF CreateAddresses, ShellOk, ShellFails, NoFault
    <2>4. QED BY <1>5, <2>1, <2>2, <2>3 DEF Frame, checkers
  <1>6. CASE InitChain
    <2>1. Moves
      BY <1>6, HeadCall DEF InitChain, Doing, ShellOk, ShellFails, Moves, GoesOn, Leaves,
        Done, Ends
    <2>2. UNCHANGED <<mem, env, checkers, up, height, contracts, ops, offered, facts, comms,
                      kills, dying, stale, heard>>
      BY <1>6 DEF InitChain, ShellOk, ShellFails, NoFault, checkers, services
    <2>3. UNCHANGED faults \/ Fault
      BY <1>6 DEF InitChain, ShellOk, ShellFails, NoFault
    <2>4. QED BY <1>6, <2>1, <2>2, <2>3 DEF Frame, checkers
  <1>7. CASE CopyKeys
    <2>1. Moves
      BY <1>7, HeadCall DEF CopyKeys, Doing, ShellOk, ShellFails, Moves, GoesOn, Leaves,
        Done, Ends
    <2>2. UNCHANGED <<mem, env, checkers, up, height, contracts, ops, offered, facts, funds,
                      comms, kills, dying, stale, heard>>
      BY <1>7 DEF CopyKeys, ShellOk, ShellFails, NoFault, checkers, contractVars, services
    <2>3. UNCHANGED faults \/ Fault
      BY <1>7 DEF CopyKeys, ShellOk, ShellFails, NoFault
    <2>4. QED BY <1>7, <2>1, <2>2, <2>3 DEF Frame, checkers
  <1>8. CASE ImportKeys
    <2>1. Moves
      BY <1>8, HeadCall DEF ImportKeys, Doing, ShellOk, ShellFails, Moves, GoesOn, Leaves,
        Done, Ends
    <2>2. UNCHANGED <<mem, env, checkers, up, height, contracts, ops, offered, facts, funds,
                      comms, kills, dying, stale, heard>>
      BY <1>8 DEF ImportKeys, ShellOk, ShellFails, NoFault, checkers, contractVars, services
    <2>3. UNCHANGED faults \/ Fault
      BY <1>8 DEF ImportKeys, ShellOk, ShellFails, NoFault
    <2>4. QED BY <1>8, <2>1, <2>2, <2>3 DEF Frame, checkers
  <1>9. CASE StartGeth
    <2>1. Moves
      BY <1>9, HeadCall DEF StartGeth, Doing, Moves, GoesOn, Leaves, Done
    <2>2. UNCHANGED <<mem, env, disk, checkers, height, contracts, ops, offered, facts,
                      funds, comms, kills, dying, stale, heard>>
      BY <1>9 DEF StartGeth, NoFault, files, checkers, contractVars, services
    <2>3. UNCHANGED faults \/ Fault
      BY <1>9 DEF StartGeth, NoFault
    <2>4. QED BY <1>9, <2>1, <2>2, <2>3 DEF Frame, checkers
  <1>10. CASE WriteEnv
    <2>1. Moves
      BY <1>10, HeadCall DEF WriteEnv, Doing, ShellOk, ShellFails, Written, Moves, GoesOn,
        Leaves, Done, Ends
    <2>2. UNCHANGED <<mem, checkers, up, height, contracts, ops, offered, facts, funds,
                      comms, kills, dying, stale, heard>>
      BY <1>10 DEF WriteEnv, ShellOk, ShellFails, Written, NoFault, files, checkers,
        contractVars, services
    <2>3. UNCHANGED faults \/ Fault
      BY <1>10 DEF WriteEnv, ShellOk, ShellFails, Written, NoFault
    <2>4. QED BY <1>10, <2>1, <2>2, <2>3 DEF Frame, checkers
  <1>11. CASE NameContract
    <2>1. Moves
      BY <1>11, HeadCall DEF NameContract, Doing, ShellOk, ShellFails, Written, Moves,
        GoesOn, Leaves, Done, Ends
    <2>2. UNCHANGED <<checkers, up, height, contracts, ops, offered, facts, funds, comms,
                      kills, dying, stale, heard>>
      BY <1>11 DEF NameContract, ShellOk, ShellFails, Written, NoFault, files, checkers,
        contractVars, services
    <2>3. UNCHANGED faults \/ Fault
      BY <1>11 DEF NameContract, ShellOk, ShellFails, Written, NoFault
    <2>4. QED BY <1>11, <2>1, <2>2, <2>3 DEF Frame, checkers
  <1>12. CASE StartDynamo
    <2>1. Moves
      BY <1>12, HeadCall DEF StartDynamo, Doing, Moves, GoesOn, Leaves, Done
    <2>2. UNCHANGED <<mem, env, disk, checkers, up, height, contracts, ops, offered, facts,
                      funds, comms, faults, kills, dying, stale, heard>>
      BY <1>12 DEF StartDynamo, files, checkers, contractVars, services
    <2>3. QED BY <1>12, <2>1, <2>2 DEF Frame, checkers
  <1>13. CASE InitDynamo
    <2>1. Moves
      BY <1>13, HeadCall DEF InitDynamo, Doing, Moves, GoesOn, Leaves, Done, Ends
    <2>2. UNCHANGED <<mem, env, disk, checkers, up, height, contracts, ops, offered, facts,
                      funds, comms, kills, dying, stale, heard>>
      BY <1>13 DEF InitDynamo, NoFault, files, checkers, contractVars, services
    <2>3. UNCHANGED faults \/ Fault
      BY <1>13 DEF InitDynamo, NoFault
    <2>4. QED BY <1>13, <2>1, <2>2, <2>3 DEF Frame, checkers
  <1>14. CASE StartExecutable
    <2>1. Moves
      BY <1>14, HeadCall DEF StartExecutable, Doing, Moves, GoesOn, Leaves, Done, Ends
    <2>2. UNCHANGED <<mem, env, disk, checkers, up, height, contracts, ops, offered, facts,
                      funds, kills, heard>>
      BY <1>14 DEF StartExecutable, NoFault, Starts, files, checkers, contractVars
    <2>3. UNCHANGED faults \/ Fault
      BY <1>14 DEF StartExecutable, NoFault, Starts
    <2>4. QED BY <1>14, <2>1, <2>2, <2>3 DEF Frame, checkers
  <1>15. CASE RunScript
    <2>1. Moves
      BY <1>15, HeadCall DEF RunScript, Doing, Moves, GoesOn, Leaves, Done
    <2>2. UNCHANGED <<mem, env, disk, checkers, height, contracts, ops, offered, facts,
                      funds, kills, heard>>
      BY <1>15 DEF RunScript, NoFault, Starts, files, checkers, contractVars
    <2>3. UNCHANGED faults \/ Fault
      BY <1>15 DEF RunScript, RunGeth, NoFault, Starts
    <2>4. QED BY <1>15, <2>1, <2>2, <2>3 DEF Frame, checkers
  <1>16. CASE Monitor
    <2>1. Moves
      BY <1>16 DEF Monitor, Moves, Ends
    <2>2. UNCHANGED <<mem, env, disk, checkers, up, height, contracts, ops, offered, facts,
                      funds, comms, faults, kills, dying, stale, heard>>
      BY <1>16 DEF Monitor, files, checkers, contractVars, services
    <2>3. QED BY <1>16, <2>1, <2>2 DEF Frame, checkers
  <1>17. CASE BuildCleanup
    <2>1. Moves
      BY <1>17, HeadCall DEF BuildCleanup, Doing, Moves, GoesOn, Leaves, Done
    <2>2. UNCHANGED <<mem, env, checkers, up, height, contracts, ops, offered, facts, funds,
                      comms, faults, kills, dying, stale, heard>>
      BY <1>17 DEF BuildCleanup, checkers, contractVars, services
    <2>3. QED BY <1>17, <2>1, <2>2 DEF Frame, checkers
  <1>18. CASE PostSetupSteps
    <2>1. Moves
      BY <1>18, HeadCall DEF PostSetupSteps, Doing, ShellOk, ShellFails, Moves, GoesOn,
        Leaves, Done, Ends
    <2>2. UNCHANGED <<mem, env, checkers, up, height, contracts, ops, offered, facts, funds,
                      comms, kills, dying, stale, heard>>
      BY <1>18 DEF PostSetupSteps, ShellOk, ShellFails, NoFault, checkers, contractVars, services
    <2>3. UNCHANGED faults \/ Fault
      BY <1>18 DEF PostSetupSteps, ShellOk, ShellFails, NoFault
    <2>4. QED BY <1>18, <2>1, <2>2, <2>3 DEF Frame, checkers
  <1>19. CASE TransferEth
    <2>1. Moves
      BY <1>19, HeadCall DEF TransferEth, Succeeds, Pay, Doing, Moves, GoesOn, Leaves, Done
    <2>2. UNCHANGED <<mem, env, disk, checkers, up, height, contracts, ops, offered, facts,
                      comms, faults, kills, dying, stale, heard>>
      BY <1>19 DEF TransferEth, Succeeds, Pay, files, checkers, services
    <2>3. QED BY <1>19, <2>1, <2>2 DEF Frame, checkers
  <1>20. CASE TransferST
    <2>1. Moves
      BY <1>20, HeadCall DEF TransferST, Succeeds, Pay, Doing, Moves, GoesOn, Leaves, Done
    <2>2. UNCHANGED <<mem, env, disk, checkers, up, height, contracts, ops, offered, facts,
                      comms, faults, kills, dying, stale, heard>>
      BY <1>20 DEF TransferST, Succeeds, Pay, files, checkers, services
    <2>3. QED BY <1>20, <2>1, <2>2 DEF Frame, checkers
  <1>21. CASE TransferSTP
    <2>1. Moves
      BY <1>21, HeadCall DEF TransferSTP, Succeeds, Pay, Doing, Moves, GoesOn, Leaves, Done
    <2>2. UNCHANGED <<mem, env, disk, checkers, up, height, contracts, ops, offered, facts,
                      comms, faults, kills, dying, stale, heard>>
      BY <1>21 DEF TransferSTP, Succeeds, Pay, files, checkers, services
    <2>3. QED BY <1>21, <2>1, <2>2 DEF Frame, checkers
  <1>22. CASE DeployContract
    <2>1. Moves
      BY <1>22, HeadCall DEF DeployContract, Succeeds, Doing, Moves, GoesOn, Leaves, Done
    <2>2. UNCHANGED <<mem, env, disk, checkers, up, height, ops, offered, facts, comms,
                      faults, kills, dying, stale, heard>>
      BY <1>22 DEF DeployContract, Succeeds, files, checkers, services
    <2>3. QED BY <1>22, <2>1, <2>2 DEF Frame, checkers
  <1>23. CASE SetOpsAddress
    <2>1. Moves
      BY <1>23, HeadCall DEF SetOpsAddress, Succeeds, Doing, Moves, GoesOn, Leaves, Done,
        TypeOK, Calls, WellFormed, Contracts
    <2>2. UNCHANGED <<mem, env, disk, checkers, up, height, contracts, offered, facts,
                      funds, comms, faults, kills, dying, stale, heard>>
      BY <1>23 DEF SetOpsAddress, Succeeds, files, checkers, services
    <2>3. QED BY <1>23, <2>1, <2>2 DEF Frame, checkers
  <1>24. CASE InitiateOwnerShipTransfer
    <2>1. Moves
      BY <1>24, HeadCall DEF InitiateOwnerShipTransfer, Succeeds, Doing, Moves, GoesOn,
        Leaves, Done
    <2>2. UNCHANGED <<mem, env, disk, checkers, up, height, contracts, ops, facts, funds,
                      comms, faults, kills, dying, stale, heard>>
      BY <1>24 DEF InitiateOwnerShipTransfer, Succeeds, files, checkers, services
    <2>3. QED BY <1>24, <2>1, <2>2 DEF Frame, checkers
  <1>25. CASE SetAdminAddress
    <2>1. Moves
      BY <1>25, HeadCall DEF SetAdminAddress, Succeeds, Learn, Doing, Moves, GoesOn, Leaves,
        Done
    <2>2. UNCHANGED <<mem, env, disk, checkers, up, height, contracts, ops, offered, funds,
                      comms, faults, kills, dying, stale, heard>>
      BY <1>25 DEF SetAdminAddress, Succeeds, Learn, files, checkers, services
    <2>3. QED BY <1>25, <2>1, <2>2 DEF Frame, checkers
  <1>26. CASE Finalize
    <2>1. Moves
      BY <1>26, HeadCall DEF Finalize, Succeeds, Learn, Doing, Moves, GoesOn, Leaves, Done
    <2>2. UNCHANGED <<mem, env, disk, checkers, up, height, contracts, ops, offered, funds,
                      comms, faults, kills, dying, stale, heard>>
      BY <1>26 DEF Finalize, Succeeds, Learn, files, checkers, services
    <2>3. QED BY <1>26, <2>1, <2>2 DEF Frame, checkers
  <1>27. CASE AddCore
    <2>1. Moves
      BY <1>27, HeadCall DEF AddCore, Succeeds, Learn, Doing, Moves, GoesOn, Leaves, Done
    <2>2. UNCHANGED <<mem, env, disk, checkers, up, height, contracts, ops, offered, funds,
                      comms, faults, kills, dying, stale, heard>>
      BY <1>27 DEF AddCore, Succeeds, Learn, files, checkers, services
    <2>3. QED BY <1>27, <2>1, <2>2 DEF Frame, checkers
  <1>28. CASE RegisterUtilityToken
    <2>1. Moves
      BY <1>28, HeadCall DEF RegisterUtilityToken, Succeeds, Learn, Doing, Moves, GoesOn,
        Leaves, Done
    <2>2. UNCHANGED <<mem, env, disk, checkers, up, height, contracts, ops, offered, funds,
                      comms, faults, kills, dying, stale, heard>>
      BY <1>28 DEF RegisterUtilityToken, Succeeds, Learn, files, checkers, services
    <2>3. QED BY <1>28, <2>1, <2>2 DEF Frame, checkers
  <1>29. CASE Stake
    <2>1. Moves
      BY <1>29, HeadCall DEF Stake, Succeeds, Learn, Doing, Moves, GoesOn, Leaves, Done
    <2>2. UNCHANGED <<mem, env, disk, checkers, up, height, contracts, ops, offered, funds,
                      comms, faults, kills, dying, stale, heard>>
      BY <1>29 DEF Stake, Succeeds, Learn, files, checkers, services
    <2>3. QED BY <1>29, <2>1, <2>2 DEF Frame, checkers
  <1>30. CASE InitialTransferToContract
    <2>1. Moves
      BY <1>30, HeadCall DEF InitialTransferToContract, Succeeds, Doing, Moves, GoesOn,
        Leaves, Done
    <2>2. UNCHANGED <<mem, env, disk, checkers, up, height, ops, offered, comms, faults,
                      kills, dying, stale, heard>>
      BY <1>30 DEF InitialTransferToContract, Succeeds, files, checkers, services
    <2>3. QED BY <1>30, <2>1, <2>2 DEF Frame, checkers
  <1>31. CASE Approve
    <2>1. Moves
      BY <1>31, HeadCall DEF Approve, Succeeds, Doing, Moves, GoesOn, Leaves, Done
    <2>2. UNCHANGED <<mem, env, disk, checkers, up, height, contracts, ops, offered, funds,
                      comms, faults, kills, dying, stale, heard>>
      BY <1>31 DEF Approve, Succeeds, files, checkers, services
    <2>3. QED BY <1>31, <2>1, <2>2 DEF Frame, checkers
  <1>32. CASE CallFails
    <2>1. Moves
      <3>1. PICK c \in Calls : c = Head(calls)
        BY <1>32, HeadCall DEF CallFails
      <3>2. \/ \E outcome \in OnRejection(c.do) : After(outcome)
            \/ \E outcome \in OnFailure(c.do) : After(outcome)
        BY <1>32, <3>1 DEF CallFails
      <3>3. /\ OnRejection(c.do) \subseteq {"next", "hung", "exit1"}
            /\ OnFailure(c.do) \subseteq {"next", "hung", "exit1"}
        BY DEF OnRejection, OnFailure
      <3>4. CASE After("next") /\ ("next" \in OnRejection(c.do) \/ "next" \in OnFailure(c.do))
        <4>1. c.do \in {"transferEth", "transferST", "transferSTP", "finalize", "addCore",
                        "stake"}
          BY <3>4 DEF OnRejection, OnFailure
        <4>2. Leaves(c)'
          BY <4>1 DEF Done, Leaves
        <4>3. QED BY <1>32, <3>1, <3>4, <4>1, <4>2 DEF CallFails, After, Moves, GoesOn
      <3>5. CASE After("hung") \/ After("exit1")
        BY <3>5 DEF After, Moves, Ends
      <3>6. QED BY <3>2, <3>3, <3>4, <3>5
    <2>2. UNCHANGED <<mem, env, disk, checkers, up, height, contracts, ops, offered, facts,
                      funds, comms, kills, dying, stale, heard>>
      BY <1>32 DEF CallFails, NoFault, files, checkers, contractVars, services
    <2>3. UNCHANGED faults \/ Fault
      BY <1>32 DEF CallFails, NoFault
    <2>4. QED BY <1>32, <2>1, <2>2, <2>3 DEF Frame, checkers
  <1>33. CASE AwaitMint
    <2>1. Moves
      BY <1>33, HeadCall DEF AwaitMint, Doing, Moves, GoesOn, Leaves, Done, MintInv,
        contractVars
    <2>2. UNCHANGED <<mem, env, disk, checkers, up, height, contracts, ops, offered, facts,
                      funds, comms, faults, kills, dying, stale, heard>>
      BY <1>33 DEF AwaitMint, files, checkers, contractVars, services
    <2>3. QED BY <1>33, <2>1, <2>2 DEF Frame, checkers
  <1>34. CASE ChainsReady
    <2>1. Moves
      <3>1. PICK c \in Calls : c = Head(calls)
        BY <1>34, HeadCall DEF ChainsReady, Doing
      <3>2. Done(c)'
        BY <1>34, <3>1 DEF ChainsReady, Doing, Done, LiveInv, TwoBlocks, Chains, services
      <3>3. QED BY <1>34, <3>1, <3>2 DEF ChainsReady, Doing, Moves, GoesOn, Leaves
    <2>2. UNCHANGED <<mem, env, disk, up, height, contracts, ops, offered, facts, funds,
                      comms, faults, kills, dying, stale, heard>>
      BY <1>34 DEF ChainsReady, files, contractVars, services
    <2>3. QED BY <1>34, <2>1, <2>2 DEF Frame, checkers
  <1>35. ASSUME NEW chain \in Chains, Poll(chain) PROVE Frame
    <2>1. Moves
      BY <1>35 DEF Poll, Moves, process
    <2>2. UNCHANGED <<mem, env, disk, up, height, contracts, ops, offered, facts, funds,
                      comms, kills, dying, stale>>
      BY <1>35 DEF Poll, NoFault, process, files, contractVars
    <2>3. UNCHANGED faults \/ Fault
      BY <1>35 DEF Poll, NoFault
    <2>4. QED BY <1>35, <2>1, <2>2, <2>3 DEF Frame, checkers
  <1>36. ASSUME NEW chain \in Chains, GiveUp(chain) PROVE Frame
    <2>1. Moves
      BY <1>36 DEF GiveUp, Moves, Ends
    <2>2. UNCHANGED <<mem, env, disk, checkers, up, height, contracts, ops, offered, facts,
                      funds, comms, faults, kills, dying, stale, heard>>
      BY <1>36 DEF GiveUp, files, checkers, contractVars, services
    <2>3. QED BY <1>36, <2>1, <2>2 DEF Frame, checkers
  <1>37. ASSUME NEW chain \in Chains, MineBlock(chain) PROVE Frame
    <2>1. Moves
      BY <1>37 DEF MineBlock, Moves, process
    <2>2. UNCHANGED <<mem, env, disk, checkers, up, contracts, ops, offered, facts, funds,
                      comms, faults, kills, dying, stale, heard>>
      BY <1>37 DEF MineBlock, process, files, checkers, contractVars, services
    <2>3. QED BY <1>37, <2>1, <2>2 DEF Frame, checkers
  <1>38. CASE MintSTPrime
    <2>1. Moves
      BY <1>38 DEF MintSTPrime, Moves, process
    <2>2. UNCHANGED <<mem, env, disk, checkers, up, height, contracts, ops, offered, comms,
                      faults, kills, dying, stale, heard>>
      BY <1>38 DEF MintSTPrime, process, files, checkers, services
    <2>3. QED BY <1>38, <2>1, <2>2 DEF Frame, checkers
  <1>39. CASE ProcessDies
    <2>1. Moves
      BY <1>39 DEF ProcessDies, Gone, Moves, process
    <2>2. UNCHANGED <<mem, env, disk, checkers, height, contracts, ops, offered, facts,
                      funds, kills, heard>>
      BY <1>39 DEF ProcessDies, Gone, process, files, checkers, contractVars
    <2>3. UNCHANGED faults \/ Fault
      BY <1>39 DEF ProcessDies
    <2>4. QED BY <1>39, <2>1, <2>2, <2>3 DEF Frame, checkers
  <1>40. CASE ServiceEnds
    <2>1. Moves
      BY <1>40 DEF ServiceEnds, Gone, Moves, process
    <2>2. UNCHANGED <<mem, env, disk, checkers, height, contracts, ops, offered, facts,
                      funds, faults, kills, heard>>
      BY <1>40 DEF ServiceEnds, Gone, NoFault, process, files, checkers, contractVars
    <2>3. QED BY <1>40, <2>1, <2>2 DEF Frame, checkers
  <1>41. CASE UNCHANGED vars
    BY <1>41 DEF vars, process, files, checkers, contractVars, services, Frame, Moves
  <1>42. QED
    BY <1>1, <1>2, <1>3, <1>4, <1>5, <1>6, <1>7, <1>8, <1>9, <1>10, <1>11, <1>12, <1>13,
       <1>14, <1>15, <1>16, <1>17, <1>18, <1>19, <1>20, <1>21, <1>22, <1>23, <1>24, <1>25,
       <1>26, <1>27, <1>28, <1>29, <1>30, <1>31, <1>32, <1>33, <1>34, <1>35, <1>36, <1>37,
       <1>38, <1>39, <1>40, <1>41
    DEF Next, Proceeds, LocalCall, ChainCall


-----------------------------------------------------------------------------
(* What a step leaves as it was.                                           *)

\* A call that is done leaves the list of calls, with all that the order said of it.
LEMMA HeadGone ==
  ASSUME TypeOK, CallsInv, status = "running", Proceed
  PROVE  /\ calls' # calls /\ calls' \in Seq(Calls) /\ command' = command
         /\ Elements(calls) = {Head(calls)} \cup Elements(calls')
         /\ status' \in {"running", "exit0"} /\ (status' = "running" <=> calls' # <<>>)
         /\ \A X, Y : Before(calls, X, Y) =>
              Before(calls', X, Y) /\ (Head(calls) \in Y => ~Left(X))
         /\ \A X, Y : Follows(calls, X, Y) =>
              Follows(calls', X, Y) /\ (Head(calls) \in X => Elements(calls') \cap Y # {})
PROOF
  <1>1. calls # <<>> /\ calls \in Seq(Calls)
    BY HeadCall DEF CallsInv
  <1>2. calls' = Tail(calls) /\ command' = command
        /\ status' = IF Len(calls) = 1 THEN "exit0" ELSE "running"
    BY DEF Proceed
  <1>3. calls' # calls
    <2>1. Len(Tail(calls)) # Len(calls)
      BY <1>1
    <2>2. QED BY <1>2, <2>1
  <1>4. QED BY <1>1, <1>2, <1>3, HeadAndTail DEF Left

\* What has a kill on its way keeps it, and nothing else starts.
LEMMA KillsStay ==
  ASSUME TypeOK, Frame, ~StartGeth, ~RunScript, ~StartExecutable, KillsSent
  PROVE  KillsSent'
PROOF
  <1>1. CASE faults > 0
    BY <1>1 DEF Frame, Fault, TypeOK, KillsSent
  <1>2. CASE up \cup comms \subseteq dying
    <2>1. CASE StopServices
      BY <1>2, <2>1 DEF StopServices, KillsSent, Fault, services, TypeOK
    <2>2. CASE ProcessDies \/ ServiceEnds
      BY <1>2, <2>2 DEF ProcessDies, ServiceEnds, Gone, KillsSent
    <2>3. CASE ~StopServices /\ ~ProcessDies /\ ~ServiceEnds
      BY <1>2, <2>3 DEF Frame, KillsSent
    <2>4. QED BY <2>1, <2>2, <2>3
  <1>3. QED BY <1>1, <1>2 DEF KillsSent

\* While the process stays as it is, so do the files, the names, the roles and the
\* ownerships, and what has a kill on its way keeps it.
LEMMA StillHere ==
  ASSUME TypeOK, CallsInv, Frame, UNCHANGED process, ~Run
  PROVE  /\ mem' = mem /\ env' = env /\ disk' = disk /\ ops' = ops /\ offered' = offered
         /\ KillsSent => KillsSent'
         /\ ~FreshSetup
PROOF
  <1>1. calls' = calls /\ status' = status
    BY DEF process
  <1>2. status = "running" => ~Proceed /\ \A s : ~Halt(s)
    BY <1>1, HeadGone, HeadCall DEF Halt
  <1>3. ~Kill
    BY <1>1, <1>2 DEF Kill, Halt
  <1>4. ~CreateAddresses /\ ~NameContract /\ ~FreshSetup /\ ~WriteEnv
    BY <1>2 DEF CreateAddresses, NameContract, FreshSetup, WriteEnv, Doing, ShellOk, ShellFails
  <1>5. ~InitChain /\ ~CopyKeys /\ ~ImportKeys /\ ~BuildCleanup /\ ~PostSetupSteps
    BY <1>2 DEF InitChain, CopyKeys, ImportKeys, BuildCleanup, PostSetupSteps, Doing, ShellOk,
                ShellFails
  <1>6. ~StopServices /\ ~StartGeth /\ ~RunScript /\ ~StartExecutable
    BY <1>2 DEF StopServices, StartGeth, RunScript, StartExecutable, Doing
  <1>7. ~SetOpsAddress /\ ~InitiateOwnerShipTransfer
    BY <1>2 DEF SetOpsAddress, InitiateOwnerShipTransfer, Succeeds, Doing
  <1>8. KillsSent => KillsSent'
    BY <1>6, KillsStay
  <1>9. QED BY <1>3, <1>4, <1>5, <1>7, <1>8 DEF Frame

\* Only FreshSetup, and a new process, undo what a call has done.
LEMMA DoneLasts ==
  ASSUME TypeOK, CallsInv, Frame, ~FreshSetup
  PROVE  /\ TwoBlocks => TwoBlocks'
         /\ contracts \subseteq contracts' /\ facts \subseteq facts'
         /\ offered \subseteq offered'
         /\ ~Run => \A d : Done(d) => Done(d)'
PROOF
  <1>1. TwoBlocks => TwoBlocks'
    <2>1. heard \subseteq heard'
      BY DEF Frame, Poll, Number
    <2>2. CASE UNCHANGED height
      BY <2>1, <2>2 DEF TwoBlocks
    <2>3. ASSUME NEW chain \in Chains, MineBlock(chain)
          PROVE  TwoBlocks => TwoBlocks'
      <3>1. height \in [Chains -> Nat]
        BY SetupAssumption DEF TypeOK
      <3>2. \A ch \in Chains : height[ch] >= 2 => height'[ch] >= 2
        BY <2>3, <3>1 DEF MineBlock
      <3>3. QED BY <2>1, <3>2 DEF TwoBlocks
    <2>4. QED BY <2>2, <2>3 DEF Frame
  <1>2. contracts \subseteq contracts'
    BY DEF Frame, DeployContract, InitialTransferToContract
  <1>3. facts \subseteq facts'
    BY DEF Frame, SetAdminAddress, Finalize, AddCore, RegisterUtilityToken, Stake, Learn,
           InitialTransferToContract, Approve, MintSTPrime
  <1>4. offered \subseteq offered'
    BY DEF Frame, InitiateOwnerShipTransfer
  <1>5. ~Run => mem \subseteq mem'
    BY DEF Frame, CreateAddresses, NameContract, ShellOk, ShellFails
  <1>6. "bin" \in disk => "bin" \in disk'
    BY DEF Frame, CreateAddresses, InitChain, CopyKeys, ImportKeys, WriteEnv, NameContract,
           BuildCleanup, PostSetupSteps, Written, files
  <1>7. ops["utilityRegistrar"] = "utilityRegistrar" =>
          ops'["utilityRegistrar"] = "utilityRegistrar"
    <2>1. CASE SetOpsAddress
      <3>1. /\ status = "running" /\ Head(calls).do = "setOps"
            /\ ops' = [ops EXCEPT ![Head(calls).what] = Head(calls).to]
        BY <2>1 DEF SetOpsAddress, Succeeds, Doing
      <3>2. WellFormed(Head(calls))
        BY <3>1, HeadCall DEF Calls
      <3>3. Head(calls).what = "utilityRegistrar" => Head(calls).to = "utilityRegistrar"
        BY <3>1, <3>2 DEF WellFormed
      <3>4. QED BY <3>1, <3>3 DEF TypeOK
    <2>2. QED BY <2>1 DEF Frame
  <1>8. ~Run => \A d : Done(d) => Done(d)'
    <2>1. ASSUME ~Run, NEW d, Done(d) PROVE Done(d)'
      BY <1>1, <1>2, <1>3, <1>4, <1>5, <1>6, <1>7, <2>1 DEF Done
    <2>2. QED BY <2>1
  <1>9. QED BY <1>1, <1>2, <1>3, <1>4, <1>8

-----------------------------------------------------------------------------
(* Each part of the invariant is kept by every step.                       *)

LEMMA CallsStep ==
  ASSUME TypeOK, CallsInv, Frame
  PROVE  CallsInv'
PROOF
  <1>1. CASE UNCHANGED process
    BY <1>1 DEF process, CallsInv, Left
  <1>2. CASE Run
    <2>1. PICK t : command' = t /\ calls' = Script(t)
      BY <1>2 DEF Run
    <2>2. t = "all" => WholeOrder(Script(t))
      BY WholeCalls
    <2>3. QED BY <2>1, <2>2, ScriptCalls DEF CallsInv, Left
  <1>3. CASE Ends
    <2>1. calls' = <<>>
      BY <1>3 DEF Ends, Halt
    <2>2. QED BY <2>1, EmptyList DEF CallsInv, Left, InOrder, WholeOrder, DeployOrder
  <1>4. CASE GoesOn
    <2>1. status = "running" /\ Proceed
      BY <1>4 DEF GoesOn
    <2>2. InOrder(calls)'
      BY <2>1, HeadGone DEF CallsInv, InOrder
    <2>3. WholeOrder(calls) => WholeOrder(calls)'
      BY <2>1, HeadGone DEF WholeOrder, DeployOrder
    <2>4. QED BY <2>1, <2>2, <2>3, HeadGone DEF CallsInv, Left
  <1>5. QED BY <1>1, <1>2, <1>3, <1>4 DEF Frame, Moves

\* The accounts that calls are about.
LEMMA NamesOf ==
  ASSUME NEW c \in Calls
  PROVE  WellFormed(c) /\ Contracts \subseteq Names /\ "accounts" \in Names
PROOF
  BY DEF Calls, Names

LEMMA ProcessTypes ==
  ASSUME TypeOK, CallsInv, Frame
  PROVE  status' \in Statuses /\ (status' = "running" <=> calls' # <<>>)
PROOF
  <1>1. CASE UNCHANGED process
    BY <1>1 DEF process, TypeOK
  <1>2. CASE Run
    BY <1>2 DEF Run, Statuses
  <1>3. CASE Ends
    BY <1>3 DEF Ends, Halt, Statuses
  <1>4. CASE GoesOn
    BY <1>4, HeadGone DEF GoesOn, Statuses
  <1>5. QED BY <1>1, <1>2, <1>3, <1>4 DEF Frame, Moves

LEMMA FileTypes ==
  ASSUME TypeOK, CallsInv, Frame
  PROVE  /\ mem' \subseteq Names /\ env' \subseteq Names
         /\ disk' \subseteq {"folder", "env", "tmp", "value", "utility", "sealer", "keys", "bin"}
PROOF
  <1>1. mem \subseteq Names /\ env \subseteq Names
        /\ disk \subseteq {"folder", "env", "tmp", "value", "utility", "sealer", "keys", "bin"}
    BY DEF TypeOK
  <1>2. NameContract => Head(calls).what \in Names
    BY HeadCall, NamesOf DEF NameContract, Doing, WellFormed
  <1>3. mem' \subseteq Names
    BY <1>1, <1>2 DEF Frame, Run, CreateAddresses, NameContract, Names
  <1>4. env' \subseteq Names
    BY <1>1, <1>3 DEF Frame, Kill, FreshSetup, WriteEnv, NameContract, Written, files
  <1>5. InitChain => Head(calls).what \in Chains
    BY HeadCall, NamesOf DEF InitChain, Doing, WellFormed
  <1>6. FreshSetup \/ CreateAddresses \/ InitChain => disk' \subseteq
          {"folder", "env", "tmp", "value", "utility", "sealer", "keys", "bin"}
    BY <1>1, <1>5 DEF FreshSetup, CreateAddresses, InitChain, Chains
  <1>7. CopyKeys \/ ImportKeys \/ WriteEnv \/ NameContract \/ BuildCleanup \/ PostSetupSteps =>
          disk' \subseteq {"folder", "env", "tmp", "value", "utility", "sealer", "keys", "bin"}
    BY <1>1 DEF CopyKeys, ImportKeys, WriteEnv, NameContract, BuildCleanup, PostSetupSteps,
                Written, files
  <1>8. QED BY <1>1, <1>3, <1>4, <1>6, <1>7 DEF Frame

LEMMA ChainTypes ==
  ASSUME TypeOK, CallsInv, Frame
  PROVE  /\ seen' \in [Chains -> 0..MaxHeight]
         /\ tries' \in [Chains -> 0..(RetryAttempts + 2)]
         /\ ready' \subseteq Chains /\ up' \subseteq Chains
         /\ height' \in [Chains -> 0..MaxHeight]
         /\ comms' \subseteq Communicators
         /\ faults' \in 0..MaxFaults /\ kills' \in 0..MaxKills
PROOF
  <1>1. /\ seen \in [Chains -> 0..MaxHeight] /\ tries \in [Chains -> 0..(RetryAttempts + 2)]
        /\ ready \subseteq Chains /\ up \subseteq Chains /\ comms \subseteq Communicators
        /\ height \in [Chains -> 0..MaxHeight]
        /\ faults \in 0..MaxFaults /\ kills \in 0..MaxKills
    BY DEF TypeOK
  <1>2. RetryAttempts \in Nat /\ MaxHeight \in Nat /\ MaxFaults \in Nat /\ MaxKills \in Nat
    BY SetupAssumption
  <1>3. Zero \in [Chains -> 0..MaxHeight] /\ Zero \in [Chains -> 0..(RetryAttempts + 2)]
    BY <1>2 DEF Zero
  <1>4. ASSUME NEW chain \in Chains, Poll(chain)
        PROVE  /\ seen' \in [Chains -> 0..MaxHeight]
               /\ tries' \in [Chains -> 0..(RetryAttempts + 2)]
               /\ ready' \subseteq Chains
    <2>1. Attempts \in {1, 2}
      BY DEF Attempts
    <2>2. \/ tries' = [tries EXCEPT ![chain] = @ + 1]
          \/ tries' = [tries EXCEPT ![chain] = @ + Attempts]
      BY <1>4 DEF Poll
    <2>3. tries[chain] + 1 \in 0..(RetryAttempts + 2)
          /\ tries[chain] + Attempts \in 0..(RetryAttempts + 2)
      BY <1>1, <1>2, <1>4, <2>1 DEF Poll
    <2>4. tries' \in [Chains -> 0..(RetryAttempts + 2)]
      BY <1>1, <2>2, <2>3
    <2>5. seen' = seen \/ \E n \in 0..MaxHeight : seen' = [seen EXCEPT ![chain] = n]
      BY <1>4 DEF Poll
    <2>6. seen' \in [Chains -> 0..MaxHeight]
      BY <1>1, <2>5
    <2>7. ready' \subseteq Chains
      BY <1>1, <1>4 DEF Poll
    <2>8. QED BY <2>4, <2>6, <2>7
  <1>5. /\ seen' \in [Chains -> 0..MaxHeight]
        /\ tries' \in [Chains -> 0..(RetryAttempts + 2)]
        /\ ready' \subseteq Chains
    BY <1>1, <1>3, <1>4 DEF Frame, checkers, Run, ChainsReady
  <1>6. up' \subseteq Chains
    BY <1>1 DEF Frame, StartGeth, RunScript, RunGeth, ProcessDies, ServiceEnds, Gone
  <1>7. height' \in [Chains -> 0..MaxHeight]
    <2>1. ASSUME NEW chain \in Chains, MineBlock(chain)
          PROVE  height' \in [Chains -> 0..MaxHeight]
      BY <1>1, <1>2, <2>1 DEF MineBlock
    <2>2. FreshSetup => height' = Zero
      BY DEF FreshSetup
    <2>3. QED BY <1>1, <1>3, <2>1, <2>2 DEF Frame
  <1>8. comms' \subseteq Communicators
    <2>1. StartExecutable => Head(calls).what \in Communicators
      BY HeadCall, NamesOf DEF StartExecutable, Doing, WellFormed
    <2>2. RunScript => Head(calls).what \in Chains \cup Communicators
      BY HeadCall, NamesOf DEF RunScript, Doing, WellFormed
    <2>3. StartExecutable => comms' \subseteq Communicators
      BY <1>1, <2>1 DEF StartExecutable, Starts
    <2>4. RunScript => comms' \subseteq Communicators
      BY <1>1, <2>2 DEF RunScript, Starts
    <2>5. ProcessDies \/ ServiceEnds => comms' \subseteq Communicators
      BY <1>1 DEF ProcessDies, ServiceEnds, Gone
    <2>6. QED BY <1>1, <2>3, <2>4, <2>5 DEF Frame
  <1>9. faults' \in 0..MaxFaults /\ kills' \in 0..MaxKills
    BY <1>1, <1>2 DEF Frame, Fault
  <1>10. QED BY <1>5, <1>6, <1>7, <1>8, <1>9

LEMMA ServiceTypes ==
  ASSUME TypeOK, CallsInv, Frame
  PROVE  dying' \cup stale' \subseteq up' \cup comms' /\ heard' \subseteq Chains
PROOF
  <1>1. dying \subseteq up \cup comms /\ stale \subseteq up \cup comms /\ heard \subseteq Chains
    BY DEF TypeOK
  <1>2. heard' \subseteq Chains
    BY <1>1 DEF Frame, FreshSetup, Poll, Number
  <1>3. CASE ProcessDies \/ ServiceEnds
    BY <1>1, <1>2, <1>3 DEF ProcessDies, ServiceEnds, Gone
  <1>4. CASE StartExecutable \/ RunScript
    BY <1>1, <1>2, <1>4 DEF StartExecutable, RunScript, RunGeth, Starts
  <1>5. CASE StopServices
    BY <1>1, <1>2, <1>5 DEF StopServices, services
  <1>6. CASE FreshSetup
    BY <1>1, <1>2, <1>6 DEF FreshSetup
  <1>7. CASE /\ ~ProcessDies /\ ~ServiceEnds /\ ~StartExecutable /\ ~RunScript
             /\ ~StopServices /\ ~FreshSetup
    <2>1. dying' = dying /\ stale' = stale /\ comms' = comms
      BY <1>7 DEF Frame
    <2>2. up \subseteq up'
      BY <1>7 DEF Frame, StartGeth
    <2>3. QED BY <1>1, <1>2, <2>1, <2>2
  <1>8. QED BY <1>3, <1>4, <1>5, <1>6, <1>7

LEMMA ContractTypes ==
  ASSUME TypeOK, CallsInv, Frame
  PROVE  /\ contracts' \subseteq Contracts
         /\ ops' \in [Contracts -> {"none", "valueOps", "valueRegistrar", "utilityRegistrar"}]
         /\ offered' \subseteq contracts'
         /\ facts' \subseteq {"admin", "finalized", "core", "supply", "registered", "approved",
                              "staked", "minted"}
PROOF
  <1>1. /\ contracts \subseteq Contracts /\ offered \subseteq contracts
        /\ ops \in [Contracts -> {"none", "valueOps", "valueRegistrar", "utilityRegistrar"}]
        /\ facts \subseteq {"admin", "finalized", "core", "supply", "registered", "approved",
                            "staked", "minted"}
    BY DEF TypeOK
  <1>2. contracts' \subseteq Contracts
    <2>1. DeployContract => Head(calls).what \in Contracts
      BY HeadCall, NamesOf DEF DeployContract, Succeeds, Doing, WellFormed
    <2>2. QED
      BY <1>1, <2>1 DEF Frame, FreshSetup, DeployContract, InitialTransferToContract, Contracts
  <1>3. ops' \in [Contracts -> {"none", "valueOps", "valueRegistrar", "utilityRegistrar"}]
    <2>1. SetOpsAddress => /\ ops' = [ops EXCEPT ![Head(calls).what] = Head(calls).to]
                           /\ Head(calls).to \in {"valueOps", "valueRegistrar", "utilityRegistrar"}
      BY HeadCall, NamesOf DEF SetOpsAddress, Succeeds, Doing, WellFormed
    <2>2. FreshSetup => ops' = NoOps
      BY DEF FreshSetup
    <2>3. QED BY <1>1, <2>1, <2>2 DEF Frame, NoOps
  <1>4. offered' \subseteq contracts'
    <2>1. CASE FreshSetup
      BY <2>1 DEF FreshSetup
    <2>2. CASE ~FreshSetup
      <3>1. contracts \subseteq contracts'
        BY <2>2, DoneLasts
      <3>2. InitiateOwnerShipTransfer => Head(calls).what \in contracts
        BY DEF InitiateOwnerShipTransfer, Succeeds, Doing, Accepts
      <3>3. QED BY <1>1, <2>2, <3>1, <3>2 DEF Frame, InitiateOwnerShipTransfer
    <2>3. QED BY <2>1, <2>2
  <1>5. facts' \subseteq {"admin", "finalized", "core", "supply", "registered", "approved",
                          "staked", "minted"}
    BY <1>1 DEF Frame, FreshSetup, SetAdminAddress, Finalize, AddCore, RegisterUtilityToken,
                Stake, Learn, InitialTransferToContract, Approve, MintSTPrime
  <1>6. QED BY <1>2, <1>3, <1>4, <1>5

LEMMA TypeStep ==
  ASSUME TypeOK, CallsInv, Frame
  PROVE  TypeOK'
PROOF
  BY ProcessTypes, FileTypes, ChainTypes, ServiceTypes, ContractTypes DEF TypeOK

LEMMA SeenStep ==
  ASSUME TypeOK, CallsInv, LiveInv, Frame
  PROVE  \A ch \in Chains \ heard' :
           seen'[ch] <= height'[ch] /\ (ch \in ready' => height'[ch] >= 2)
PROOF
  <1>1. /\ seen \in [Chains -> Nat] /\ height \in [Chains -> Nat]
        /\ \A ch \in Chains \ heard :
             seen[ch] <= height[ch] /\ (ch \in ready => height[ch] >= 2)
    BY SetupAssumption DEF TypeOK, LiveInv
  <1>2. height' \in [Chains -> Nat]
    BY ChainTypes, SetupAssumption
  <1>3. CASE seen' = Zero /\ ready' = {}
    BY <1>2, <1>3 DEF Zero
  <1>4. CASE UNCHANGED checkers
    <2>1. CASE FreshSetup
      <3>1. status = "running" /\ Head(calls).do = "freshSetup"
        BY <2>1 DEF FreshSetup, Doing
      <3>2. seen = Zero /\ ready = {}
        BY <3>1 DEF LiveInv
      <3>3. QED BY <1>2, <1>4, <3>2 DEF checkers, Zero
    <2>2. CASE ~FreshSetup
      <3>1. heard \subseteq heard'
        BY <2>2 DEF Frame, Poll, Number
      <3>2. ASSUME NEW chain \in Chains, MineBlock(chain)
            PROVE  \A ch \in Chains : height'[ch] >= height[ch]
        BY <1>1, <3>2 DEF MineBlock
      <3>3. \A ch \in Chains : height'[ch] >= height[ch]
        BY <1>1, <2>2, <3>2 DEF Frame
      <3>4. QED BY <1>1, <1>2, <1>4, <3>1, <3>3 DEF checkers
    <2>3. QED BY <2>1, <2>2
  <1>5. ASSUME NEW chain \in Chains, Poll(chain)
        PROVE  \A ch \in Chains \ heard' :
                 seen'[ch] <= height'[ch] /\ (ch \in ready' => height'[ch] >= 2)
    <2>1. height' = height
      BY <1>5 DEF Poll
    <2>2. CASE UNCHANGED <<seen, ready, heard>>
      BY <1>1, <2>1, <2>2
    <2>3. ASSUME NEW n \in 0..MaxHeight, Number(chain, n),
                 seen' = [seen EXCEPT ![chain] = n],
                 ready' = IF HasNewBlocks(seen[chain], n) THEN ready \cup {chain} ELSE ready
          PROVE  \A ch \in Chains \ heard' :
                   seen'[ch] <= height'[ch] /\ (ch \in ready' => height'[ch] >= 2)
      <3>1. CASE chain \in stale
        <4>1. heard' = heard \cup {chain}
          BY <2>3, <3>1 DEF Number
        <4>2. \A ch \in Chains \ heard' :
                ch \in Chains \ heard /\ seen'[ch] = seen[ch] /\ (ch \in ready' => ch \in ready)
          BY <1>1, <2>3, <4>1
        <4>3. QED BY <1>1, <2>1, <4>2
      <3>2. CASE chain \notin stale
        <4>1. heard' = heard /\ n = height[chain]
          BY <2>3, <3>2 DEF Number
        <4>2. chain \notin heard /\ HasNewBlocks(seen[chain], n) => height[chain] >= 2
          BY <1>1, <1>5, <4>1 DEF HasNewBlocks
        <4>3. QED BY <1>1, <2>1, <2>3, <4>1, <4>2
      <3>3. QED BY <3>1, <3>2
    <2>4. QED BY <1>5, <2>2, <2>3 DEF Poll
  <1>6. QED BY <1>3, <1>4, <1>5 DEF Frame, Run, ChainsReady

LEMMA LiveStep ==
  ASSUME TypeOK, CallsInv, LiveInv, Frame
  PROVE  LiveInv'
PROOF
  <1>1. status' = "running" /\ Head(calls').do \notin {"checkGeth", "chainStatus"} =>
          seen' = Zero /\ ready' = {}
    <2>1. CASE seen' = Zero /\ ready' = {}
      BY <2>1
    <2>2. ASSUME NEW chain \in Chains, Poll(chain)
          PROVE  Head(calls').do \in {"checkGeth", "chainStatus"}
      BY <2>2 DEF Poll, Checks, Doing, process
    <2>3. CASE UNCHANGED checkers
      <3>1. CASE UNCHANGED process
        BY <2>3, <3>1 DEF LiveInv, checkers, process
      <3>2. CASE Ends
        BY <3>2 DEF Ends, Halt
      <3>3. CASE GoesOn
        BY <2>3, <3>3 DEF GoesOn, LiveInv, checkers
      <3>4. CASE Run
        BY <3>4 DEF Run
      <3>5. QED BY <3>1, <3>2, <3>3, <3>4 DEF Frame, Moves
    <2>4. QED BY <2>1, <2>2, <2>3 DEF Frame, Run, ChainsReady
  <1>2. "keys" \in disk' \/ contracts' # {} => TwoBlocks'
    <2>1. CASE FreshSetup
      <3>1. contracts' = {} /\ disk' \subseteq {"folder", "env"}
        BY <2>1 DEF FreshSetup
      <3>2. "keys" \notin disk'
        BY <3>1
      <3>3. QED BY <3>1, <3>2
    <2>2. CASE ~FreshSetup
      <3>1. TwoBlocks => TwoBlocks'
        BY <2>2, DoneLasts
      <3>2. CASE TwoBlocks
        BY <3>1, <3>2
      <3>3. CASE ~TwoBlocks
        <4>1. "keys" \notin disk /\ contracts = {}
          BY <3>3 DEF LiveInv
        <4>2. ~DeployContract /\ ~InitialTransferToContract
          BY <4>1 DEF DeployContract, InitialTransferToContract, Succeeds, Reaches
        <4>3. ~ImportKeys
          <5>1. SUFFICES ASSUME ImportKeys PROVE FALSE
            OBVIOUS
          <5>2. status = "running" /\ calls # <<>> /\ Head(calls) \in Importing
            BY <5>1, HeadCall DEF ImportKeys, Doing, Importing, Kind
          <5>3. Left(Importing) /\ ~Left(Checking)
            BY <5>2, HeadAndTail DEF CallsInv, InOrder, Left
          <5>4. QED BY <3>3, <5>3 DEF LiveInv
        <4>4. contracts' = {}
          BY <2>2, <4>1, <4>2 DEF Frame
        <4>5. "keys" \notin disk'
          BY <2>2, <4>1, <4>3, HeadCall, NamesOf DEF Frame, CreateAddresses, InitChain, CopyKeys, WriteEnv,
             NameContract, BuildCleanup, PostSetupSteps, Written, files, Doing, WellFormed,
             Chains
        <4>6. QED BY <4>4, <4>5
      <3>4. QED BY <3>2, <3>3
    <2>3. QED BY <2>1, <2>2
  <1>3. Left(Importing)' /\ ~Left(Checking)' => TwoBlocks' /\ ~Left(Fresh)'
    <2>1. SUFFICES ASSUME Left(Importing)', ~Left(Checking)'
                   PROVE  TwoBlocks' /\ ~Left(Fresh)'
      OBVIOUS
    <2>2. CASE Run
      BY <2>1, <2>2, ScriptCalls DEF Run, Left
    <2>3. CASE Ends
      BY <2>1, <2>3, EmptyList DEF Ends, Halt, Left
    <2>4. CASE UNCHANGED process /\ ~Run
      <3>1. calls' = calls /\ ~FreshSetup
        BY <2>4, StillHere DEF process
      <3>2. TwoBlocks /\ ~Left(Fresh)
        BY <2>1, <3>1 DEF LiveInv, Left
      <3>3. QED BY <3>1, <3>2, DoneLasts DEF Left
    <2>5. CASE GoesOn
      <3>1. PICK c \in Calls : /\ status = "running" /\ c = Head(calls) /\ Proceed
                               /\ Leaves(c)'
        BY <2>5 DEF GoesOn
      <3>2. Elements(calls) = {c} \cup Elements(calls') /\ Left(Importing)
        BY <2>1, <3>1, HeadGone DEF Left
      <3>3. CASE Left(Checking)
        <4>1. c \in Checking
          BY <2>1, <3>2, <3>3 DEF Left
        <4>2. c.do = "checkGeth" /\ c \in AfterFresh
          BY <4>1 DEF Checking, Kind, AfterFresh
        <4>3. TwoBlocks'
          BY <3>1, <4>2 DEF Leaves, Done
        <4>4. ~Left(Fresh)
          BY <3>1, <4>2, HeadGone DEF CallsInv, InOrder
        <4>5. QED BY <3>2, <4>3, <4>4 DEF Left
      <3>4. CASE ~Left(Checking)
        <4>1. TwoBlocks /\ ~Left(Fresh)
          BY <3>2, <3>4 DEF LiveInv
        <4>2. c \notin Fresh
          BY <3>2, <4>1 DEF Left
        <4>3. ~FreshSetup
          BY <3>1, <4>2 DEF FreshSetup, Doing, Fresh, Kind
        <4>4. QED BY <3>2, <4>1, <4>3, DoneLasts DEF Left
      <3>5. QED BY <3>3, <3>4
    <2>6. QED BY <2>2, <2>3, <2>4, <2>5 DEF Frame, Moves
  <1>4. QED
    BY <1>1, <1>2, <1>3, SeenStep DEF LiveInv

LEMMA MintStep ==
  ASSUME TypeOK, CallsInv, MintInv, Frame
  PROVE  MintInv'
PROOF
  <1> DEFINE owned == <<"STP", "utilityChainOwner">>
  <1>1. CASE FreshSetup
    BY <1>1 DEF FreshSetup, MintInv
  <1>2. CASE MintSTPrime
    BY <1>2 DEF MintSTPrime, MintInv
  <1>3. CASE ~FreshSetup /\ ~MintSTPrime
    <2>1. facts \subseteq facts'
      BY <1>3, DoneLasts
    <2>2. \A currency, account : currency # "STP" \/ account # "utilityChainOwner" =>
            <<currency, account>> # owned
      OBVIOUS
    <2>3. \A chain : Genesis(chain) # owned
      BY <2>2 DEF Genesis
    <2>4. TransferSTP => Head(calls).to # "utilityChainOwner"
      BY HeadCall, NamesOf DEF TransferSTP, Succeeds, Doing, WellFormed
    <2>5. InitChain => (owned \in funds' => owned \in funds)
      BY <2>3 DEF InitChain
    <2>6. TransferEth \/ TransferST \/ TransferSTP => (owned \in funds' => owned \in funds)
      BY <2>2, <2>4 DEF TransferEth, TransferST, TransferSTP, Pay
    <2>7. DeployContract \/ InitialTransferToContract => (owned \in funds' => owned \in funds)
      BY <2>2 DEF DeployContract, InitialTransferToContract
    <2>8. owned \in funds' => owned \in funds
      BY <1>3, <2>5, <2>6, <2>7 DEF Frame
    <2>9. QED BY <2>1, <2>8 DEF MintInv
  <1>4. QED BY <1>1, <1>2, <1>3

\* A call of the whole setup that does this.
LEMMA StepOf ==
  ASSUME NEW do, NEW what, Does(Script("all"), do, what),
         do \notin {"stopServices", "freshSetup"}
  PROVE  \E c \in Steps : c.do = do /\ c.what = what
PROOF
  <1>1. Script("all") \in Seq(Calls)
    BY ScriptCalls
  <1>2. Elements(Script("all")) \subseteq Calls
    BY <1>1, SeqElements
  <1>3. QED BY <1>2 DEF Does, Steps, AfterFresh

\* The call at which a process hands on valueRegistrar's role, or its ownership.
LEMMA GivingUpStep ==
  ASSUME TypeOK, CallsInv, WholeInv, status = "running", Head(calls) \in GivingUp
  PROVE  "registered" \in facts
PROOF
  <1>1. calls # <<>> /\ Head(calls) \in Calls /\ Head(calls) \in Elements(calls)
    BY HeadCall, HeadAndTail DEF CallsInv
  <1>2. Left(RoleCalls)
    BY <1>1 DEF Left, RoleCalls, GivingUp, Kind
  <1>3. Whole /\ Before(calls, Registering, GivingUp)
    BY <1>2 DEF CallsInv, Whole, WholeOrder, DeployOrder
  <1>4. ~Left(Registering)
    BY <1>1, <1>3, HeadAndTail DEF CallsInv, Left
  <1>5. PICK c \in Steps : c.do = "registerUtilityToken"
    BY WholeCalls, StepOf
  <1>6. c \in Registering
    BY <1>5 DEF Steps, AfterFresh, Registering, Kind
  <1>7. c \notin Elements(calls)
    BY <1>4, <1>6 DEF Left
  <1>8. Done(c)
    BY <1>3, <1>7 DEF WholeInv
  <1>9. QED BY <1>5, <1>8 DEF Done

LEMMA OfferingStep ==
  ASSUME TypeOK, CallsInv, WholeInv, status = "running", Head(calls) \in Offering
  PROVE  ops["valueRegistrar"] = "valueRegistrar" /\ ~Left(Taking)
PROOF
  <1>1. calls # <<>> /\ Head(calls) \in Calls /\ Head(calls) \in Elements(calls)
    BY HeadCall, HeadAndTail DEF CallsInv
  <1>2. Left(RoleCalls)
    BY <1>1 DEF Left, RoleCalls, Offering, Kind
  <1>3. Whole /\ Before(calls, GivingUp, Offering) /\ Before(calls, Taking, Offering)
    BY <1>2 DEF CallsInv, Whole, WholeOrder, DeployOrder
  <1>4. ~Left(GivingUp) /\ ~Left(Taking)
    BY <1>1, <1>3, HeadAndTail DEF CallsInv, Left
  <1>5. QED BY <1>3, <1>4 DEF WholeInv

\* Nothing but the call at the head changes the role of valueRegistrar.
LEMMA RoleChange ==
  ASSUME TypeOK, CallsInv, SetOpsAddress
  PROVE  /\ status = "running" /\ Proceed
         /\ \/ ops'["valueRegistrar"] = ops["valueRegistrar"]
            \/ Head(calls) \in Taking /\ ops'["valueRegistrar"] = "valueOps"
            \/ Head(calls) \in GivingUp /\ ops'["valueRegistrar"] = "valueRegistrar"
PROOF
  <1>1. /\ status = "running" /\ Proceed /\ Head(calls).do = "setOps"
        /\ ops' = [ops EXCEPT ![Head(calls).what] = Head(calls).to]
    BY DEF SetOpsAddress, Succeeds, Doing
  <1>2. Head(calls) \in Calls /\ WellFormed(Head(calls))
    BY <1>1, HeadCall, NamesOf
  <1>3. CASE Head(calls).what = "utilityRegistrar"
    BY <1>1, <1>3 DEF TypeOK, Contracts
  <1>4. CASE /\ Head(calls).what = "valueRegistrar"
             /\ Head(calls).to \in {"valueOps", "valueRegistrar"}
    BY <1>1, <1>2, <1>4 DEF TypeOK, Contracts, Taking, GivingUp, Kind
  <1>5. QED BY <1>1, <1>2, <1>3, <1>4 DEF WellFormed

LEMMA RolesStep ==
  ASSUME TypeOK, CallsInv, WholeInv, RolesInv, Frame
  PROVE  RolesInv'
PROOF
  <1>1. CASE FreshSetup
    <2>1. offered' = {} /\ ops' = NoOps
      BY <1>1 DEF FreshSetup
    <2>2. ops'["valueRegistrar"] # "valueRegistrar"
      BY <2>1 DEF NoOps, Contracts
    <2>3. QED BY <2>1, <2>2 DEF RolesInv
  <1>2. CASE ~FreshSetup
    <2>1. facts \subseteq facts'
      BY <1>2, DoneLasts
    <2>2. SetOpsAddress => facts' = facts /\ offered' = offered /\ calls' # calls
      BY RoleChange, HeadGone DEF SetOpsAddress
    <2>3. ops'["valueRegistrar"] = "valueRegistrar" => "registered" \in facts'
      BY <1>2, <2>1, RoleChange, GivingUpStep DEF Frame, RolesInv
    <2>4. InitiateOwnerShipTransfer =>
            /\ status = "running" /\ Proceed
            /\ Head(calls) \in Calls /\ Head(calls).do = "offerOwnership"
            /\ WellFormed(Head(calls))
            /\ ops' = ops /\ offered' = offered \cup {Head(calls).what}
      BY HeadCall, NamesOf DEF InitiateOwnerShipTransfer, Succeeds, Doing
    <2>5. InitiateOwnerShipTransfer => Head(calls) \in Offering \/ Head(calls).what # "valueRegistrar"
      BY <2>4 DEF Offering, Kind
    <2>6. offered' \subseteq Offered
      BY <1>2, <2>4 DEF Frame, RolesInv, WellFormed
    <2>7. "valueRegistrar" \in offered' => ops'["valueRegistrar"] = "valueRegistrar"
      <3>1. CASE InitiateOwnerShipTransfer
        BY <2>4, <2>5, <3>1, OfferingStep DEF RolesInv
      <3>2. CASE SetOpsAddress /\ Head(calls) \in Taking
        <4>1. status = "running" /\ offered' = offered
          BY <2>2, <3>2, RoleChange
        <4>2. calls # <<>> /\ Head(calls) \in Elements(calls)
          BY <4>1, HeadCall, HeadAndTail DEF CallsInv
        <4>3. Head(calls) \in AfterFresh
          BY <3>2 DEF Taking, Kind, AfterFresh
        <4>4. Left(Taking) /\ ~Left(Fresh)
          BY <3>2, <4>2, <4>3, HeadAndTail DEF CallsInv, InOrder, Left
        <4>5. QED BY <4>1, <4>4 DEF RolesInv
      <3>3. CASE ~InitiateOwnerShipTransfer /\ ~(SetOpsAddress /\ Head(calls) \in Taking)
        BY <1>2, <3>3, RoleChange DEF Frame, RolesInv
      <3>4. QED BY <3>1, <3>2, <3>3
    <2>8. Left(Taking)' /\ ~Left(Fresh)' => "valueRegistrar" \notin offered'
      <3>1. SUFFICES ASSUME Left(Taking)', ~Left(Fresh)'
                     PROVE  "valueRegistrar" \notin offered'
        OBVIOUS
      <3>2. CASE Run
        <4>1. PICK t : calls' = Script(t)
          BY <3>2 DEF Run
        <4>2. Elements(Script(t)) \cap RoleCalls # {}
          BY <3>1, <4>1 DEF Left, Taking, RoleCalls, Kind
        <4>3. t = "all"
          BY <4>2, ScriptCalls
        <4>4. QED BY <3>1, <4>1, <4>3, WholeCalls DEF Left
      <3>3. CASE Ends
        BY <3>1, <3>3, EmptyList DEF Ends, Halt, Left
      <3>4. CASE UNCHANGED process /\ ~Run
        <4>1. calls' = calls /\ offered' = offered
          BY <3>4, StillHere DEF process
        <4>2. QED BY <3>1, <4>1 DEF RolesInv, Left
      <3>5. CASE GoesOn
        <4>1. PICK c \in Calls : /\ status = "running" /\ c = Head(calls) /\ Proceed
                                 /\ Leaves(c)'
          BY <3>5 DEF GoesOn
        <4>2. Elements(calls) = {c} \cup Elements(calls') /\ Left(Taking)
          BY <3>1, <4>1, HeadGone DEF Left
        <4>3. CASE c \in Fresh
          BY <4>1, <4>3 DEF Fresh, Kind, Leaves
        <4>4. CASE c \notin Fresh
          <5>1. "valueRegistrar" \notin offered
            BY <3>1, <4>2, <4>4 DEF RolesInv, Left
          <5>2. InitiateOwnerShipTransfer => "valueRegistrar" \notin offered'
            BY <2>4, <2>5, <4>2, <5>1, OfferingStep
          <5>3. QED BY <1>2, <5>1, <5>2 DEF Frame
        <4>5. QED BY <4>3, <4>4
      <3>6. QED BY <3>2, <3>3, <3>4, <3>5 DEF Frame, Moves
    <2>9. QED BY <2>3, <2>6, <2>7, <2>8 DEF RolesInv
  <1>3. QED BY <1>1, <1>2

\* In a setup that goes on, a call that was made is done, and stays so.
LEMMA WholeGoesOn ==
  ASSUME TypeOK, CallsInv, WholeInv, Frame, GoesOn, Whole'
  PROVE  /\ \A c \in Steps : c \in Elements(calls') \/ (Done(c)' /\ ~Left(Fresh)')
         /\ Left(GivingUp)' \/ (ops'["valueRegistrar"] = "valueRegistrar" /\ ~Left(Fresh)')
         /\ Left(Stopping)' \/ KillsSent'
         /\ Left(Cleaning)' \/ "tmp" \notin disk'
         /\ Left(NamingLast)' \/ env' = mem'
PROOF
  <1>1. PICK h \in Calls : status = "running" /\ h = Head(calls) /\ Proceed /\ Leaves(h)'
    BY DEF GoesOn
  <1>2. Elements(calls) = {h} \cup Elements(calls') /\ command' = command
    BY <1>1, HeadGone
  <1>3. Whole /\ WholeOrder(calls) /\ ~Run /\ ~Kill
    <2>1. command = "all" /\ status' \in {"running", "exit0"}
      BY <1>2 DEF Whole
    <2>2. QED BY <1>1, <2>1 DEF Whole, CallsInv, Run, Kill, Halt
  <1>4. h \in AfterFresh => ~Left(Fresh)
    BY <1>1, HeadGone DEF CallsInv, InOrder
  <1>5. h \notin Fresh => ~FreshSetup
    BY <1>1 DEF Fresh, Kind, FreshSetup, Doing
  <1>6. ~Left(Fresh) => ~Left(Fresh)' /\ h \notin Fresh
    BY <1>2 DEF Left
  <1>7. Done(h)'
    BY <1>1 DEF Leaves
  <1>8. ASSUME NEW c \in Steps, c \notin Elements(calls')
        PROVE  Done(c)' /\ ~Left(Fresh)'
    <2>1. CASE c \in Elements(calls)
      BY <1>2, <1>4, <1>6, <1>7, <1>8, <2>1 DEF Steps
    <2>2. CASE c \notin Elements(calls)
      <3>1. Done(c) /\ ~Left(Fresh)
        BY <1>3, <2>2 DEF WholeInv
      <3>2. QED BY <1>3, <1>5, <1>6, <3>1, DoneLasts
    <2>3. QED BY <2>1, <2>2
  <1>9. ASSUME ~Left(GivingUp)'
        PROVE  ops'["valueRegistrar"] = "valueRegistrar" /\ ~Left(Fresh)'
    <2>1. CASE h \in GivingUp
      <3>1. WellFormed(h) /\ h.do = "setOps" /\ h.to = "valueRegistrar" /\ h \in AfterFresh
        BY <2>1, NamesOf DEF GivingUp, Kind, AfterFresh
      <3>2. ops'[h.what] = h.to /\ h.what = "valueRegistrar"
        BY <1>1, <3>1 DEF WellFormed, Leaves
      <3>3. QED BY <1>4, <1>6, <3>1, <3>2
    <2>2. CASE h \notin GivingUp
      <3>1. ~Left(GivingUp)
        BY <1>2, <1>9, <2>2 DEF Left
      <3>2. ops["valueRegistrar"] = "valueRegistrar" /\ ~Left(Fresh)
        BY <1>3, <3>1 DEF WholeInv
      <3>3. h \notin Taking
        BY <1>1, <1>3, <1>9, HeadGone DEF WholeOrder, DeployOrder, Left
      <3>4. QED
        BY <1>1, <1>5, <1>6, <2>2, <3>2, <3>3, RoleChange DEF Frame
    <2>3. QED BY <2>1, <2>2
  <1>10. ASSUME ~Left(Stopping)'
         PROVE  KillsSent'
    <2>1. CASE h \in Stopping
      BY <1>1, <2>1 DEF Stopping, Kind, Leaves
    <2>2. CASE h \notin Stopping
      <3>1. ~Left(Stopping)
        BY <1>2, <1>10, <2>2 DEF Left
      <3>2. KillsSent
        BY <1>3, <3>1 DEF WholeInv
      <3>3. h \notin Starting
        BY <1>1, <1>3, <1>10, HeadGone DEF WholeOrder, Left
      <3>4. ~StartGeth /\ ~StartExecutable /\ ~RunScript
        BY <1>1, <3>3 DEF Starting, Kind, StartGeth, StartExecutable, RunScript, Doing
      <3>5. QED BY <3>2, <3>4, KillsStay
    <2>3. QED BY <2>1, <2>2
  <1>11. ASSUME ~Left(Cleaning)'
         PROVE  "tmp" \notin disk'
    <2>1. CASE h \in Cleaning
      BY <1>1, <2>1 DEF Cleaning, Kind, Leaves
    <2>2. CASE h \notin Cleaning
      <3>1. ~Left(Cleaning)
        BY <1>2, <1>11, <2>2 DEF Left
      <3>2. "tmp" \notin disk
        BY <1>3, <3>1 DEF WholeInv
      <3>3. h \notin Creating
        BY <1>1, <1>3, <1>11, HeadGone DEF WholeOrder, Left
      <3>4. ~CreateAddresses
        BY <1>1, <3>3 DEF Creating, Kind, CreateAddresses, Doing
      <3>5. InitChain => Head(calls).what \in Chains
        BY HeadCall, NamesOf DEF InitChain, Doing, WellFormed
      <3>6. FreshSetup => disk' \subseteq {"folder", "env"}
        BY DEF FreshSetup
      <3>7. InitChain \/ CopyKeys \/ ImportKeys => "tmp" \notin disk'
        BY <3>2, <3>5 DEF InitChain, CopyKeys, ImportKeys, Chains
      <3>8. WriteEnv \/ NameContract \/ BuildCleanup \/ PostSetupSteps => "tmp" \notin disk'
        BY <3>2 DEF WriteEnv, NameContract, BuildCleanup, PostSetupSteps, Written, files
      <3>9. "tmp" \notin {"folder", "env"}
        OBVIOUS
      <3>10. FreshSetup => "tmp" \notin disk'
        BY <3>6, <3>9
      <3>11. QED BY <3>2, <3>4, <3>7, <3>8, <3>10 DEF Frame
    <2>3. QED BY <2>1, <2>2
  <1>12. ASSUME ~Left(NamingLast)'
         PROVE  env' = mem'
    <2>1. CASE h.do = "name"
      BY <1>1, <2>1 DEF Leaves
    <2>2. CASE h.do # "name"
      <3>1. ~Left(NamingLast)
        BY <1>2, <1>12, <2>2 DEF Left, NamingLast, Kind
      <3>2. env = mem
        BY <1>3, <3>1 DEF WholeInv
      <3>3. h \notin Renaming
        BY <1>1, <1>3, <1>12, HeadGone DEF WholeOrder, DeployOrder, Left
      <3>4. ~CreateAddresses /\ ~FreshSetup /\ ~NameContract
        BY <1>1, <2>2, <3>3 DEF Renaming, Kind, CreateAddresses, FreshSetup, NameContract, Doing
      <3>5. mem' = mem
        BY <1>3, <3>4 DEF Frame
      <3>6. WriteEnv => env' = env \/ env' = mem
        BY DEF WriteEnv, Written, files
      <3>7. QED BY <1>3, <3>2, <3>4, <3>5, <3>6 DEF Frame
    <2>3. QED BY <2>1, <2>2
  <1>13. QED BY <1>8, <1>9, <1>10, <1>11, <1>12

LEMMA WholeStep ==
  ASSUME TypeOK, CallsInv, WholeInv, Frame
  PROVE  WholeInv'
PROOF
  <1> SUFFICES ASSUME Whole'
               PROVE  /\ \A c \in Steps : c \in Elements(calls') \/ (Done(c)' /\ ~Left(Fresh)')
                      /\ Left(GivingUp)' \/ /\ ops'["valueRegistrar"] = "valueRegistrar"
                                            /\ ~Left(Fresh)'
                      /\ Left(Stopping)' \/ KillsSent'
                      /\ Left(Cleaning)' \/ "tmp" \notin disk'
                      /\ Left(NamingLast)' \/ env' = mem'
    BY DEF WholeInv
  <1>1. CASE Run
    <2>1. calls' = Script("all")
      BY <1>1 DEF Run, Whole
    <2>2. QED BY <2>1, WholeCalls DEF Left, Steps
  <1>2. CASE Ends
    BY <1>2 DEF Ends, Halt, Whole
  <1>3. CASE UNCHANGED process /\ ~Run
    <2>1. /\ Whole /\ calls' = calls /\ mem' = mem /\ env' = env /\ disk' = disk
          /\ ops' = ops /\ (KillsSent => KillsSent') /\ ~FreshSetup
      BY <1>3, StillHere DEF process, Whole
    <2>2. \A c : Done(c) => Done(c)'
      BY <1>3, <2>1, DoneLasts
    <2>3. QED BY <2>1, <2>2 DEF WholeInv, Left
  <1>4. CASE GoesOn
    BY <1>4, WholeGoesOn
  <1>5. QED BY <1>1, <1>2, <1>3, <1>4 DEF Frame, Moves

-----------------------------------------------------------------------------
(* The theorems.                                                           *)

LEMMA IInvInit == Init => IInv
PROOF
  <1> SUFFICES ASSUME Init PROVE IInv
    OBVIOUS
  <1>1. calls = <<>> /\ status = "idle" /\ command = "none"
    BY DEF Init
  <1>2. TypeOK
    <2>1. RetryAttempts \in Nat /\ MaxHeight \in Nat /\ MaxFaults \in Nat /\ MaxKills \in Nat
      BY SetupAssumption
    <2>2. /\ Zero \in [Chains -> 0..MaxHeight] /\ Zero \in [Chains -> 0..(RetryAttempts + 2)]
          /\ NoOps \in [Contracts -> {"none", "valueOps", "valueRegistrar", "utilityRegistrar"}]
      BY <2>1 DEF Zero, NoOps
    <2>3. status \in Statuses /\ (status = "running" <=> calls # <<>>)
      BY <1>1 DEF Statuses
    <2>4. QED BY <2>1, <2>2, <2>3 DEF Init, TypeOK
  <1>3. CallsInv
    BY <1>1, EmptyList DEF CallsInv, InOrder, Left
  <1>4. LiveInv
    <2>1. seen = Zero /\ height = Zero /\ ready = {} /\ disk = {} /\ contracts = {}
      BY DEF Init
    <2>2. \A ch \in Chains : seen[ch] <= height[ch] /\ (ch \in ready => height[ch] >= 2)
      BY <2>1 DEF Zero
    <2>3. QED BY <1>1, <2>1, <2>2, EmptyList DEF LiveInv, Left
  <1>5. MintInv /\ WholeInv
    BY <1>1 DEF Init, MintInv, WholeInv, Whole
  <1>6. RolesInv
    <2>1. ops = NoOps /\ offered = {}
      BY DEF Init
    <2>2. ops["valueRegistrar"] # "valueRegistrar"
      BY <2>1 DEF NoOps, Contracts
    <2>3. QED BY <2>1, <2>2 DEF RolesInv
  <1>7. QED BY <1>2, <1>3, <1>4, <1>5, <1>6 DEF IInv

LEMMA IInvNext == IInv /\ [Next]_vars => IInv'
PROOF
  <1> SUFFICES ASSUME IInv, [Next]_vars PROVE IInv'
    OBVIOUS
  <1>1. TypeOK /\ CallsInv /\ LiveInv /\ MintInv /\ WholeInv /\ RolesInv
    BY DEF IInv
  <1>2. Frame
    BY <1>1, Frames
  <1>3. TypeOK' /\ CallsInv' /\ LiveInv'
    BY <1>1, <1>2, TypeStep, CallsStep, LiveStep
  <1>4. MintInv' /\ WholeInv' /\ RolesInv'
    BY <1>1, <1>2, MintStep, WholeStep, RolesStep
  <1>5. QED BY <1>3, <1>4 DEF IInv

\* The inductive invariant holds throughout the setup: the order of the calls that
\* are left, the blocks of the chains, the roles, and what the calls that were made
\* have left behind.
THEOREM SetupInvariant == Spec => []IInv
PROOF
  BY IInvInit, IInvNext, PTL DEF Spec

\* The state of the setup is always of its type (Setup.TypeOK): a list of calls is
\* left if and only if the process runs, and the checkers count within their bounds.
THEOREM TypeCorrect == Spec => []TypeOK
PROOF
  <1>1. IInv => TypeOK
    BY DEF IInv
  <1>2. QED BY <1>1, SetupInvariant, PTL

\* A process that ran all steps and exited with 0 leaves a whole platform: it has no
\* call left, so every step of the script went through and nothing undid it; and unless
\* something failed, a kill is on its way to every chain and communicator that runs.
THEOREM SetupCompleteHolds == Spec => []SetupComplete
PROOF
  <1>1. IInv => SetupComplete
    <2> SUFFICES ASSUME IInv, command = "all", status = "exit0"
                 PROVE  /\ contracts = Contracts /\ env = Names
                        /\ ops["valueRegistrar"] = "valueRegistrar"
                        /\ ops["utilityRegistrar"] = "utilityRegistrar"
                        /\ offered = Offered
                        /\ {"admin", "supply", "registered", "minted"} \subseteq facts
                        /\ "bin" \in disk /\ "tmp" \notin disk
                        /\ faults = 0 => up \cup comms \subseteq dying
      BY DEF SetupComplete, Offered
    <2>1. calls = <<>> /\ Elements(calls) = {}
      BY EmptyList DEF IInv, TypeOK
    <2>2. \A X : ~Left(X)
      BY <2>1 DEF Left
    <2>3. /\ ops["valueRegistrar"] = "valueRegistrar" /\ KillsSent
          /\ "tmp" \notin disk /\ env = mem
          /\ \A c \in Steps : Done(c)
      BY <2>1, <2>2 DEF IInv, WholeInv, Whole
    <2>4. contracts = Contracts
      <3>1. ASSUME NEW k \in Contracts \ {"stPrime"} PROVE k \in contracts
        BY <2>3, WholeCalls, StepOf DEF Done
      <3>2. "stPrime" \in contracts
        BY <2>3, WholeCalls, StepOf DEF Done
      <3>3. contracts \subseteq Contracts
        BY DEF IInv, TypeOK
      <3>4. QED BY <3>1, <3>2, <3>3
    <2>5. env = Names
      <3>1. ASSUME NEW k \in Contracts PROVE k \in mem
        BY <2>3, WholeCalls, StepOf DEF Done
      <3>2. "accounts" \in mem
        BY <2>3, WholeCalls, StepOf DEF Done
      <3>3. mem \subseteq Names
        BY DEF IInv, TypeOK
      <3>4. QED BY <2>3, <3>1, <3>2, <3>3 DEF Names
    <2>6. ops["utilityRegistrar"] = "utilityRegistrar"
      BY <2>3, WholeCalls, StepOf DEF Done
    <2>7. offered = Offered
      <3>1. ASSUME NEW k \in Offered PROVE k \in offered
        BY <2>3, WholeCalls, StepOf DEF Done
      <3>2. QED BY <3>1 DEF IInv, RolesInv
    <2>8. "admin" \in facts /\ "supply" \in facts
      BY <2>3, WholeCalls, StepOf DEF Done
    <2>9. "registered" \in facts /\ "minted" \in facts
      BY <2>3, WholeCalls, StepOf DEF Done
    <2>10. "bin" \in disk
      BY <2>3, WholeCalls, StepOf DEF Done
    <2>11. faults = 0 => up \cup comms \subseteq dying
      BY <2>3 DEF KillsSent
    <2>12. QED BY <2>3, <2>4, <2>5, <2>6, <2>7, <2>8, <2>9, <2>10, <2>11
  <1>2. QED BY <1>1, SetupInvariant, PTL

\* valueOps gives up valueRegistrar only once ST Prime is registered, and its ownership
\* is offered only after that, whatever commands are typed, fail or are killed: only a
\* process that runs all steps gets there, and only if every call before went through.
THEOREM RolesGivenUpLastHolds == Spec => []RolesGivenUpLast
PROOF
  <1>1. IInv => RolesGivenUpLast
    BY DEF IInv, RolesInv, RolesGivenUpLast
  <1>2. QED BY <1>1, SetupInvariant, PTL

\* Nothing is deployed before both chains made two blocks, unless a geth that outlived
\* its stop has answered the checker: a deployment needs a key, keys are imported after
\* the checker, and the checker saw two different numbers.
THEOREM DeployedOnLiveChainsHolds == Spec => []DeployedOnLiveChains
PROOF
  <1>1. IInv => DeployedOnLiveChains
    BY DEF IInv, LiveInv, TwoBlocks, DeployedOnLiveChains
  <1>2. QED BY <1>1, SetupInvariant, PTL
=============================================================================
