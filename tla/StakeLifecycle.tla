--------------------------- MODULE StakeLifecycle ---------------------------
(***************************************************************************)
(* What stake and mint promises for a stake, whichever processes carry it  *)
(* through and however often they are restarted: tokens are minted on the  *)
(* utility chain only for a stake that is locked on the value chain and    *)
(* was confirmed, once, and only minted tokens are claimed.                *)
(***************************************************************************)
CONSTANT Intents  \* the staking intent hashes

VARIABLES
  locked,     \* stakes locked for good on the value chain (processStaking)
  announced,  \* intents known to the utility chain (confirmStakingIntent)
  minted,     \* intents tokens were minted for (processMinting)
  paid        \* intents whose tokens the beneficiary has (claim)

lifecycleVars == <<locked, announced, minted, paid>>

LifecycleInit ==
  locked = {} /\ announced = {} /\ minted = {} /\ paid = {}

Announce(i) ==
  /\ i \notin announced
  /\ announced' = announced \cup {i}
  /\ UNCHANGED <<locked, minted, paid>>

Lock(i) ==
  /\ i \in announced \ locked
  /\ locked' = locked \cup {i}
  /\ UNCHANGED <<announced, minted, paid>>

Mint(i) ==
  /\ i \in locked \ minted
  /\ minted' = minted \cup {i}
  /\ UNCHANGED <<locked, announced, paid>>

\* A claim pays out everything minted for one beneficiary.
Pay ==
  /\ paid' \in SUBSET minted
  /\ paid \subseteq paid'
  /\ UNCHANGED <<locked, announced, minted>>

LifecycleNext ==
  \/ \E i \in Intents : Announce(i) \/ Lock(i) \/ Mint(i)
  \/ Pay

LifecycleSpec == LifecycleInit /\ [][LifecycleNext]_lifecycleVars
=============================================================================
