------------------------------ MODULE EventLog ------------------------------
(***************************************************************************)
(* The chain an inter chain communicator scans, as far as a communicator   *)
(* can see it: a growing list of blocks, each of which may carry one event *)
(* of the watched contract, whose last blocks a reorganisation may take    *)
(* back.  The geth node is not part of the repository: this module is the  *)
(* environment that services/inter_comm/base.js talks to.                  *)
(*                                                                         *)
(* A block carries at most one watched event.  base.js never looks below   *)
(* the granularity of a block ("TODO: last processed transaction index"),  *)
(* and several events reach one handling window through several blocks.    *)
(***************************************************************************)
EXTENDS Integers

CONSTANTS
  Events,     \* the watched events (a declared staking intent, a proposal, ...)
  NoEvent,    \* what a block without a watched event carries
  MaxHeight,  \* bound: no block is mined above this height
  Finality    \* a block with this many blocks on top of it is never taken back

ASSUME EventLogAssumption ==
  /\ NoEvent \notin Events
  /\ MaxHeight \in Nat
  /\ Finality \in Nat

VARIABLES
  chain,   \* what each block carries
  height,  \* eth_blockNumber
  top      \* the largest height the chain ever had

logVars == <<chain, height, top>>

Blocks == 1..MaxHeight

LogTypeOK ==
  /\ chain \in [Blocks -> Events \cup {NoEvent}]
  /\ height \in 0..MaxHeight
  /\ top \in 0..MaxHeight

LogInit ==
  /\ chain = [b \in Blocks |-> NoEvent]
  /\ height = 0
  /\ top = 0

\* One more block; an event occurs at most once on the chain, but an event
\* whose block was taken back may be mined again.
Mine ==
  \E e \in Events \cup {NoEvent} :
    /\ height < MaxHeight
    /\ e \in Events => \A b \in Blocks : chain[b] # e
    /\ chain' = [chain EXCEPT ![height + 1] = e]
    /\ height' = height + 1
    /\ top' = IF height + 1 > top THEN height + 1 ELSE top

\* A reorganisation, or a node that lost its latest blocks in an unclean
\* stop: the blocks above h are gone.
Revert ==
  \E h \in 0..(height - 1) :
    /\ top <= h + Finality
    /\ chain' = [b \in Blocks |-> IF b > h THEN NoEvent ELSE chain[b]]
    /\ height' = h
    /\ UNCHANGED top

LogNext == Mine \/ Revert

\* The events of the blocks from..to, with the block each of them is in.
EventsIn(from, to) ==
  {w \in Blocks \X Events : from <= w[1] /\ w[1] <= to /\ chain[w[1]] = w[2]}
=============================================================================
