----------------------------- MODULE EventFeed ------------------------------
(***************************************************************************)
(* What a block scanning communicator promises its handlers, without its   *)
(* process, its checkpoint file or its crashes: the events of the chain    *)
(* are handed over in the order of the chain, each only when it is final,  *)
(* and none before every earlier one was.  An event may be handed over     *)
(* again, which is a stuttering step here.                                 *)
(***************************************************************************)
EXTENDS EventLog

CONSTANT Confirmations  \* blocks that must be on top of an event's block

VARIABLE delivered  \* the events handed over, with their blocks

feedVars == <<logVars, delivered>>

FeedInit == LogInit /\ delivered = {}

Deliver ==
  \E w \in EventsIn(1, MaxHeight) :
    /\ w[1] + Confirmations <= top
    /\ EventsIn(1, w[1] - 1) \subseteq delivered
    /\ delivered' = delivered \cup {w}
    /\ UNCHANGED logVars

FeedNext ==
  \/ LogNext /\ UNCHANGED delivered
  \/ Deliver

FeedSpec == FeedInit /\ [][FeedNext]_feedVars
=============================================================================
