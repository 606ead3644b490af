------------------------------ MODULE Intercom ------------------------------
(***************************************************************************)
(* services/inter_comm/base.js: the loop shared by the three communicators *)
(* that scan blocks (stake_and_mint, stake_and_mint_processor and          *)
(* register_branded_token).  A turn asks the node for its height, fetches  *)
(* the events of the window (checkpoint, height - Confirmations], hands    *)
(* them to the handler of the subclass, one at a time or overlapping, and  *)
(* writes the end of the window to the checkpoint file.  The file is all   *)
(* that survives the process.                                              *)
(***************************************************************************)
EXTENDS EventLog

CONSTANTS
  Confirmations,  \* the 6 of checkForFurtherEvents
  Parallel,       \* parallelProcessingAllowed()
  TornWrites,     \* may a write of the checkpoint file be cut short?
  Torn,           \* what is then in the file: no JSON document
  MaxCrashes      \* bound: the process is killed at most this often

ASSUME IntercomAssumption ==
  /\ Confirmations \in Nat
  /\ Parallel \in BOOLEAN
  /\ TornWrites \in BOOLEAN
  /\ Torn \notin Int
  /\ MaxCrashes \in Nat

\* No reorganisation reaches below the confirmations the loop waits for.
ASSUME ConfirmedIsFinal == Finality <= Confirmations

VARIABLES
  pc,           \* where the loop is waiting
  lastProcessed,\* snmData.lastProcessedBlock
  fromBlock,
  toBlock,
  interrupted,  \* interruptSignalObtained
  pending,      \* events of the window whose handler was not yet called
  inflight,     \* events whose handler's promise has not settled
  file,         \* lastProcessedBlock in the checkpoint file
  crashes,
  started,      \* history: the events a handler was ever called for
  settled       \* history: ... and whose promise settled, resolved or rejected

memVars  == <<lastProcessed, fromBlock, toBlock, interrupted, pending, inflight>>
histVars == <<started, settled>>
vars     == <<logVars, pc, memVars, file, crashes, histVars>>

PC == {"down",    \* no process
       "height",  \* awaiting getChainHighestBlock
       "logs",    \* awaiting getPastEvents
       "handle",  \* awaiting the handlers
       "idle",    \* the timer of schedule is set
       "reinit"}  \* the timer of reInit is set

Occurrences == Blocks \X Events

TypeOK ==
  /\ LogTypeOK
  /\ pc \in PC
  /\ lastProcessed \in Nat
  /\ fromBlock \in Nat
  /\ toBlock \in Int
  /\ interrupted \in BOOLEAN
  /\ pending \subseteq Occurrences
  /\ inflight \subseteq Occurrences
  /\ file \in Nat \cup {Torn}
  /\ crashes \in 0..MaxCrashes
  /\ started \subseteq Occurrences
  /\ settled \subseteq Occurrences

Init ==
  /\ LogInit
  /\ pc = "down"
  /\ lastProcessed = 0 /\ fromBlock = 0 /\ toBlock = 0
  /\ interrupted = FALSE
  /\ pending = {} /\ inflight = {}
  /\ file = 0
  /\ crashes = 0
  /\ started = {} /\ settled = {}

-----------------------------------------------------------------------------
(* The process ends, by process.exit or by a kill: its memory is gone.     *)
Exit ==
  /\ pc' = "down"
  /\ lastProcessed' = 0 /\ fromBlock' = 0 /\ toBlock' = 0
  /\ interrupted' = FALSE
  /\ pending' = {} /\ inflight' = {}

\* The executable: constructor, registerInterruptSignalHandlers, init.  With
\* an unreadable file JSON.parse throws and there is no process.
Boot ==
  /\ pc = "down"
  /\ file # Torn
  /\ pc' = "height"
  /\ lastProcessed' = file
  /\ UNCHANGED <<logVars, fromBlock, toBlock, interrupted, pending, inflight,
                 file, crashes, histVars>>

\* The timer of reInit fires: init reads the file again.  Here a JSON.parse
\* that throws is an uncaught exception and ends the process.
ReInit ==
  /\ pc = "reinit"
  /\ \/ /\ file # Torn
        /\ pc' = "height"
        /\ lastProcessed' = file
        /\ UNCHANGED <<fromBlock, toBlock, interrupted, pending, inflight>>
     \/ file = Torn /\ Exit
  /\ UNCHANGED <<logVars, file, crashes, histVars>>

\* The timer of schedule fires.
Tick ==
  /\ pc = "idle"
  /\ pc' = "height"
  /\ UNCHANGED <<logVars, memVars, file, crashes, histVars>>

\* The catch block of checkForFurtherEvents.
Catch ==
  \/ interrupted /\ Exit
  \/ /\ ~interrupted
     /\ pc' = "reinit"
     /\ UNCHANGED memVars

\* The window of a turn: from the block after the checkpoint (66) to the
\* last one with enough blocks on top of it (67).
MutantSkipsABlock == lastProcessed + 2
WindowStart == lastProcessed + 1

MutantTooEarly == height - Confirmations + 1
WindowEnd == height - Confirmations

\* getChainHighestBlock answers.  The early return is never taken: it
\* compares with oThis.lastProcessedBlock, which nothing ever sets.
GetHeight ==
  /\ pc = "height"
  /\ fromBlock' = WindowStart
  /\ toBlock' = WindowEnd
  /\ pc' = "logs"
  /\ UNCHANGED <<logVars, lastProcessed, interrupted, pending, inflight,
                 file, crashes, histVars>>

\* A request to the node is rejected; a negative block number always is.
RpcFails ==
  /\ pc \in {"height", "logs"}
  /\ Catch
  /\ UNCHANGED <<logVars, file, crashes, histVars>>

\* The awaits of processEventsArray are over: each event's one (147) or the
\* Promise.all (156).
MutantFireAndForget == pending = {}
AllSettled == pending = {} /\ inflight = {}

\* updateIntercomDataFile, and what follows it: the process exits when it
\* was interrupted, else schedule sets the timer for the next turn.
SaveCheckpoint ==
  /\ file' = toBlock
  /\ \/ interrupted /\ Exit
     \/ /\ ~interrupted
        /\ pc' = "idle"
        /\ lastProcessed' = toBlock
        /\ pending' = {} /\ inflight' = {}
        /\ UNCHANGED <<fromBlock, toBlock, interrupted>>

\* getPastEvents answers with the window's events: with none of them the
\* window is closed at once, else the handlers are lined up.
GetLogs ==
  /\ pc = "logs"
  /\ toBlock >= 0
  /\ LET window == EventsIn(fromBlock, toBlock) IN
       \/ /\ window = {}
          /\ SaveCheckpoint
       \/ /\ window # {}
          /\ pc' = "handle"
          /\ pending' = window
          /\ UNCHANGED <<lastProcessed, fromBlock, toBlock, interrupted,
                         inflight, file>>
  /\ UNCHANGED <<logVars, crashes, histVars>>

\* The handlers are called in the order of the window, each when the one before
\* has settled unless they may overlap.
MutantAnyOrder(w) == Parallel \/ inflight = {}
MayStart(w) ==
  /\ \A v \in pending : w[1] <= v[1]
  /\ Parallel \/ inflight = {}

\* processEventObj is called for the next event of the window, in the
\* order of the window: one after the other is awaited, or a timer per event
\* (j * 1000 + 100 ms) starts them one after the other without waiting.
StartHandler ==
  \E w \in pending :
    /\ pc = "handle"
    /\ MayStart(w)
    /\ pending' = pending \ {w}
    /\ inflight' = inflight \cup {w}
    /\ started' = started \cup {w}
    /\ UNCHANGED <<logVars, pc, lastProcessed, fromBlock, toBlock, interrupted,
                   file, crashes, settled>>

\* A handler's promise settles, resolved or rejected: a rejection is caught and
\* logged, and the event counts as handled all the same.
SettleHandler ==
  \E w \in inflight :
    /\ inflight' = inflight \ {w}
    /\ settled' = settled \cup {w}
    /\ UNCHANGED <<logVars, pc, lastProcessed, fromBlock, toBlock, interrupted,
                   pending, file, crashes, started>>

\* The last handler of the window has settled.
FinishWindow ==
  /\ pc = "handle"
  /\ AllSettled
  /\ SaveCheckpoint
  /\ UNCHANGED <<logVars, crashes, histVars>>

\* writeFileSync throws (no space, no permission).  The file was opened for
\* writing in place, which empties it first.  snmData has changed already, but
\* reInit reads it again before it is used.
SaveFails ==
  /\ \/ pc = "handle" /\ AllSettled
     \/ pc = "logs" /\ toBlock >= 0 /\ EventsIn(fromBlock, toBlock) = {}
  /\ file' = file \/ (TornWrites /\ file' = Torn)
  /\ Catch
  /\ UNCHANGED <<logVars, crashes, histVars>>

\* SIGINT or SIGTERM only leaves a mark.
Interrupt ==
  /\ pc # "down"
  /\ interrupted' = TRUE
  /\ UNCHANGED <<logVars, pc, lastProcessed, fromBlock, toBlock, pending,
                 inflight, file, crashes, histVars>>

\* The process is killed, or the machine stops: a write under way may be cut.
Crash ==
  /\ pc # "down"
  /\ crashes < MaxCrashes
  /\ crashes' = crashes + 1
  /\ file' = file
       \/ (TornWrites /\ pc = "handle" /\ AllSettled /\ file' = Torn)
  /\ Exit
  /\ UNCHANGED <<logVars, histVars>>

Environment ==
  LogNext /\ UNCHANGED <<pc, memVars, file, crashes, histVars>>

Next ==
  \/ Environment
  \/ Boot
  \/ ReInit
  \/ Tick
  \/ GetHeight
  \/ RpcFails
  \/ GetLogs
  \/ StartHandler
  \/ SettleHandler
  \/ FinishWindow
  \/ SaveFails
  \/ Interrupt
  \/ Crash

Spec == Init /\ [][Next]_vars

\* Timers fire, a handler's promise settles, every request to the node is
\* answered and, if repeated for ever, answered well, the file can be written
\* again and again, and whoever runs the communicators starts a stopped one.
Fairness ==
  /\ WF_vars(Boot)
  /\ WF_vars(ReInit)
  /\ WF_vars(Tick)
  /\ WF_vars(GetLogs \/ RpcFails)
  /\ SF_vars(GetHeight)
  /\ SF_vars(GetLogs)
  /\ WF_vars(StartHandler)
  /\ WF_vars(SettleHandler)
  /\ SF_vars(FinishWindow)

FairSpec == Spec /\ Fairness

-----------------------------------------------------------------------------
(* What the loop must guarantee.                                           *)

\* Every event at or below a block number has been handled to the end.
Covered(n) == EventsIn(1, n) \subseteq settled

\* The checkpoint never runs ahead of the handlers: whatever crashes, signals
\* and failures came in between, no event at or below the block number in the
\* file (updateIntercomDataFile) is one no handler was run to the end for.
NoEventSkipped == file # Torn => Covered(file)

\* A handler is only ever called for an event that stays on the chain: what
\* the Confirmations blocks of line 67 are for.
OnlyFinalEventsHandled == \A w \in started : chain[w[1]] = w[2]

\* A handler is called for an event the first time only when the handlers of
\* all earlier events of the chain were called before it, and, in the
\* sequential mode, had settled: across windows, failures and restarts.
InOrder ==
  [][\A w \in started' \ started :
       EventsIn(1, w[1] - 1) \subseteq IF Parallel THEN started ELSE settled]_vars

\* A process that was told to stop leaves no event of its window behind half
\* handled ("The current processing is completed and then the process stops
\* gracefully", CHANGELOG.md:36).
GracefulStop ==
  [][(pc = "handle" /\ pc' = "down" /\ UNCHANGED crashes) =>
       inflight = {} /\ EventsIn(fromBlock, toBlock) \subseteq settled]_vars

\* Every event that is deep enough below the highest block is handled to the
\* end, sooner or later.
FinalEventsHandled ==
  \A w \in Occurrences :
    (w \in EventsIn(1, top - Finality - Confirmations)) ~> (w \in settled)

\* The loop is an implementation of EventFeed, an event counting as handed over
\* when its handler is called the first time: order, finality and the absence
\* of gaps survive the windows, the checkpoint file and the failures.
Feed == INSTANCE EventFeed WITH delivered <- started

ImplementsFeed == Feed!FeedSpec

-----------------------------------------------------------------------------
(* Why NoEventSkipped, OnlyFinalEventsHandled and InOrder hold: the part of *)
(* the chain a checkpoint or a window speaks of is final, and each event of *)
(* the window is waiting, in flight or settled.                             *)
Final(n) == n = 0 \/ n + Confirmations <= top

ChainInv == height <= top /\ top <= height + Finality

CheckpointInv ==
  /\ file # Torn => Final(file) /\ Covered(file)
  /\ Final(lastProcessed) /\ Covered(lastProcessed)

WindowInv ==
  /\ pc \in {"logs", "handle"} => /\ fromBlock = lastProcessed + 1
                                 /\ toBlock + Confirmations <= top
  /\ pc = "handle" =>
       /\ toBlock >= 0
       /\ EventsIn(fromBlock, toBlock) \subseteq pending \cup inflight \cup settled
  /\ pc # "handle" => pending = {} /\ inflight = {}
  /\ pending \cup inflight \subseteq EventsIn(fromBlock, toBlock)

HistoryInv ==
  /\ inflight \cup settled \subseteq started
  /\ \A w \in started : Final(w[1]) /\ chain[w[1]] = w[2]

IInv == TypeOK /\ ChainInv /\ CheckpointInv /\ WindowInv /\ HistoryInv
=============================================================================
