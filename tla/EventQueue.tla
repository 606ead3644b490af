----------------------------- MODULE EventQueue -----------------------------
(***************************************************************************)
(* lib/web3/events/queue_manager.js and processor.js: the in-memory queue  *)
(* of the two redeem-and-unstake communicators.  A websocket subscription  *)
(* announces an event log and may take it back; each announced event gets  *)
(* an EventProcessor object that waits out a delay, runs the processor of  *)
(* the communicator once and leaves the queue.                             *)
(*                                                                         *)
(* The subscription (geth and web3) is not part of the repository; it is   *)
(* seen through its 'data' and 'changed' callbacks, Data and Changed, and  *)
(* a log counts as on or off the chain from the moment of the callback.    *)
(***************************************************************************)
EXTENDS Integers, FiniteSets

CONSTANTS
  Ids,         \* ids of event logs
  Handlers,    \* bound: the EventProcessor objects ever created
  None,        \* JavaScript's null
  MaxNotes,    \* bound: what the node announces and takes back
  MaxCrashes   \* bound: kills of the process

ASSUME EventQueueAssumption ==
  /\ None \notin Ids \cup Handlers
  /\ IsFiniteSet(Handlers)
  /\ MaxNotes \in Nat
  /\ MaxCrashes \in Nat

VARIABLES
  onChain,      \* the logs of the canonical chain
  notes,        \* how often that changed or was repeated
  up,           \* the communicator runs and is subscribed
  crashes,
  handlerQueue, \* event id -> EventProcessor or null
  owner,        \* per object: the id it was created for, None before that
  alive,        \* per object: eventObj # null
  isScheduled,  \* per object
  hasCallback,  \* per object: onProcessCallback # null
  timerSet,     \* per object: a timer of scheduleProcessing is running
  runs,         \* per object: calls of the processor that have not settled
  known,        \* history: the last notification received per event
  starts,       \* history: how often the processor was called per event
  again,        \* history: announcements per event after its first start
  stranded      \* history: the events with a timer whose object the end of
                \* another run has taken out of the queue or emptied

nodeVars == <<onChain, notes>>
objVars  == <<owner, alive, isScheduled, hasCallback, timerSet, runs>>
histVars == <<known, starts, again, stranded>>
vars     == <<nodeVars, up, crashes, handlerQueue, objVars, histVars>>

TypeOK ==
  /\ onChain \in [Ids -> BOOLEAN]
  /\ notes \in 0..MaxNotes
  /\ up \in BOOLEAN
  /\ crashes \in 0..MaxCrashes
  /\ handlerQueue \in [Ids -> Handlers \cup {None}]
  /\ owner \in [Handlers -> Ids \cup {None}]
  /\ alive \in [Handlers -> BOOLEAN]
  /\ isScheduled \in [Handlers -> BOOLEAN]
  /\ hasCallback \in [Handlers -> BOOLEAN]
  /\ timerSet \in [Handlers -> BOOLEAN]
  /\ runs \in [Handlers -> Nat]
  /\ known \in [Ids -> {"none", "data", "removed"}]
  /\ starts \in [Ids -> Nat]
  /\ again \in [Ids -> Nat]
  /\ stranded \subseteq Ids

NoObject(v) == [h \in Handlers |-> v]

Init ==
  /\ onChain = [i \in Ids |-> FALSE]
  /\ notes = 0
  /\ up = TRUE /\ crashes = 0
  /\ handlerQueue = [i \in Ids |-> None]
  /\ owner = NoObject(None)
  /\ alive = NoObject(FALSE) /\ hasCallback = NoObject(FALSE)
  /\ isScheduled = NoObject(FALSE) /\ timerSet = NoObject(FALSE)
  /\ runs = NoObject(0)
  /\ known = [i \in Ids |-> "none"]
  /\ starts = [i \in Ids |-> 0] /\ again = [i \in Ids |-> 0]
  /\ stranded = {}

-----------------------------------------------------------------------------
(* addEditEventInQueue for an event that is not removed.                   *)

\* queueIntent: a new object, its callback, its timer.
QueueIntent(i) ==
  \E h \in Handlers :
    /\ handlerQueue[i] = None
    /\ owner[h] = None
    /\ owner' = [owner EXCEPT ![h] = i]
    /\ alive' = [alive EXCEPT ![h] = TRUE]
    /\ hasCallback' = [hasCallback EXCEPT ![h] = TRUE]
    /\ isScheduled' = [isScheduled EXCEPT ![h] = TRUE]
    /\ timerSet' = [timerSet EXCEPT ![h] = TRUE]
    /\ handlerQueue' = [handlerQueue EXCEPT ![i] = h]
    /\ UNCHANGED runs

MutantOnlyCancels(i) ==
  LET h == handlerQueue[i] IN
    /\ h # None
    /\ isScheduled' = [isScheduled EXCEPT ![h] = FALSE]
    /\ timerSet' = [timerSet EXCEPT ![h] = FALSE]
    /\ UNCHANGED <<owner, alive, hasCallback, runs, handlerQueue>>

\* updateIntent: cancelProcessing, setEventData, scheduleProcessing.  The two
\* flags end up true whatever they were: cancelProcessing clears isScheduled,
\* and a timer that is still running is replaced by the new one.
UpdateIntent(i) ==
  LET h == handlerQueue[i] IN
    /\ h # None
    /\ alive' = [alive EXCEPT ![h] = TRUE]
    /\ isScheduled' = [isScheduled EXCEPT ![h] = TRUE]
    /\ timerSet' = [timerSet EXCEPT ![h] = TRUE]
    /\ UNCHANGED <<owner, hasCallback, runs, handlerQueue>>

(* addEditEventInQueue for a removed event.                                *)

\* cancelProcessing: only a processing that is scheduled is cancelled; one
\* that has begun has no running timer left to clear.
MutantKeepsTimer(h) ==
  /\ isScheduled' = [isScheduled EXCEPT ![h] = FALSE]
  /\ UNCHANGED timerSet
CancelProcessing(h) ==
  IF isScheduled[h]
  THEN /\ timerSet' = [timerSet EXCEPT ![h] = FALSE]
       /\ isScheduled' = [isScheduled EXCEPT ![h] = FALSE]
  ELSE UNCHANGED <<timerSet, isScheduled>>

\* removeIntent: cancelProcessing and dequeueIntent.
RemoveIntent(i) ==
  /\ handlerQueue[i] # None
  /\ CancelProcessing(handlerQueue[i])
  /\ handlerQueue' = [handlerQueue EXCEPT ![i] = None]
  /\ UNCHANGED <<owner, alive, hasCallback, runs>>

\* An event that is not queued: nothing to do.
IgnoreRemoval(i) ==
  /\ handlerQueue[i] = None
  /\ UNCHANGED <<handlerQueue, objVars>>

-----------------------------------------------------------------------------
(* The subscription.                                                       *)
Note(i, present) ==
  /\ notes < MaxNotes
  /\ notes' = notes + 1
  /\ onChain' = [onChain EXCEPT ![i] = present]
  /\ UNCHANGED <<up, crashes, starts, stranded>>

\* The 'data' callback: the log joins the canonical chain, for the first time
\* or again, or is only announced once more, at any time.
Data(i) ==
  /\ up
  /\ Note(i, TRUE)
  /\ known' = [known EXCEPT ![i] = "data"]
  /\ again' = IF starts[i] > 0 THEN [again EXCEPT ![i] = @ + 1] ELSE again
  /\ QueueIntent(i) \/ UpdateIntent(i)

\* The 'changed' callback: a reorganisation takes the log back.
Changed(i) ==
  /\ up
  /\ onChain[i]
  /\ Note(i, FALSE)
  /\ known' = [known EXCEPT ![i] = "removed"]
  /\ UNCHANGED again
  /\ RemoveIntent(i) \/ IgnoreRemoval(i)

\* No subscription, no callback.
Unheard(i) ==
  /\ ~up
  /\ Note(i, ~onChain[i])
  /\ UNCHANGED <<handlerQueue, objVars, known, again>>

-----------------------------------------------------------------------------
(* The process dies: queue, objects, timers and subscription are gone.     *)
Die ==
  /\ up' = FALSE
  /\ handlerQueue' = [i \in Ids |-> None]
  /\ owner' = NoObject(None)
  /\ alive' = NoObject(FALSE) /\ hasCallback' = NoObject(FALSE)
  /\ isScheduled' = NoObject(FALSE) /\ timerSet' = NoObject(FALSE)
  /\ runs' = NoObject(0)
  /\ stranded' = {}
  /\ UNCHANGED <<onChain, notes, known, starts, again>>

\* The timer of scheduleProcessing fires and the processor is called.  With
\* eventObj null, getEventDescription throws inside the timer, which nothing
\* catches.
TimerFires(h) ==
  /\ timerSet[h]
  /\ \/ /\ alive[h]
        /\ timerSet' = [timerSet EXCEPT ![h] = FALSE]
        /\ runs' = [runs EXCEPT ![h] = @ + 1]
        /\ starts' = [starts EXCEPT ![owner[h]] = @ + 1]
        /\ UNCHANGED <<nodeVars, up, handlerQueue, owner, alive, isScheduled,
                       hasCallback, known, again, stranded>>
     \/ ~alive[h] /\ Die
  /\ UNCHANGED crashes

\* dequeueIntent, through onProcessCallback: by the id, whatever object is
\* there now.
MutantNeverDequeues(h) == UNCHANGED handlerQueue
Dequeue(h) ==
  IF hasCallback[h]
  THEN handlerQueue' = [handlerQueue EXCEPT ![owner[h]] = None]
  ELSE UNCHANGED handlerQueue

\* The object of a timer is queued for its event and holds its data; the end of
\* a run of h breaks that for the timers that h has itself (eventObj is now null)
\* and, when h still has its callback, for every other timer of the same event.
CutOff(h) ==
  {i \in {owner[h]} : \E g \in Handlers :
     timerSet[g] /\ owner[g] = i /\ (g = h \/ hasCallback[h])}

\* The promise of the processor settles, well or not: triggerProcessCallback.
Processed(h) ==
  /\ runs[h] > 0
  /\ runs' = [runs EXCEPT ![h] = @ - 1]
  /\ isScheduled' = [isScheduled EXCEPT ![h] = FALSE]
  /\ Dequeue(h)
  /\ alive' = [alive EXCEPT ![h] = FALSE]
  /\ hasCallback' = [hasCallback EXCEPT ![h] = FALSE]
  /\ stranded' = stranded \cup CutOff(h)
  /\ UNCHANGED <<nodeVars, up, crashes, owner, timerSet, known, starts, again>>

Crash ==
  /\ up
  /\ crashes < MaxCrashes
  /\ crashes' = crashes + 1
  /\ Die

\* The executable starts again and subscribes to what comes from now on.
Restart ==
  /\ ~up
  /\ up' = TRUE
  /\ UNCHANGED <<nodeVars, crashes, handlerQueue, objVars, histVars>>

Next ==
  \/ \E i \in Ids : Data(i) \/ Changed(i) \/ Unheard(i)
  \/ \E h \in Handlers : TimerFires(h) \/ Processed(h)
  \/ Crash
  \/ Restart

Spec == Init /\ [][Next]_vars

\* Timers fire, the processor's promise settles and a dead communicator is
\* started again; the node owes nothing.
Fairness ==
  /\ \A h \in Handlers : WF_vars(TimerFires(h)) /\ WF_vars(Processed(h))
  /\ WF_vars(Restart)

FairSpec == Spec /\ Fairness

-----------------------------------------------------------------------------
\* The processor is not called for an event whose removal was received (and
\* not taken back since): that is what cancelProcessing in removeIntent is for.
\* The one way past it is a timer that the end of an earlier run has cut off
\* from the queue (queue_manager.js:193 dequeues by the id of the event).
RemovedNotStarted ==
  [][\A i \in Ids : starts'[i] > starts[i] =>
       known[i] = "data" \/ i \in stranded]_vars

\* An update cancels the pending processing before it schedules a new one, so
\* however often an event is announced, updated, removed and announced before
\* its processing begins, it is processed once, and once more at most for each
\* announcement that comes after that.
NoSpuriousRun == \A i \in Ids : starts[i] <= 1 + again[i]

\* A running timer can be found and cancelled through the queue, unless the end
\* of a run has cut it off; and that takes an announcement after the processing
\* began.
TimerCancellable ==
  /\ \A h \in Handlers : timerSet[h] /\ owner[h] \notin stranded =>
       handlerQueue[owner[h]] = h /\ isScheduled[h]
  /\ \A i \in stranded : again[i] > 0

\* A processing that is scheduled for a queued event takes place, the first or
\* a further one, unless the event is taken back or the process dies: its timer
\* is not lost among updates, removals and the ends of other runs.
QueuedEventStarted ==
  \A i \in Ids, n \in 0..MaxNotes :
    (onChain[i] /\ handlerQueue[i] # None /\ timerSet[handlerQueue[i]] /\ starts[i] = n)
      ~> (starts[i] > n \/ ~onChain[i] \/ ~up)

-----------------------------------------------------------------------------
(* Why these hold: an object with a timer that is not cut off is the one in *)
(* the queue, and its event is on the chain as far as the process knows; a  *)
(* timer is a start to come, and before the first start no event has two.   *)
TimerInv ==
  \A h \in Handlers : timerSet[h] =>
    /\ owner[h] \in Ids
    /\ owner[h] \notin stranded =>
         /\ isScheduled[h]
         /\ handlerQueue[owner[h]] = h
         /\ known[owner[h]] = "data"

RunInv ==
  \A h \in Handlers : runs[h] > 0 =>
    owner[h] \in Ids /\ starts[owner[h]] > 0

QueueInv ==
  \A i \in Ids : handlerQueue[i] # None =>
    /\ owner[handlerQueue[i]] = i
    /\ alive[handlerQueue[i]] /\ hasCallback[handlerQueue[i]]

Timers(i) == {h \in Handlers : timerSet[h] /\ owner[h] = i}

CountInv ==
  \A i \in Ids : starts[i] + Cardinality(Timers(i)) <= 1 + again[i]

StrandedInv == \A i \in stranded : starts[i] > 0 /\ again[i] > 0

IInv == TypeOK /\ TimerInv /\ RunInv /\ QueueInv /\ CountInv /\ StrandedInv
=============================================================================
