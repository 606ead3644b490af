------------------------- MODULE EventQueue_proofs --------------------------
(***************************************************************************)
(* Proofs about EventQueue, for any number of events, objects, repeated    *)
(* announcements, reorganised logs and kills: an event is processed once   *)
(* and once more at most per announcement after that, and a removed event  *)
(* only through a timer that the end of an earlier run has cut off.        *)
(***************************************************************************)
EXTENDS EventQueue, FiniteSetTheorems, TLAPS

\* The type facts the steps rest on.
LEMMA Types ==
  ASSUME TypeOK
  PROVE  /\ handlerQueue \in [Ids -> Handlers \cup {None}]
         /\ owner \in [Handlers -> Ids \cup {None}]
         /\ alive \in [Handlers -> BOOLEAN]
         /\ isScheduled \in [Handlers -> BOOLEAN]
         /\ hasCallback \in [Handlers -> BOOLEAN]
         /\ timerSet \in [Handlers -> BOOLEAN]
         /\ runs \in [Handlers -> Nat]
         /\ known \in [Ids -> {"none", "data", "removed"}]
         /\ starts \in [Ids -> Nat]
         /\ again \in [Ids -> Nat]
         /\ stranded \subseteq Ids
         /\ onChain \in [Ids -> BOOLEAN]
PROOF
  BY DEF TypeOK

\* JavaScript's null is no event and no object.
LEMMA NoneFresh == None \notin Ids /\ None \notin Handlers
PROOF
  BY EventQueueAssumption

LEMMA InitInv == Init => IInv
PROOF
  <1>1. SUFFICES ASSUME Init PROVE IInv
    OBVIOUS
  <1>2. TypeOK
    BY <1>1, EventQueueAssumption DEF Init, TypeOK, NoObject
  <1>3. TimerInv /\ RunInv /\ QueueInv /\ StrandedInv
    BY <1>1 DEF Init, NoObject, TimerInv, RunInv, QueueInv, StrandedInv
  <1>4. CountInv
    <2>1. \A i \in Ids : Timers(i) = {}
      BY <1>1 DEF Init, NoObject, Timers
    <2>2. QED BY <1>1, <2>1, FS_EmptySet DEF Init, CountInv
  <1>5. QED BY <1>2, <1>3, <1>4 DEF IInv

-----------------------------------------------------------------------------
(* The type invariant.                                                     *)

\* What a notification does to the variables of the node.
LEMMA NoteType ==
  ASSUME TypeOK, NEW i \in Ids, NEW present \in BOOLEAN, Note(i, present)
  PROVE  /\ notes' \in 0..MaxNotes
         /\ onChain' \in [Ids -> BOOLEAN]
         /\ up' \in BOOLEAN /\ crashes' \in 0..MaxCrashes
         /\ starts' = starts /\ starts' \in [Ids -> Nat]
         /\ stranded' = stranded /\ stranded' \subseteq Ids
PROOF
  <1>1. notes' \in 0..MaxNotes
    BY EventQueueAssumption DEF TypeOK, Note
  <1>2. onChain' \in [Ids -> BOOLEAN]
    BY Types DEF Note
  <1>3. up' = up /\ crashes' = crashes /\ starts' = starts /\ stranded' = stranded
    BY DEF Note
  <1>4. QED BY <1>1, <1>2, <1>3 DEF TypeOK

LEMMA DataType ==
  ASSUME TypeOK, NEW i \in Ids, Data(i)
  PROVE  TypeOK'
PROOF
  <1>1. Note(i, TRUE) /\ known' = [known EXCEPT ![i] = "data"]
    BY DEF Data
  <1>2. known' \in [Ids -> {"none", "data", "removed"}] /\ again' \in [Ids -> Nat]
    <2>1. again' = [again EXCEPT ![i] = again[i] + 1] \/ again' = again
      BY DEF Data
    <2>2. QED BY <1>1, <2>1, Types
  <1>3. CASE QueueIntent(i)
    <2>1. PICK h \in Handlers :
            /\ owner' = [owner EXCEPT ![h] = i]
            /\ alive' = [alive EXCEPT ![h] = TRUE]
            /\ hasCallback' = [hasCallback EXCEPT ![h] = TRUE]
            /\ isScheduled' = [isScheduled EXCEPT ![h] = TRUE]
            /\ timerSet' = [timerSet EXCEPT ![h] = TRUE]
            /\ handlerQueue' = [handlerQueue EXCEPT ![i] = h]
            /\ UNCHANGED runs
      BY <1>3 DEF QueueIntent
    <2>2. QED BY <1>1, <1>2, <2>1, NoteType, Types DEF TypeOK
  <1>4. CASE UpdateIntent(i)
    <2>1. handlerQueue[i] \in Handlers
      BY <1>4, Types DEF UpdateIntent
    <2>2. /\ alive' \in [Handlers -> BOOLEAN]
          /\ isScheduled' \in [Handlers -> BOOLEAN]
          /\ timerSet' \in [Handlers -> BOOLEAN]
      BY <1>4, <2>1, Types DEF UpdateIntent
    <2>3. QED BY <1>1, <1>2, <1>4, <2>2, NoteType DEF TypeOK, UpdateIntent
  <1>5. QED BY <1>3, <1>4 DEF Data

LEMMA ChangedType ==
  ASSUME TypeOK, NEW i \in Ids, Changed(i)
  PROVE  TypeOK'
PROOF
  <1>1. Note(i, FALSE) /\ known' = [known EXCEPT ![i] = "removed"]
    BY DEF Changed
  <1>2. known' \in [Ids -> {"none", "data", "removed"}] /\ again' \in [Ids -> Nat]
    BY <1>1, Types DEF Changed
  <1>3. CASE RemoveIntent(i)
    <2>1. handlerQueue[i] \in Handlers
      BY <1>3, Types DEF RemoveIntent
    <2>2. /\ timerSet' \in [Handlers -> BOOLEAN]
          /\ isScheduled' \in [Handlers -> BOOLEAN]
      BY <1>3, <2>1, Types DEF RemoveIntent, CancelProcessing
    <2>3. handlerQueue' \in [Ids -> Handlers \cup {None}]
      BY <1>3, Types DEF RemoveIntent
    <2>4. QED BY <1>1, <1>2, <1>3, <2>2, <2>3, NoteType DEF TypeOK, RemoveIntent
  <1>4. CASE IgnoreRemoval(i)
    BY <1>1, <1>2, <1>4, NoteType DEF TypeOK, IgnoreRemoval, objVars
  <1>5. QED BY <1>3, <1>4 DEF Changed

LEMMA DieType ==
  ASSUME TypeOK, Die, crashes' \in 0..MaxCrashes
  PROVE  TypeOK'
PROOF
  BY DEF TypeOK, Die, NoObject

LEMMA NextType == TypeOK /\ RunInv /\ [Next]_vars => TypeOK'
PROOF
  <1>1. SUFFICES ASSUME TypeOK, RunInv, [Next]_vars PROVE TypeOK'
    OBVIOUS
  <1>2. ASSUME NEW i \in Ids, Data(i) PROVE TypeOK'
    BY <1>1, <1>2, DataType
  <1>3. ASSUME NEW i \in Ids, Changed(i) PROVE TypeOK'
    BY <1>1, <1>3, ChangedType
  <1>4. ASSUME NEW i \in Ids, Unheard(i) PROVE TypeOK'
    <2>1. onChain[i] \in BOOLEAN
      BY <1>1, Types
    <2>2. (~onChain[i]) \in BOOLEAN
      OBVIOUS
    <2>3. QED BY <1>1, <1>4, <2>2, NoteType DEF TypeOK, Unheard, objVars
  <1>5. ASSUME NEW h \in Handlers, TimerFires(h) PROVE TypeOK'
    <2>1. crashes' \in 0..MaxCrashes
      BY <1>1, <1>5 DEF TypeOK, TimerFires
    <2>2. CASE Die
      BY <1>1, <2>1, <2>2, DieType
    <2>3. CASE ~Die
      <3>1. /\ timerSet' = [timerSet EXCEPT ![h] = FALSE]
            /\ runs' = [runs EXCEPT ![h] = runs[h] + 1]
            /\ starts' = [starts EXCEPT ![owner[h]] = starts[owner[h]] + 1]
            /\ UNCHANGED <<nodeVars, up, handlerQueue, owner, alive, isScheduled,
                           hasCallback, known, again, stranded>>
        BY <1>5, <2>3 DEF TimerFires
      <3>2. /\ timerSet' \in [Handlers -> BOOLEAN]
            /\ runs' \in [Handlers -> Nat]
        BY <1>1, <3>1, Types
      <3>3. starts' \in [Ids -> Nat]
        <4>1. starts \in [Ids -> Nat]
          BY <1>1, Types
        <4>2. CASE owner[h] \in Ids
          BY <3>1, <4>1, <4>2
        <4>3. CASE owner[h] \notin Ids
          BY <3>1, <4>1, <4>3
        <4>4. QED BY <4>2, <4>3
      <3>4. QED BY <1>1, <2>1, <3>1, <3>2, <3>3 DEF TypeOK, nodeVars
    <2>4. QED BY <2>2, <2>3
  <1>6. ASSUME NEW h \in Handlers, Processed(h) PROVE TypeOK'
    <2>1. /\ runs' \in [Handlers -> Nat]
          /\ isScheduled' \in [Handlers -> BOOLEAN]
          /\ alive' \in [Handlers -> BOOLEAN]
          /\ hasCallback' \in [Handlers -> BOOLEAN]
      BY <1>1, <1>6, Types DEF Processed
    <2>2. handlerQueue' \in [Ids -> Handlers \cup {None}]
      BY <1>1, <1>6, Types DEF Processed, Dequeue
    <2>3. stranded' \subseteq Ids
      <3>1. ASSUME NEW j \in CutOff(h) PROVE j \in Ids
        BY <3>1, <1>1, <1>6 DEF CutOff, Processed, RunInv
      <3>2. QED BY <1>1, <1>6, <3>1, Types DEF Processed
    <2>4. QED BY <1>1, <1>6, <2>1, <2>2, <2>3 DEF TypeOK, Processed, nodeVars
  <1>7. CASE Crash
    <2>1. crashes' \in 0..MaxCrashes
      BY <1>1, <1>7, EventQueueAssumption DEF TypeOK, Crash
    <2>2. QED BY <1>1, <1>7, <2>1, DieType DEF Crash
  <1>8. CASE Restart
    BY <1>1, <1>8 DEF TypeOK, Restart, nodeVars, objVars, histVars
  <1>9. CASE UNCHANGED vars
    BY <1>1, <1>9 DEF TypeOK, vars, nodeVars, objVars, histVars
  <1>10. QED
    BY <1>1, <1>2, <1>3, <1>4, <1>5, <1>6, <1>7, <1>8, <1>9 DEF Next

-----------------------------------------------------------------------------
(* Counting timers.                                                        *)

LEMMA Finite ==
  ASSUME NEW S \in SUBSET Handlers
  PROVE  IsFiniteSet(S) /\ Cardinality(S) \in Nat
PROOF
  <1>1. IsFiniteSet(S)
    BY EventQueueAssumption, FS_Subset
  <1>2. QED BY <1>1, FS_CardinalityType

LEMMA FewerCount ==
  ASSUME NEW S \in SUBSET Handlers, NEW T \in SUBSET S
  PROVE  Cardinality(T) <= Cardinality(S)
PROOF
  BY Finite, FS_Subset

LEMMA OneMoreCount ==
  ASSUME NEW S \in SUBSET Handlers, NEW h \in Handlers, NEW T \in SUBSET (S \cup {h})
  PROVE  Cardinality(T) <= Cardinality(S) + 1
PROOF
  <1>1. IsFiniteSet(S) /\ Cardinality(S) \in Nat
    BY Finite
  <1>2. IsFiniteSet(S \cup {h})
    BY <1>1, FS_AddElement
  <1>3. Cardinality(S \cup {h}) = IF h \in S THEN Cardinality(S) ELSE Cardinality(S) + 1
    BY <1>1, FS_AddElement
  <1>4. Cardinality(T) <= Cardinality(S \cup {h})
    BY <1>2, FS_Subset
  <1>5. Cardinality(T) \in Nat
    BY Finite
  <1>6. QED BY <1>1, <1>3, <1>4, <1>5

LEMMA OneLessCount ==
  ASSUME NEW S \in SUBSET Handlers, NEW h \in S, NEW T \in SUBSET (S \ {h})
  PROVE  Cardinality(T) + 1 <= Cardinality(S)
PROOF
  <1>1. IsFiniteSet(S) /\ Cardinality(S) \in Nat
    BY Finite
  <1>2. IsFiniteSet(S \ {h}) /\ Cardinality(S \ {h}) \in Nat
    BY Finite
  <1>3. Cardinality(S \ {h}) = Cardinality(S) - 1
    BY <1>1, FS_RemoveElement
  <1>4. Cardinality(T) <= Cardinality(S \ {h})
    BY <1>2, FS_Subset
  <1>5. Cardinality(T) \in Nat
    BY Finite
  <1>6. QED BY <1>1, <1>2, <1>3, <1>4, <1>5

LEMMA SingleCount ==
  ASSUME NEW h \in Handlers, NEW T \in SUBSET {h}
  PROVE  Cardinality(T) <= 1
PROOF
  <1>1. IsFiniteSet({h}) /\ Cardinality({h}) = 1
    BY FS_Singleton
  <1>2. QED BY <1>1, FS_Subset

\* The counts hold for events nothing starts, announces or sets a timer for.
LEMMA CountKept ==
  ASSUME IInv, NEW i \in Ids, NEW T \in SUBSET Timers(i)
  PROVE  starts[i] + Cardinality(T) <= 1 + again[i]
PROOF
  <1>1. Timers(i) \in SUBSET Handlers
    BY DEF Timers
  <1>2. T \in SUBSET Handlers
    BY <1>1
  <1>3. Cardinality(T) <= Cardinality(Timers(i))
    BY <1>1, FewerCount
  <1>4. Cardinality(T) \in Nat /\ Cardinality(Timers(i)) \in Nat
    BY <1>1, <1>2, Finite
  <1>5. starts[i] \in Nat /\ again[i] \in Nat
    BY Types DEF IInv
  <1>6. starts[i] + Cardinality(Timers(i)) <= 1 + again[i]
    BY DEF IInv, CountInv
  <1> HIDE DEF Timers
  <1>7. QED BY <1>3, <1>4, <1>5, <1>6

-----------------------------------------------------------------------------
(* The steps.  What a timer needs can only be disturbed for the event a    *)
(* step is about, and there only by the end of a run.                      *)

QueueFacts == TimerInv /\ RunInv /\ QueueInv /\ CountInv /\ StrandedInv

\* queueIntent and updateIntent leave the same behind: an object in the queue
\* with its data, its callback and a timer.
LEMMA DataObject ==
  ASSUME IInv, NEW i \in Ids, Data(i)
  PROVE  \E h \in Handlers :
           /\ handlerQueue[i] \in {None, h}
           /\ owner[h] \in {None, i}
           /\ handlerQueue' = [handlerQueue EXCEPT ![i] = h]
           /\ owner' = [owner EXCEPT ![h] = i]
           /\ alive' = [alive EXCEPT ![h] = TRUE]
           /\ hasCallback' = [hasCallback EXCEPT ![h] = TRUE]
           /\ isScheduled' = [isScheduled EXCEPT ![h] = TRUE]
           /\ timerSet' = [timerSet EXCEPT ![h] = TRUE]
           /\ runs' = runs
PROOF
  <1>1. CASE QueueIntent(i)
    BY <1>1 DEF QueueIntent
  <1>2. CASE UpdateIntent(i)
    <2> DEFINE h == handlerQueue[i]
    <2>1. /\ h \in Handlers
          /\ alive' = [alive EXCEPT ![h] = TRUE]
          /\ isScheduled' = [isScheduled EXCEPT ![h] = TRUE]
          /\ timerSet' = [timerSet EXCEPT ![h] = TRUE]
          /\ UNCHANGED <<owner, hasCallback, runs, handlerQueue>>
      BY <1>2, Types DEF IInv, UpdateIntent
    <2>2. owner[h] = i /\ hasCallback[h]
      BY <2>1, NoneFresh DEF IInv, QueueInv
    <2>3. /\ handlerQueue' = [handlerQueue EXCEPT ![i] = h]
          /\ owner' = [owner EXCEPT ![h] = i]
          /\ hasCallback' = [hasCallback EXCEPT ![h] = TRUE]
      BY <2>1, <2>2, Types DEF IInv
    <2>4. QED BY <2>1, <2>2, <2>3
  <1>3. QED BY <1>1, <1>2 DEF Data

LEMMA DataStep ==
  ASSUME IInv, NEW i \in Ids, Data(i)
  PROVE  QueueFacts'
PROOF
  <1>1. /\ starts' = starts /\ stranded' = stranded
        /\ known' = [known EXCEPT ![i] = "data"]
        /\ again' = IF starts[i] > 0 THEN [again EXCEPT ![i] = again[i] + 1] ELSE again
    BY DEF Data, Note
  <1>2. PICK h \in Handlers :
           /\ handlerQueue[i] \in {None, h}
           /\ owner[h] \in {None, i}
           /\ handlerQueue' = [handlerQueue EXCEPT ![i] = h]
           /\ owner' = [owner EXCEPT ![h] = i]
           /\ alive' = [alive EXCEPT ![h] = TRUE]
           /\ hasCallback' = [hasCallback EXCEPT ![h] = TRUE]
           /\ isScheduled' = [isScheduled EXCEPT ![h] = TRUE]
           /\ timerSet' = [timerSet EXCEPT ![h] = TRUE]
           /\ runs' = runs
    BY DataObject
  <1>3. \A g \in Handlers : timerSet[g] /\ g # h =>
          owner[g] \in Ids /\ (owner[g] # i \/ i \in stranded)
    BY <1>2, NoneFresh DEF IInv, TimerInv
  <1>4. TimerInv'
    <2>1. ASSUME NEW g \in Handlers, timerSet'[g]
          PROVE  /\ owner'[g] \in Ids
                 /\ owner'[g] \notin stranded' =>
                      /\ isScheduled'[g]
                      /\ handlerQueue'[owner'[g]] = g
                      /\ known'[owner'[g]] = "data"
      <3>1. CASE g = h
        BY <1>1, <1>2, <3>1, Types DEF IInv
      <3>2. CASE g # h
        <4>1. /\ timerSet[g] /\ owner'[g] = owner[g]
              /\ isScheduled'[g] = isScheduled[g]
          BY <1>2, <2>1, <3>2, Types DEF IInv
        <4>2. owner[g] \in Ids /\ (owner[g] # i \/ i \in stranded)
          BY <1>3, <3>2, <4>1
        <4>3. owner[g] # i => /\ handlerQueue'[owner[g]] = handlerQueue[owner[g]]
                              /\ known'[owner[g]] = known[owner[g]]
          BY <1>1, <1>2, <4>2, Types DEF IInv
        <4>4. QED BY <1>1, <4>1, <4>2, <4>3 DEF IInv, TimerInv
      <3>3. QED BY <3>1, <3>2
    <2>2. QED BY <2>1 DEF TimerInv
  <1>5. RunInv'
    BY <1>1, <1>2, Types, NoneFresh DEF IInv, RunInv
  <1>6. QueueInv'
    BY <1>2, Types, NoneFresh DEF IInv, QueueInv
  <1>7. StrandedInv'
    BY <1>1, Types DEF IInv, StrandedInv
  <1>8. CountInv'
    <2>1. ASSUME NEW j \in Ids, j # i
          PROVE  starts'[j] + Cardinality(Timers(j)') <= 1 + again'[j]
      <3>1. Timers(j)' \in SUBSET Timers(j)
        BY <1>2, <2>1, Types DEF IInv, Timers
      <3>2. again'[j] = again[j]
        BY <1>1, <2>1, Types DEF IInv
      <3>3. QED BY <1>1, <3>1, <3>2, CountKept
    <2>2. starts'[i] + Cardinality(Timers(i)') <= 1 + again'[i]
      <3> DEFINE S == Timers(i)
                 T == Timers(i)'
      <3>1. S \in SUBSET Handlers /\ T \in SUBSET Handlers
        BY DEF Timers
      <3>2. T \in SUBSET (S \cup {h})
        BY <1>2, Types DEF IInv, Timers
      <3>3. /\ starts[i] \in Nat /\ again[i] \in Nat
            /\ Cardinality(S) \in Nat /\ Cardinality(T) \in Nat
        BY <3>1, Finite, Types DEF IInv
      <3>4. starts[i] + Cardinality(S) <= 1 + again[i]
        BY DEF IInv, CountInv
      <3>5. CASE starts[i] > 0
        <4>1. again'[i] = again[i] + 1
          BY <1>1, <3>5, Types DEF IInv
        <4>2. Cardinality(T) <= Cardinality(S) + 1
          BY <3>1, <3>2, OneMoreCount
        <4> HIDE DEF S, T
        <4>3. starts'[i] + Cardinality(T) <= 1 + again'[i]
          BY <1>1, <3>3, <3>4, <4>1, <4>2
        <4>4. QED BY <4>3 DEF T
      <3>6. CASE ~(starts[i] > 0)
        <4>1. i \notin stranded
          BY <3>6 DEF IInv, StrandedInv
        <4>2. S \in SUBSET {h}
          BY <1>3, <4>1 DEF Timers
        <4>3. T \in SUBSET {h}
          BY <3>2, <4>2
        <4>4. Cardinality(T) <= 1
          BY <4>3, SingleCount
        <4> HIDE DEF S, T
        <4>5. starts'[i] + Cardinality(T) <= 1 + again'[i]
          BY <1>1, <3>3, <3>6, <4>4
        <4>6. QED BY <4>5 DEF T
      <3>7. QED BY <3>5, <3>6
    <2>3. QED BY <2>1, <2>2 DEF CountInv
  <1>9. QED BY <1>4, <1>5, <1>6, <1>7, <1>8 DEF QueueFacts

LEMMA ChangedStep ==
  ASSUME IInv, NEW i \in Ids, Changed(i)
  PROVE  QueueFacts'
PROOF
  <1>1. /\ starts' = starts /\ stranded' = stranded /\ again' = again
        /\ known' = [known EXCEPT ![i] = "removed"]
    BY DEF Changed, Note
  <1>2. StrandedInv'
    BY <1>1 DEF IInv, StrandedInv
  <1>3. CASE RemoveIntent(i)
    <2> DEFINE h == handlerQueue[i]
    <2>1. /\ h \in Handlers
          /\ handlerQueue' = [handlerQueue EXCEPT ![i] = None]
          /\ UNCHANGED <<owner, alive, hasCallback, runs>>
      BY <1>3, Types DEF IInv, RemoveIntent
    <2>2. owner[h] = i
      BY <2>1, NoneFresh DEF IInv, QueueInv
    <2>3. \A g \in Handlers :
            /\ timerSet'[g] => timerSet[g]
            /\ timerSet'[g] /\ g = h => ~isScheduled[g]
            /\ g # h => isScheduled'[g] = isScheduled[g]
      <3>1. CASE isScheduled[h]
        BY <1>3, <2>1, <3>1, Types DEF IInv, RemoveIntent, CancelProcessing
      <3>2. CASE ~isScheduled[h]
        BY <1>3, <2>1, <3>2, Types DEF IInv, RemoveIntent, CancelProcessing
      <3>3. QED BY <3>1, <3>2
    <2>4. TimerInv'
      <3>1. ASSUME NEW g \in Handlers, timerSet'[g]
            PROVE  /\ owner'[g] \in Ids
                   /\ owner'[g] \notin stranded' =>
                        /\ isScheduled'[g]
                        /\ handlerQueue'[owner'[g]] = g
                        /\ known'[owner'[g]] = "data"
        <4>1. /\ timerSet[g]
              /\ g = h => ~isScheduled[g]
              /\ g # h => isScheduled'[g] = isScheduled[g]
          BY <2>3, <3>1
        <4>2. /\ owner[g] \in Ids
              /\ owner[g] \notin stranded =>
                   /\ isScheduled[g]
                   /\ handlerQueue[owner[g]] = g
                   /\ known[owner[g]] = "data"
          BY <4>1 DEF IInv, TimerInv
        <4>3. owner[g] \notin stranded => g # h /\ owner[g] # i
          BY <4>1, <4>2
        <4>4. owner[g] # i => /\ handlerQueue'[owner[g]] = handlerQueue[owner[g]]
                              /\ known'[owner[g]] = known[owner[g]]
          BY <1>1, <2>1, <4>2, Types DEF IInv
        <4>5. QED BY <1>1, <2>1, <4>1, <4>2, <4>3, <4>4
      <3>2. QED BY <3>1 DEF TimerInv
    <2>5. RunInv'
      BY <1>1, <2>1 DEF IInv, RunInv
    <2>6. QueueInv'
      BY <2>1, Types DEF IInv, QueueInv
    <2>7. CountInv'
      <3>1. ASSUME NEW j \in Ids PROVE Timers(j)' \in SUBSET Timers(j)
        BY <2>1, <2>3 DEF Timers
      <3>2. QED BY <1>1, <3>1, CountKept DEF CountInv
    <2>8. QED BY <1>2, <2>4, <2>5, <2>6, <2>7 DEF QueueFacts
  <1>4. CASE IgnoreRemoval(i)
    <2>1. handlerQueue[i] = None /\ UNCHANGED <<handlerQueue, objVars>>
      BY <1>4 DEF IgnoreRemoval
    <2>2. \A h \in Handlers : timerSet[h] /\ owner[h] \notin stranded => owner[h] # i
      BY <2>1, NoneFresh DEF IInv, TimerInv
    <2>3. TimerInv'
      BY <1>1, <2>1, <2>2, Types DEF IInv, TimerInv, objVars
    <2>4. RunInv' /\ QueueInv'
      BY <1>1, <2>1 DEF IInv, RunInv, QueueInv, objVars
    <2>5. CountInv'
      <3>1. ASSUME NEW j \in Ids PROVE Timers(j)' \in SUBSET Timers(j)
        BY <2>1 DEF Timers, objVars
      <3>2. QED BY <1>1, <3>1, CountKept DEF CountInv
    <2>6. QED BY <1>2, <2>3, <2>4, <2>5 DEF QueueFacts
  <1>5. QED BY <1>3, <1>4 DEF Changed

LEMMA DieStep ==
  ASSUME IInv, Die
  PROVE  QueueFacts'
PROOF
  <1>1. TimerInv' /\ RunInv' /\ QueueInv' /\ StrandedInv'
    BY DEF Die, NoObject, TimerInv, RunInv, QueueInv, StrandedInv
  <1>2. CountInv'
    <2>1. ASSUME NEW j \in Ids PROVE Timers(j)' \in SUBSET Timers(j)
      BY DEF Timers, Die, NoObject
    <2>2. starts' = starts /\ again' = again
      BY DEF Die
    <2>3. QED BY <2>1, <2>2, CountKept DEF CountInv
  <1>3. QED BY <1>1, <1>2 DEF QueueFacts

\* A timer that fires is one timer less and one start more.
LEMMA TimerStep ==
  ASSUME IInv, NEW h \in Handlers, TimerFires(h)
  PROVE  QueueFacts'
PROOF
  <1>1. CASE Die
    BY <1>1, DieStep
  <1>2. CASE ~Die
    <2>1. PICK i \in Ids : i = owner[h]
      BY <1>2 DEF TimerFires, IInv, TimerInv
    <2>2. /\ timerSet[h]
          /\ timerSet' = [timerSet EXCEPT ![h] = FALSE]
          /\ runs' = [runs EXCEPT ![h] = runs[h] + 1]
          /\ starts' = [starts EXCEPT ![i] = starts[i] + 1]
          /\ UNCHANGED <<handlerQueue, owner, alive, isScheduled, hasCallback,
                         known, again, stranded>>
      BY <1>2, <2>1 DEF TimerFires
    <2>3. \A g \in Handlers : timerSet'[g] => timerSet[g] /\ g # h
      BY <2>2, Types DEF IInv
    <2>4. TimerInv'
      BY <2>2, <2>3 DEF IInv, TimerInv
    <2>5. /\ starts'[i] = starts[i] + 1
          /\ \A j \in Ids : starts[j] > 0 => starts'[j] > 0
          /\ \A j \in Ids : j # i => starts'[j] = starts[j]
      BY <2>1, <2>2, Types DEF IInv
    <2>6. RunInv'
      <3>1. ASSUME NEW g \in Handlers, runs'[g] > 0
            PROVE  owner'[g] \in Ids /\ starts'[owner'[g]] > 0
        <4>1. CASE g = h
          BY <2>1, <2>2, <2>5, <4>1, Types DEF IInv
        <4>2. CASE g # h
          <5>1. runs[g] > 0
            BY <2>2, <3>1, <4>2, Types DEF IInv
          <5>2. owner[g] \in Ids /\ starts[owner[g]] > 0
            BY <5>1 DEF IInv, RunInv
          <5>3. QED BY <2>2, <2>5, <5>2
        <4>3. QED BY <4>1, <4>2
      <3>2. QED BY <3>1 DEF RunInv
    <2>7. QueueInv'
      BY <2>2 DEF IInv, QueueInv
    <2>8. StrandedInv'
      BY <2>2, <2>5, Types DEF IInv, StrandedInv
    <2>9. CountInv'
      <3>1. ASSUME NEW j \in Ids, j # i
            PROVE  starts'[j] + Cardinality(Timers(j)') <= 1 + again'[j]
        <4>1. Timers(j)' \in SUBSET Timers(j)
          BY <2>2, <2>3 DEF Timers
        <4>2. QED BY <2>2, <2>5, <3>1, <4>1, CountKept
      <3>2. starts'[i] + Cardinality(Timers(i)') <= 1 + again'[i]
        <4> DEFINE S == Timers(i)
                   T == Timers(i)'
        <4>1. /\ S \in SUBSET Handlers /\ T \in SUBSET Handlers
              /\ h \in S /\ T \in SUBSET (S \ {h})
          BY <2>1, <2>2, <2>3 DEF Timers
        <4>2. /\ starts[i] \in Nat /\ again[i] \in Nat
              /\ Cardinality(S) \in Nat /\ Cardinality(T) \in Nat
          BY <2>1, <4>1, Finite, Types DEF IInv
        <4>3. starts[i] + Cardinality(S) <= 1 + again[i]
          BY <2>1 DEF IInv, CountInv
        <4>4. Cardinality(T) + 1 <= Cardinality(S)
          BY <4>1, OneLessCount
        <4> HIDE DEF S, T
        <4>5. starts'[i] + Cardinality(T) <= 1 + again'[i]
          BY <2>2, <2>5, <4>2, <4>3, <4>4
        <4>6. QED BY <4>5 DEF T
      <3>3. ASSUME NEW j \in Ids
            PROVE  starts'[j] + Cardinality(Timers(j)') <= 1 + again'[j]
        <4>1. CASE j = i
          BY <3>2, <4>1
        <4>2. CASE j # i
          BY <3>1, <4>2
        <4>3. QED BY <4>1, <4>2
      <3>4. QED BY <3>3 DEF CountInv
    <2>10. QED BY <2>4, <2>6, <2>7, <2>8, <2>9 DEF QueueFacts
  <1>3. QED BY <1>1, <1>2

\* An object that is through takes its event out of the queue, whatever object
\* is there: the timers of the event are cut off, all others are untouched.
LEMMA ProcessedStep ==
  ASSUME IInv, NEW h \in Handlers, Processed(h)
  PROVE  QueueFacts'
PROOF
  <1> DEFINE i == owner[h]
  <1>1. /\ runs[h] > 0
        /\ runs' = [runs EXCEPT ![h] = runs[h] - 1]
        /\ isScheduled' = [isScheduled EXCEPT ![h] = FALSE]
        /\ Dequeue(h)
        /\ alive' = [alive EXCEPT ![h] = FALSE]
        /\ hasCallback' = [hasCallback EXCEPT ![h] = FALSE]
        /\ stranded' = stranded \cup CutOff(h)
        /\ UNCHANGED <<owner, timerSet, known, starts, again>>
    BY DEF Processed
  <1>2. i \in Ids /\ starts[i] > 0
    BY <1>1 DEF IInv, RunInv
  <1>3. \A j \in Ids : \/ j # i /\ handlerQueue'[j] = handlerQueue[j]
                       \/ j = i /\ hasCallback[h] /\ handlerQueue'[j] = None
                       \/ handlerQueue'[j] = handlerQueue[j] /\ ~hasCallback[h]
    BY <1>1, Types DEF IInv, Dequeue
  <1>4. \A g \in Handlers : timerSet[g] /\ owner[g] = i /\ i \notin CutOff(h) =>
          g # h /\ ~hasCallback[h]
    BY DEF CutOff
  <1>5. TimerInv'
    <2>1. ASSUME NEW g \in Handlers, timerSet'[g]
          PROVE  /\ owner'[g] \in Ids
                 /\ owner'[g] \notin stranded' =>
                      /\ isScheduled'[g]
                      /\ handlerQueue'[owner'[g]] = g
                      /\ known'[owner'[g]] = "data"
      <3>1. timerSet[g] /\ owner[g] \in Ids /\ owner'[g] = owner[g]
        BY <1>1, <2>1 DEF IInv, TimerInv
      <3>2. SUFFICES ASSUME owner[g] \notin stranded'
                     PROVE  /\ isScheduled'[g]
                            /\ handlerQueue'[owner[g]] = g
                            /\ known'[owner[g]] = "data"
        BY <3>1
      <3>3. owner[g] \notin stranded /\ owner[g] \notin CutOff(h)
        BY <1>1, <3>2
      <3>4. /\ isScheduled[g]
            /\ handlerQueue[owner[g]] = g
            /\ known[owner[g]] = "data"
        BY <3>1, <3>3 DEF IInv, TimerInv
      <3>5. g # h /\ (owner[g] # i \/ ~hasCallback[h])
        BY <1>4, <3>1, <3>3
      <3>6. handlerQueue'[owner[g]] = handlerQueue[owner[g]]
        BY <1>3, <3>1, <3>5
      <3>7. QED BY <1>1, <3>4, <3>5, <3>6, Types DEF IInv
    <2>2. QED BY <2>1 DEF TimerInv
  <1>6. RunInv'
    <2>1. \A g \in Handlers : runs'[g] > 0 => runs[g] > 0
      BY <1>1, Types DEF IInv
    <2>2. QED BY <1>1, <2>1 DEF IInv, RunInv
  <1>7. QueueInv'
    <2>1. ASSUME NEW j \in Ids, handlerQueue'[j] # None
          PROVE  /\ handlerQueue'[j] = handlerQueue[j]
                 /\ handlerQueue[j] # h
      BY <1>3, <2>1 DEF IInv, QueueInv
    <2>2. QED BY <1>1, <2>1, Types DEF IInv, QueueInv
  <1>8. CountInv'
    <2>1. ASSUME NEW j \in Ids PROVE Timers(j)' \in SUBSET Timers(j)
      BY <1>1 DEF Timers
    <2>2. QED BY <1>1, <2>1, CountKept DEF CountInv
  <1>9. StrandedInv'
    <2>1. ASSUME NEW j \in CutOff(h)
          PROVE  starts[j] > 0 /\ again[j] > 0
      <3>1. j = i /\ j \in Ids
        BY <1>2, <2>1 DEF CutOff
      <3>2. PICK g \in Handlers : timerSet[g] /\ owner[g] = j
        BY <2>1 DEF CutOff
      <3>3. {g} \in SUBSET Timers(j)
        BY <3>2 DEF Timers
      <3>4. starts[j] + Cardinality({g}) <= 1 + again[j]
        BY <3>1, <3>3, CountKept
      <3>5. Cardinality({g}) = 1
        BY FS_Singleton
      <3>6. starts[j] \in Nat /\ again[j] \in Nat
        BY <3>1, Types DEF IInv
      <3>7. QED BY <1>2, <3>1, <3>4, <3>5, <3>6
    <2>2. QED BY <1>1, <2>1 DEF IInv, StrandedInv
  <1>10. QED BY <1>5, <1>6, <1>7, <1>8, <1>9 DEF QueueFacts

LEMMA NextInv == IInv /\ [Next]_vars => IInv'
PROOF
  <1>1. SUFFICES ASSUME IInv, [Next]_vars PROVE QueueFacts'
    BY NextType DEF IInv, QueueFacts
  <1>2. CASE \E i \in Ids : Data(i)
    BY <1>1, <1>2, DataStep
  <1>3. CASE \E i \in Ids : Changed(i)
    BY <1>1, <1>3, ChangedStep
  <1>4. CASE \E h \in Handlers : TimerFires(h)
    BY <1>1, <1>4, TimerStep
  <1>5. CASE \E h \in Handlers : Processed(h)
    BY <1>1, <1>5, ProcessedStep
  <1>6. CASE Crash
    BY <1>1, <1>6, DieStep DEF Crash
  <1>7. ASSUME \/ \E i \in Ids : Unheard(i)
               \/ Restart
               \/ UNCHANGED vars
        PROVE  QueueFacts'
    <2>1. UNCHANGED <<handlerQueue, objVars, known, starts, again, stranded>>
      BY <1>7 DEF Unheard, Note, Restart, vars, histVars
    <2>2. TimerInv' /\ RunInv' /\ QueueInv' /\ StrandedInv'
      BY <1>1, <2>1 DEF IInv, TimerInv, RunInv, QueueInv, StrandedInv, objVars
    <2>3. ASSUME NEW j \in Ids PROVE Timers(j)' \in SUBSET Timers(j)
      BY <2>1 DEF Timers, objVars
    <2>4. CountInv'
      BY <1>1, <2>1, <2>3, CountKept DEF CountInv
    <2>5. QED BY <2>2, <2>4 DEF QueueFacts
  <1>8. QED
    BY <1>1, <1>2, <1>3, <1>4, <1>5, <1>6, <1>7 DEF Next

-----------------------------------------------------------------------------
(* The theorems.                                                           *)

\* IInv holds in every reachable state, for every number of events, objects,
\* notifications and kills.
THEOREM QueueInvariant == Spec => []IInv
PROOF
  BY InitInv, NextInv, PTL DEF Spec

\* However often an event is announced, updated, taken back and announced again,
\* the processor is called once for it, and once more at most per announcement
\* that comes after its processing began.
THEOREM NoSpuriousRunHolds == Spec => []NoSpuriousRun
PROOF
  <1>1. IInv => NoSpuriousRun
    <2>1. SUFFICES ASSUME IInv, NEW i \in Ids PROVE starts[i] <= 1 + again[i]
      BY DEF NoSpuriousRun
    <2>2. {} \in SUBSET Timers(i)
      OBVIOUS
    <2>3. starts[i] + Cardinality({}) <= 1 + again[i]
      BY <2>1, <2>2, CountKept
    <2>4. starts[i] \in Nat /\ Cardinality({}) = 0
      BY <2>1, Types, FS_EmptySet DEF IInv
    <2>5. QED BY <2>3, <2>4
  <1>2. QED BY <1>1, QueueInvariant, PTL

\* Every running timer can be cancelled through the queue, except those that the
\* end of a run has cut off after a further announcement of the same event.
THEOREM TimerCancellableHolds == Spec => []TimerCancellable
PROOF
  <1>1. IInv => TimerCancellable
    BY DEF IInv, TimerInv, StrandedInv, TimerCancellable
  <1>2. QED BY <1>1, QueueInvariant, PTL

\* The processor is not called for an event whose removal was received, unless
\* by a timer that the end of another run of the same event has cut off.
THEOREM RemovedNotStartedHolds == Spec => RemovedNotStarted
PROOF
  <1>1. ASSUME IInv, [Next]_vars
        PROVE  [\A i \in Ids : starts'[i] > starts[i] =>
                  known[i] = "data" \/ i \in stranded]_vars
    <2>1. SUFFICES ASSUME NEW i \in Ids, starts'[i] > starts[i], Next
                   PROVE  known[i] = "data" \/ i \in stranded
      BY <1>1
    <2>2. starts[i] \in Nat
      BY <1>1, Types DEF IInv
    <2>3. starts' # starts
      BY <2>1, <2>2
    <2>4. PICK h \in Handlers : TimerFires(h) /\ ~Die
      BY <2>1, <2>3
         DEF Next, Data, Changed, Unheard, Note, TimerFires, Processed, Crash,
             Die, Restart, histVars
    <2>5. timerSet[h] /\ starts' = [starts EXCEPT ![owner[h]] = starts[owner[h]] + 1]
      BY <2>4 DEF TimerFires
    <2>6. owner[h] = i
      BY <1>1, <2>1, <2>2, <2>5, Types DEF IInv
    <2>7. QED BY <1>1, <2>5, <2>6 DEF IInv, TimerInv
  <1>2. QED BY <1>1, QueueInvariant, PTL DEF Spec, RemovedNotStarted
=============================================================================
