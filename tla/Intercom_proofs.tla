-------------------------- MODULE Intercom_proofs ---------------------------
(***************************************************************************)
(* Proofs about Intercom for every set of events, height bound, number of  *)
(* confirmations and crashes, in both modes of the handlers.               *)
(***************************************************************************)
EXTENDS Intercom, TLAPS

-----------------------------------------------------------------------------
(* A step of the chain changes no block the communicator may have looked   *)
(* at: those with Confirmations blocks on top of them.                     *)
LEMMA FinalBlocksStay ==
  ASSUME LogTypeOK, ChainInv, LogNext
  PROVE  /\ LogTypeOK' /\ ChainInv'
         /\ top <= top'
         /\ \A b \in Blocks : b + Confirmations <= top => chain'[b] = chain[b]
<1> USE EventLogAssumption, IntercomAssumption, ConfirmedIsFinal
       DEF LogTypeOK, ChainInv, Blocks
<1>1. CASE Mine
  <2>1. PICK e \in Events \cup {NoEvent} :
          /\ height < MaxHeight
          /\ chain' = [chain EXCEPT ![height + 1] = e]
          /\ height' = height + 1
          /\ top' = IF height + 1 > top THEN height + 1 ELSE top
    BY <1>1 DEF Mine
  <2>2. height' \in 0..MaxHeight /\ top' \in 0..MaxHeight /\ top <= top'
    BY <2>1
  <2>3. height' <= top' /\ top' <= height' + Finality
    BY <2>1
  <2>4. chain' \in [Blocks -> Events \cup {NoEvent}]
    BY <2>1
  <2>5. ASSUME NEW b \in Blocks, b + Confirmations <= top
        PROVE  chain'[b] = chain[b]
    <3>1. b # height + 1
      BY <2>5
    <3>2. QED
      BY <2>1, <3>1
  <2>6. QED
    BY <2>2, <2>3, <2>4, <2>5
<1>2. CASE Revert
  <2>1. PICK h \in 0..(height - 1) :
          /\ top <= h + Finality
          /\ chain' = [b \in Blocks |-> IF b > h THEN NoEvent ELSE chain[b]]
          /\ height' = h
          /\ top' = top
    BY <1>2 DEF Revert
  <2>2. QED
    BY <2>1
<1>3. QED
  BY <1>1, <1>2 DEF LogNext

(* What the window and the histories say of final blocks survives a step   *)
(* of the chain.                                                           *)
LEMMA FinalEventsStay ==
  ASSUME LogTypeOK, ChainInv, LogNext, NEW from \in Int, NEW to \in Int,
         to + Confirmations <= top \/ to <= 0
  PROVE  EventsIn(from, to)' = EventsIn(from, to)
<1>1. \A b \in Blocks : b <= to => chain'[b] = chain[b]
  BY FinalBlocksStay, EventLogAssumption, IntercomAssumption DEF Blocks, LogTypeOK
<1>2. \A w \in Blocks \X Events : w[1] \in Blocks
  OBVIOUS
<1>3. \A w \in Blocks \X Events :
        (from <= w[1] /\ w[1] <= to /\ chain'[w[1]] = w[2])
          <=> (from <= w[1] /\ w[1] <= to /\ chain[w[1]] = w[2])
  BY <1>1, <1>2
<1>4. QED
  BY <1>3 DEF EventsIn

(* The events up to the end of a window are those up to the checkpoint and *)
(* those of the window.                                                    *)
LEMMA WindowFollowsCheckpoint ==
  ASSUME NEW last \in Nat, NEW to \in Int
  PROVE  EventsIn(1, to) \subseteq EventsIn(1, last) \cup EventsIn(last + 1, to)
<1>1. \A w \in Blocks \X Events : w[1] \in Int /\ w[1] >= 1
  BY EventLogAssumption DEF Blocks
<1>2. QED
  BY <1>1 DEF EventsIn

-----------------------------------------------------------------------------
LEMMA InitIInv == Init => IInv
<1> SUFFICES ASSUME Init PROVE IInv
  OBVIOUS
<1> USE EventLogAssumption, IntercomAssumption DEF Init, LogInit
<1>0. LogTypeOK
  BY DEF LogTypeOK
<1>1. TypeOK
  <2>1. interrupted \in BOOLEAN
    OBVIOUS
  <2>2. pc \in PC
    BY DEF PC
  <2>3. file \in Nat \cup {Torn} /\ crashes \in 0..MaxCrashes
    OBVIOUS
  <2>4. QED
    BY <1>0, <2>1, <2>2, <2>3 DEF TypeOK
<1>2. EventsIn(1, 0) = {}
  BY DEF EventsIn, Blocks
<1>3. ChainInv /\ CheckpointInv /\ WindowInv /\ HistoryInv
  BY <1>2 DEF ChainInv, CheckpointInv, WindowInv, HistoryInv, Final, Covered, EventsIn, Blocks
<1>4. QED
  BY <1>1, <1>3 DEF IInv

(* The end of the process leaves the invariant true, whatever it does to   *)
(* the file, as long as the file speaks of settled events.                 *)
LEMMA ExitIInv ==
  ASSUME IInv, Exit, UNCHANGED logVars, UNCHANGED histVars,
         file' \in Nat \cup {Torn}, crashes' \in 0..MaxCrashes,
         file' # Torn => Final(file') /\ Covered(file')
  PROVE  IInv'
<1> USE EventLogAssumption, IntercomAssumption
       DEF IInv, Exit, logVars, histVars
<1>1. TypeOK'
  <2>1. interrupted' \in BOOLEAN
    OBVIOUS
  <2>2. pc' \in PC
    BY DEF PC
  <2>3. LogTypeOK' /\ Occurrences' = Occurrences
    BY DEF TypeOK, LogTypeOK, Occurrences, Blocks
  <2>4. started' \subseteq Occurrences /\ settled' \subseteq Occurrences
    BY DEF TypeOK
  <2>5. QED
    BY <2>1, <2>2, <2>3, <2>4 DEF TypeOK
<1>2. EventsIn(1, 0)' = {}
  BY DEF EventsIn, Blocks
<1>3. CheckpointInv'
  BY <1>2 DEF CheckpointInv, Final, Covered, EventsIn
<1>4. ChainInv' /\ WindowInv'
  BY DEF ChainInv, WindowInv
<1>5. HistoryInv'
  BY DEF HistoryInv, Final
<1>6. QED
  BY <1>1, <1>3, <1>4, <1>5

(* A step of the chain.                                                    *)
LEMMA EnvironmentIInv ==
  ASSUME IInv, Environment
  PROVE  IInv'
<1>0. /\ TypeOK /\ ChainInv /\ CheckpointInv /\ WindowInv /\ HistoryInv
      /\ LogNext /\ UNCHANGED <<pc, memVars, file, crashes, histVars>>
  BY DEF IInv, Environment
<1> USE EventLogAssumption, IntercomAssumption DEF memVars, histVars
<1>1. LogTypeOK /\ ChainInv /\ LogNext
  BY <1>0 DEF TypeOK
<1>2. LogTypeOK' /\ ChainInv' /\ top <= top'
  BY <1>1, FinalBlocksStay
<1>a. top \in Int /\ top' \in Int /\ Confirmations \in Int /\ top <= top'
  BY <1>1, <1>2 DEF LogTypeOK
<1>3. \A n \in Int : Final(n) => Final(n)'
  BY <1>a DEF Final
<1>4. ASSUME NEW from \in Int, NEW to \in Int, Final(to)
      PROVE  EventsIn(from, to)' = EventsIn(from, to)
  BY <1>1, <1>4, FinalEventsStay DEF Final
<1>5. TypeOK'
  BY <1>0, <1>2 DEF TypeOK, PC, Occurrences
<1>6. CheckpointInv'
  <2>1. ASSUME file # Torn PROVE Final(file)' /\ Covered(file)'
    <3>1. file \in Int /\ Final(file) /\ Covered(file)
      BY <2>1, <1>0 DEF CheckpointInv, TypeOK
    <3>2. EventsIn(1, file)' = EventsIn(1, file)
      BY <3>1, <1>4, <1>0 DEF EventsIn
    <3>3. QED
      BY <3>1, <3>2, <1>3, <1>0 DEF Covered, Final
  <2>2. Final(lastProcessed)' /\ Covered(lastProcessed)'
    <3>1. lastProcessed \in Int /\ Final(lastProcessed) /\ Covered(lastProcessed)
      BY <1>0 DEF CheckpointInv, TypeOK
    <3>2. EventsIn(1, lastProcessed)' = EventsIn(1, lastProcessed)
      BY <3>1, <1>4, <1>0 DEF EventsIn
    <3>3. QED
      BY <3>1, <3>2, <1>3, <1>0 DEF Covered, Final
  <2>3. QED
    BY <2>1, <2>2, <1>0 DEF CheckpointInv
<1>7. WindowInv'
  <2>1. CASE pc \in {"logs", "handle"}
    <3>1. fromBlock \in Int /\ toBlock \in Int /\ toBlock + Confirmations <= top
      BY <2>1, <1>0 DEF WindowInv, TypeOK
    <3>2. EventsIn(fromBlock, toBlock)' = EventsIn(fromBlock, toBlock)
      BY <3>1, <1>4, <1>0 DEF EventsIn, Final
    <3>3. toBlock + Confirmations <= top'
      BY <3>1, <1>a, <1>0
    <3>4. QED
      BY <2>1, <3>2, <3>3, <1>0 DEF WindowInv
  <2>2. CASE pc \notin {"logs", "handle"}
    BY <2>2, <1>0 DEF WindowInv
  <2>3. QED
    BY <2>1, <2>2
<1>8. HistoryInv'
  <2>1. ASSUME NEW w \in started
        PROVE  Final(w[1])' /\ chain'[w[1]] = w[2]
    <3>1. w[1] \in Blocks /\ w[1] \in Int /\ Final(w[1]) /\ chain[w[1]] = w[2]
      BY <2>1, <1>0 DEF HistoryInv, TypeOK, Occurrences, Blocks
    <3>2. w[1] + Confirmations <= top
      BY <3>1 DEF Final, Blocks
    <3>3. chain'[w[1]] = chain[w[1]]
      BY <1>1, <3>1, <3>2, FinalBlocksStay
    <3>4. w[1] + Confirmations <= top'
      BY <3>1, <3>2, <1>a
    <3>5. QED
      BY <3>1, <3>3, <3>4 DEF Final
  <2>2. QED
    BY <2>1, <1>0 DEF HistoryInv
<1>9. QED
  BY <1>2, <1>5, <1>6, <1>7, <1>8 DEF IInv

(* Reading the checkpoint file again, at the start or after an exception.   *)
LEMMA ReloadIInv ==
  ASSUME IInv, file # Torn, pc' = "height", lastProcessed' = file,
         UNCHANGED <<logVars, fromBlock, toBlock, interrupted, pending, inflight,
                     file, crashes, histVars>>,
         pc # "handle"
  PROVE  IInv'
<1>0. /\ TypeOK /\ ChainInv /\ CheckpointInv /\ WindowInv /\ HistoryInv
      /\ pc \in {"down", "height", "logs", "idle", "reinit"}
  BY DEF IInv, TypeOK, PC
<1> USE EventLogAssumption, IntercomAssumption DEF logVars, histVars
<1>1. TypeOK'
  <2>1. interrupted' \in BOOLEAN /\ pc' \in PC
    BY <1>0 DEF TypeOK, PC
  <2>2. LogTypeOK' /\ Occurrences' = Occurrences
    BY <1>0 DEF TypeOK, LogTypeOK, Occurrences, Blocks
  <2>3. lastProcessed' \in Nat
    BY <1>0 DEF TypeOK
  <2>4. QED
    BY <1>0, <2>1, <2>2, <2>3 DEF TypeOK
<1>2. ChainInv'
  BY <1>0 DEF ChainInv
<1>3. CheckpointInv'
  BY <1>0 DEF CheckpointInv, Final, Covered, EventsIn
<1>4. WindowInv'
  BY <1>0 DEF WindowInv, EventsIn
<1>5. HistoryInv'
  BY <1>0 DEF HistoryInv, Final
<1>6. QED
  BY <1>1, <1>2, <1>3, <1>4, <1>5 DEF IInv

(* A step that only moves the loop from one timer or request to the next,  *)
(* with no window open afterwards.                                         *)
LEMMA WaitIInv ==
  ASSUME IInv, pending = {}, inflight = {}, pc' \in {"height", "idle", "reinit"},
         UNCHANGED <<logVars, memVars, histVars, crashes>>,
         file' = file \/ file' = Torn
  PROVE  IInv'
<1>0. TypeOK /\ ChainInv /\ CheckpointInv /\ WindowInv /\ HistoryInv
  BY DEF IInv
<1> USE EventLogAssumption, IntercomAssumption DEF logVars, memVars, histVars
<1>1. TypeOK'
  <2>1. interrupted' \in BOOLEAN /\ pc' \in PC
    BY <1>0 DEF TypeOK, PC
  <2>2. LogTypeOK' /\ Occurrences' = Occurrences
    BY <1>0 DEF TypeOK, LogTypeOK, Occurrences, Blocks
  <2>3. QED
    BY <1>0, <2>1, <2>2 DEF TypeOK
<1>2. ChainInv'
  BY <1>0 DEF ChainInv
<1>3. CheckpointInv'
  BY <1>0 DEF CheckpointInv, Final, Covered, EventsIn
<1>4. WindowInv'
  BY <1>0 DEF WindowInv, EventsIn
<1>5. HistoryInv'
  BY <1>0 DEF HistoryInv, Final
<1>6. QED
  BY <1>1, <1>2, <1>3, <1>4, <1>5 DEF IInv

(* The end of a handled window becomes the checkpoint.                     *)
LEMMA SaveIInv ==
  ASSUME IInv, pc \in {"logs", "handle"}, toBlock >= 0,
         EventsIn(fromBlock, toBlock) \subseteq settled, SaveCheckpoint,
         UNCHANGED <<logVars, crashes, histVars>>
  PROVE  IInv'
<1>0. TypeOK /\ ChainInv /\ CheckpointInv /\ WindowInv /\ HistoryInv
  BY DEF IInv
<1> USE EventLogAssumption, IntercomAssumption
<1>1. toBlock \in Nat /\ lastProcessed \in Nat /\ fromBlock = lastProcessed + 1
      /\ toBlock + Confirmations <= top
  BY <1>0 DEF TypeOK, WindowInv
<1>2. EventsIn(1, lastProcessed) \subseteq settled
  BY <1>0 DEF CheckpointInv, Covered
<1>3. Final(toBlock) /\ Covered(toBlock)
  <2>1. EventsIn(1, toBlock) \subseteq settled
    BY <1>1, <1>2, WindowFollowsCheckpoint
  <2>2. QED
    BY <1>1, <2>1 DEF Final, Covered
<1>4. CASE interrupted
  <2>1. Exit /\ file' = toBlock
    BY <1>4 DEF SaveCheckpoint
  <2>2. Final(file') /\ Covered(file')
    BY <1>3, <2>1
  <2>3. file' \in Nat \cup {Torn} /\ crashes' \in 0..MaxCrashes
    BY <1>0, <1>1, <2>1 DEF TypeOK
  <2>4. QED
    BY <2>1, <2>2, <2>3, ExitIInv
<1>5. CASE ~interrupted
  <2>0. /\ file' = toBlock /\ pc' = "idle" /\ lastProcessed' = toBlock
        /\ pending' = {} /\ inflight' = {}
        /\ UNCHANGED <<logVars, fromBlock, toBlock, interrupted, crashes, histVars>>
    BY <1>5 DEF SaveCheckpoint
  <2> USE <2>0 DEF logVars, histVars
  <2>1. TypeOK'
    <3>1. interrupted' \in BOOLEAN /\ pc' \in PC
      BY <1>0 DEF TypeOK, PC
    <3>2. LogTypeOK' /\ Occurrences' = Occurrences
      BY <1>0 DEF TypeOK, LogTypeOK, Occurrences, Blocks
    <3>3. QED
      BY <1>0, <1>1, <3>1, <3>2 DEF TypeOK
  <2>2. ChainInv' /\ WindowInv'
    BY <1>0 DEF ChainInv, WindowInv
  <2>3. CheckpointInv'
    BY <1>3 DEF CheckpointInv, Final, Covered, EventsIn
  <2>4. HistoryInv'
    BY <1>0 DEF HistoryInv, Final
  <2>5. QED
    BY <2>1, <2>2, <2>3, <2>4 DEF IInv
<1>6. QED
  BY <1>4, <1>5, <1>0 DEF TypeOK

(* The loop's own requests.                                                *)
LEMMA GetHeightIInv == IInv /\ GetHeight => IInv'
<1> SUFFICES ASSUME IInv, GetHeight PROVE IInv'
  OBVIOUS
<1>0. TypeOK /\ ChainInv /\ CheckpointInv /\ WindowInv /\ HistoryInv
  BY DEF IInv
<1>1. /\ pc = "height" /\ pc' = "logs"
      /\ fromBlock' = lastProcessed + 1 /\ toBlock' = height - Confirmations
      /\ UNCHANGED <<logVars, lastProcessed, interrupted, pending, inflight,
                     file, crashes, histVars>>
  BY DEF GetHeight, WindowStart, WindowEnd
<1> USE EventLogAssumption, IntercomAssumption DEF logVars, histVars
<1>2. height \in Int /\ top \in Int /\ height <= top /\ lastProcessed \in Nat
  BY <1>0 DEF TypeOK, LogTypeOK, ChainInv
<1>3. TypeOK'
  <2>1. interrupted' \in BOOLEAN /\ pc' \in PC
    BY <1>0, <1>1 DEF TypeOK, PC
  <2>2. LogTypeOK' /\ Occurrences' = Occurrences
    BY <1>0, <1>1 DEF TypeOK, LogTypeOK, Occurrences, Blocks
  <2>3. fromBlock' \in Nat /\ toBlock' \in Int
    BY <1>1, <1>2
  <2>4. QED
    BY <1>0, <1>1, <2>1, <2>2, <2>3 DEF TypeOK
<1>4. ChainInv' /\ CheckpointInv' /\ HistoryInv'
  BY <1>0, <1>1 DEF ChainInv, CheckpointInv, HistoryInv, Final, Covered, EventsIn
<1>5. WindowInv'
  BY <1>0, <1>1, <1>2 DEF WindowInv
<1>6. QED
  BY <1>3, <1>4, <1>5 DEF IInv

LEMMA GetLogsIInv == IInv /\ GetLogs => IInv'
<1> SUFFICES ASSUME IInv, GetLogs PROVE IInv'
  OBVIOUS
<1>0. TypeOK /\ ChainInv /\ CheckpointInv /\ WindowInv /\ HistoryInv
  BY DEF IInv
<1>1. pc = "logs" /\ toBlock >= 0 /\ UNCHANGED <<logVars, crashes, histVars>>
  BY DEF GetLogs
<1>2. CASE EventsIn(fromBlock, toBlock) = {} /\ SaveCheckpoint
  BY <1>1, <1>2, SaveIInv
<1>3. CASE /\ pc' = "handle"
           /\ pending' = EventsIn(fromBlock, toBlock)
           /\ UNCHANGED <<lastProcessed, fromBlock, toBlock, interrupted, inflight, file>>
  <2> USE EventLogAssumption, IntercomAssumption, <1>1, <1>3 DEF logVars, histVars
  <2>1. TypeOK'
    <3>1. interrupted' \in BOOLEAN /\ pc' \in PC
      BY <1>0 DEF TypeOK, PC
    <3>2. LogTypeOK' /\ Occurrences' = Occurrences
      BY <1>0 DEF TypeOK, LogTypeOK, Occurrences, Blocks
    <3>3. pending' \subseteq Occurrences
      BY DEF EventsIn, Occurrences
    <3>4. QED
      BY <1>0, <3>1, <3>2, <3>3 DEF TypeOK
  <2>2. ChainInv' /\ CheckpointInv' /\ HistoryInv'
    BY <1>0 DEF ChainInv, CheckpointInv, HistoryInv, Final, Covered, EventsIn
  <2>3. WindowInv'
    <3>1. EventsIn(fromBlock, toBlock)' = EventsIn(fromBlock, toBlock)
      BY DEF EventsIn
    <3>2. QED
      BY <1>0, <3>1 DEF WindowInv
  <2>4. QED
    BY <2>1, <2>2, <2>3 DEF IInv
<1>4. QED
  BY <1>2, <1>3 DEF GetLogs

(* The handlers.                                                           *)
LEMMA StartHandlerIInv == IInv /\ StartHandler => IInv'
<1> SUFFICES ASSUME IInv, StartHandler PROVE IInv'
  OBVIOUS
<1>0. TypeOK /\ ChainInv /\ CheckpointInv /\ WindowInv /\ HistoryInv
  BY DEF IInv
<1>1. PICK w \in pending :
        /\ pc = "handle" /\ MayStart(w)
        /\ pending' = pending \ {w}
        /\ inflight' = inflight \cup {w}
        /\ started' = started \cup {w}
        /\ UNCHANGED <<logVars, pc, lastProcessed, fromBlock, toBlock, interrupted,
                       file, crashes, settled>>
  BY DEF StartHandler
<1> USE EventLogAssumption, IntercomAssumption DEF logVars
<1>2. w \in Occurrences /\ w \in EventsIn(fromBlock, toBlock)
  BY <1>0, <1>1 DEF WindowInv, TypeOK
<1>3. Final(w[1]) /\ chain[w[1]] = w[2]
  <2>1. w[1] \in Int /\ w[1] <= toBlock /\ toBlock \in Int
        /\ toBlock + Confirmations <= top /\ top \in Int /\ chain[w[1]] = w[2]
    BY <1>0, <1>1, <1>2 DEF EventsIn, WindowInv, TypeOK, LogTypeOK, Blocks
  <2>2. w[1] + Confirmations <= top
    BY <2>1
  <2>3. QED
    BY <2>1, <2>2 DEF Final
<1>4. TypeOK'
  <2>1. interrupted' \in BOOLEAN /\ pc' \in PC
    BY <1>0, <1>1 DEF TypeOK, PC
  <2>2. LogTypeOK' /\ Occurrences' = Occurrences
    BY <1>0, <1>1 DEF TypeOK, LogTypeOK, Occurrences, Blocks
  <2>3. pending' \subseteq Occurrences /\ inflight' \subseteq Occurrences
        /\ started' \subseteq Occurrences
    BY <1>0, <1>1, <1>2 DEF TypeOK
  <2>4. QED
    BY <1>0, <1>1, <2>1, <2>2, <2>3 DEF TypeOK
<1>5. ChainInv' /\ CheckpointInv'
  BY <1>0, <1>1 DEF ChainInv, CheckpointInv, Final, Covered, EventsIn
<1>6. WindowInv'
  <2>1. EventsIn(fromBlock, toBlock)' = EventsIn(fromBlock, toBlock)
    BY <1>1 DEF EventsIn
  <2>2. pending' \cup inflight' = pending \cup inflight
    BY <1>1
  <2>3. QED
    BY <1>0, <1>1, <2>1, <2>2 DEF WindowInv
<1>7. HistoryInv'
  BY <1>0, <1>1, <1>3 DEF HistoryInv, Final
<1>8. QED
  BY <1>4, <1>5, <1>6, <1>7 DEF IInv

LEMMA SettleHandlerIInv == IInv /\ SettleHandler => IInv'
<1> SUFFICES ASSUME IInv, SettleHandler PROVE IInv'
  OBVIOUS
<1>0. TypeOK /\ ChainInv /\ CheckpointInv /\ WindowInv /\ HistoryInv
  BY DEF IInv
<1>1. PICK w \in inflight :
        /\ inflight' = inflight \ {w}
        /\ settled' = settled \cup {w}
        /\ UNCHANGED <<logVars, pc, lastProcessed, fromBlock, toBlock, interrupted,
                       pending, file, crashes, started>>
  BY DEF SettleHandler
<1> USE EventLogAssumption, IntercomAssumption DEF logVars
<1>2. w \in Occurrences
  BY <1>0, <1>1 DEF TypeOK
<1>3. TypeOK'
  <2>1. interrupted' \in BOOLEAN /\ pc' \in PC
    BY <1>0, <1>1 DEF TypeOK, PC
  <2>2. LogTypeOK' /\ Occurrences' = Occurrences
    BY <1>0, <1>1 DEF TypeOK, LogTypeOK, Occurrences, Blocks
  <2>3. inflight' \subseteq Occurrences /\ settled' \subseteq Occurrences
    BY <1>0, <1>1, <1>2 DEF TypeOK
  <2>4. QED
    BY <1>0, <1>1, <2>1, <2>2, <2>3 DEF TypeOK
<1>4. ChainInv'
  BY <1>0, <1>1 DEF ChainInv
<1>5. CheckpointInv'
  BY <1>0, <1>1 DEF CheckpointInv, Final, Covered, EventsIn
<1>6. WindowInv'
  <2>1. EventsIn(fromBlock, toBlock)' = EventsIn(fromBlock, toBlock)
    BY <1>1 DEF EventsIn
  <2>2. pending' \cup inflight' \subseteq pending \cup inflight
        /\ pending \cup inflight \cup settled \subseteq pending' \cup inflight' \cup settled'
    BY <1>1
  <2>3. pc = "handle"
    BY <1>0, <1>1 DEF WindowInv
  <2>4. QED
    BY <1>0, <1>1, <2>1, <2>2, <2>3 DEF WindowInv
<1>7. HistoryInv'
  BY <1>0, <1>1 DEF HistoryInv, Final
<1>8. QED
  BY <1>3, <1>4, <1>5, <1>6, <1>7 DEF IInv

LEMMA FinishWindowIInv == IInv /\ FinishWindow => IInv'
<1> SUFFICES ASSUME IInv, FinishWindow PROVE IInv'
  OBVIOUS
<1>1. /\ pc = "handle" /\ pending = {} /\ inflight = {} /\ SaveCheckpoint
      /\ UNCHANGED <<logVars, crashes, histVars>>
  BY DEF FinishWindow, AllSettled
<1>2. toBlock >= 0 /\ EventsIn(fromBlock, toBlock) \subseteq settled
  BY <1>1 DEF IInv, WindowInv
<1>3. QED
  BY <1>1, <1>2, SaveIInv

(* Failures.                                                               *)
LEMMA CatchIInv ==
  ASSUME IInv, Catch, pending = {}, inflight = {}, file' = file \/ file' = Torn,
         UNCHANGED <<logVars, crashes, histVars>>
  PROVE  IInv'
<1>0. TypeOK /\ CheckpointInv
  BY DEF IInv
<1>1. CASE interrupted /\ Exit
  <2>1. file' \in Nat \cup {Torn} /\ crashes' \in 0..MaxCrashes
    BY <1>0 DEF TypeOK
  <2>2. file' # Torn => Final(file') /\ Covered(file')
    BY <1>0 DEF CheckpointInv
  <2>3. QED
    BY <1>1, <2>1, <2>2, ExitIInv
<1>2. CASE pc' = "reinit" /\ UNCHANGED memVars
  BY <1>2, WaitIInv
<1>3. QED
  BY <1>1, <1>2 DEF Catch

LEMMA SaveFailsIInv == IInv /\ SaveFails => IInv'
<1> SUFFICES ASSUME IInv, SaveFails PROVE IInv'
  OBVIOUS
<1>1. pending = {} /\ inflight = {}
  BY DEF SaveFails, AllSettled, IInv, WindowInv
<1>2. QED
  BY <1>1, CatchIInv DEF SaveFails

LEMMA InterruptIInv == IInv /\ Interrupt => IInv'
<1> SUFFICES ASSUME IInv, Interrupt PROVE IInv'
  OBVIOUS
<1>0. TypeOK /\ ChainInv /\ CheckpointInv /\ WindowInv /\ HistoryInv
  BY DEF IInv
<1>1. interrupted' = TRUE
      /\ UNCHANGED <<logVars, pc, lastProcessed, fromBlock, toBlock, pending,
                     inflight, file, crashes, histVars>>
  BY DEF Interrupt
<1> USE EventLogAssumption, IntercomAssumption DEF logVars, histVars
<1>2. TypeOK'
  <2>1. interrupted' \in BOOLEAN /\ pc' \in PC
    BY <1>0, <1>1 DEF TypeOK, PC
  <2>2. LogTypeOK' /\ Occurrences' = Occurrences
    BY <1>0, <1>1 DEF TypeOK, LogTypeOK, Occurrences, Blocks
  <2>3. QED
    BY <1>0, <1>1, <2>1, <2>2 DEF TypeOK
<1>3. ChainInv' /\ CheckpointInv' /\ HistoryInv'
  BY <1>0, <1>1 DEF ChainInv, CheckpointInv, HistoryInv, Final, Covered, EventsIn
<1>4. WindowInv'
  BY <1>0, <1>1 DEF WindowInv, EventsIn
<1>5. QED
  BY <1>2, <1>3, <1>4 DEF IInv

LEMMA CrashIInv == IInv /\ Crash => IInv'
<1> SUFFICES ASSUME IInv, Crash PROVE IInv'
  OBVIOUS
<1>0. TypeOK /\ CheckpointInv
  BY DEF IInv
<1>1. Exit /\ UNCHANGED logVars /\ UNCHANGED histVars /\ (file' = file \/ file' = Torn)
  BY DEF Crash
<1>2. file' \in Nat \cup {Torn} /\ (file' # Torn => Final(file') /\ Covered(file'))
  BY <1>0, <1>1 DEF TypeOK, CheckpointInv
<1>3. crashes' \in 0..MaxCrashes
  BY <1>0, IntercomAssumption DEF Crash, TypeOK
<1>4. QED
  BY <1>1, <1>2, <1>3, ExitIInv

-----------------------------------------------------------------------------
LEMMA NextIInv == IInv /\ [Next]_vars => IInv'
<1> SUFFICES ASSUME IInv, [Next]_vars PROVE IInv'
  OBVIOUS
<1>0. TypeOK /\ CheckpointInv /\ WindowInv
  BY DEF IInv
<1>1. CASE Environment
  BY <1>1, EnvironmentIInv
<1>2. CASE Boot
  BY <1>2, ReloadIInv DEF Boot
<1>3. CASE ReInit
  <2>1. CASE file # Torn
    BY <1>3, <2>1, ReloadIInv DEF ReInit, Exit
  <2>2. CASE file = Torn
    <3>1. Exit /\ UNCHANGED <<logVars, file, crashes, histVars>>
      BY <1>3, <2>2 DEF ReInit
    <3>2. file' = Torn /\ crashes' \in 0..MaxCrashes
      BY <1>0, <2>2, <3>1 DEF TypeOK
    <3>3. QED
      BY <3>1, <3>2, ExitIInv
  <2>3. QED
    BY <2>1, <2>2
<1>4. CASE Tick
  BY <1>0, <1>4, WaitIInv DEF Tick, WindowInv
<1>5. CASE GetHeight
  BY <1>5, GetHeightIInv
<1>6. CASE RpcFails
  BY <1>0, <1>6, CatchIInv DEF RpcFails, WindowInv
<1>7. CASE GetLogs
  BY <1>7, GetLogsIInv
<1>8. CASE StartHandler
  BY <1>8, StartHandlerIInv
<1>9. CASE SettleHandler
  BY <1>9, SettleHandlerIInv
<1>10. CASE FinishWindow
  BY <1>10, FinishWindowIInv
<1>11. CASE SaveFails
  BY <1>11, SaveFailsIInv
<1>12. CASE Interrupt
  BY <1>12, InterruptIInv
<1>13. CASE Crash
  BY <1>13, CrashIInv
<1>14. CASE UNCHANGED vars
  <2>1. UNCHANGED <<logVars, pc, memVars, file, crashes, histVars>>
    BY <1>14 DEF vars
  <2>2. QED
    BY <2>1, IntercomAssumption, EventLogAssumption
    DEF logVars, memVars, histVars, IInv, TypeOK, LogTypeOK, ChainInv, CheckpointInv,
        WindowInv, HistoryInv, Final, Covered, EventsIn, Occurrences, PC
<1>15. QED
  BY <1>1, <1>2, <1>3, <1>4, <1>5, <1>6, <1>7, <1>8, <1>9, <1>10, <1>11, <1>12,
     <1>13, <1>14 DEF Next

(* The inductive invariant holds in every reachable state.                 *)
THEOREM InductiveInvariant == Spec => []IInv
<1>1. QED
  BY InitIInv, NextIInv, PTL DEF Spec

(* Every variable stays in its type.                                       *)
THEOREM TypeCorrect == Spec => []TypeOK
<1>1. IInv => TypeOK
  BY DEF IInv
<1>2. QED
  BY <1>1, InductiveInvariant, PTL

(* The checkpoint file never runs ahead of the handlers, in any number of  *)
(* crashes, signals, failed requests, failed writes and reorganisations.   *)
THEOREM NoEventSkippedHolds == Spec => []NoEventSkipped
<1>1. IInv => NoEventSkipped
  BY DEF IInv, CheckpointInv, NoEventSkipped
<1>2. QED
  BY <1>1, InductiveInvariant, PTL

(* No handler is called for an event that is taken back later.             *)
THEOREM OnlyFinalEventsHandledHolds == Spec => []OnlyFinalEventsHandled
<1>1. IInv => OnlyFinalEventsHandled
  BY DEF IInv, HistoryInv, OnlyFinalEventsHandled
<1>2. QED
  BY <1>1, InductiveInvariant, PTL

-----------------------------------------------------------------------------
(* The events before the one that is started now have all been started, and *)
(* settled if handlers do not overlap.                                      *)
LEMMA EarlierEventsFirst ==
  ASSUME IInv, NEW w \in pending, MayStart(w), pc = "handle"
  PROVE  EventsIn(1, w[1] - 1) \subseteq IF Parallel THEN started ELSE settled
<1>0. TypeOK /\ ChainInv /\ CheckpointInv /\ WindowInv /\ HistoryInv
  BY DEF IInv
<1> USE EventLogAssumption, IntercomAssumption
<1>1. /\ w[1] \in Int /\ fromBlock <= w[1] /\ w[1] <= toBlock
      /\ fromBlock = lastProcessed + 1 /\ lastProcessed \in Nat /\ toBlock \in Int
  BY <1>0 DEF WindowInv, EventsIn, TypeOK, Occurrences, Blocks
<1>2. ASSUME NEW v \in EventsIn(1, w[1] - 1)
      PROVE  v \in inflight \cup settled
  <2>1. /\ v \in Blocks \X Events /\ v[1] \in Int /\ 1 <= v[1] /\ v[1] < w[1]
        /\ chain[v[1]] = v[2]
    BY <1>1, <1>2 DEF EventsIn, Blocks
  <2>2. CASE v[1] <= lastProcessed
    <3>1. v \in EventsIn(1, lastProcessed)
      BY <2>1, <2>2 DEF EventsIn
    <3>2. QED
      BY <3>1, <1>0 DEF CheckpointInv, Covered
  <2>3. CASE v[1] > lastProcessed
    <3>1. fromBlock <= v[1] /\ v[1] <= toBlock
      BY <1>1, <2>1, <2>3
    <3>2. v \in EventsIn(fromBlock, toBlock)
      BY <2>1, <3>1 DEF EventsIn
    <3>3. v \in pending \cup inflight \cup settled
      BY <3>2, <1>0 DEF WindowInv
    <3>4. v \notin pending
      BY <1>1, <2>1 DEF MayStart
    <3>5. QED
      BY <3>3, <3>4
  <2>4. QED
    BY <1>1, <2>1, <2>2, <2>3
<1>3. CASE Parallel
  BY <1>0, <1>2, <1>3 DEF HistoryInv
<1>4. CASE ~Parallel
  BY <1>2, <1>4 DEF MayStart
<1>5. QED
  BY <1>3, <1>4

(* Only StartHandler extends the history of started events.                *)
LEMMA StartedGrows ==
  ASSUME [Next]_vars, started' # started
  PROVE  StartHandler
<1>1. started' = started \/ StartHandler
  BY DEF Next, vars, histVars, Environment, Boot, ReInit, Tick, GetHeight, RpcFails, GetLogs,
         SettleHandler, FinishWindow, SaveFails, Interrupt, Crash
<1>2. QED
  BY <1>1

(* Handlers are called in the order of the chain.                          *)
THEOREM InOrderHolds == Spec => InOrder
<1>1. IInv /\ [Next]_vars =>
        [\A w \in started' \ started :
           EventsIn(1, w[1] - 1) \subseteq IF Parallel THEN started ELSE settled]_vars
  <2> SUFFICES ASSUME IInv, [Next]_vars, NEW w \in started' \ started
               PROVE  EventsIn(1, w[1] - 1) \subseteq IF Parallel THEN started ELSE settled
    OBVIOUS
  <2>1. StartHandler
    BY StartedGrows
  <2>2. w \in pending /\ MayStart(w) /\ pc = "handle"
    BY <2>1 DEF StartHandler
  <2>3. QED
    BY <2>2, EarlierEventsFirst
<1>2. QED
  BY <1>1, InductiveInvariant, PTL DEF Spec, InOrder

(* A stopping process leaves no handler behind.                            *)
THEOREM GracefulStopHolds == Spec => GracefulStop
<1>1. IInv /\ [Next]_vars =>
        [(pc = "handle" /\ pc' = "down" /\ UNCHANGED crashes) =>
           inflight = {} /\ EventsIn(fromBlock, toBlock) \subseteq settled]_vars
  <2> SUFFICES ASSUME IInv, [Next]_vars, pc = "handle", pc' = "down", UNCHANGED crashes
               PROVE  inflight = {} /\ EventsIn(fromBlock, toBlock) \subseteq settled
    OBVIOUS
  <2>1. pc # pc'
    OBVIOUS
  <2>2. FinishWindow \/ SaveFails \/ Crash
    BY <2>1 DEF Next, vars, Environment, Boot, ReInit, Tick, GetHeight, RpcFails, GetLogs,
                StartHandler, SettleHandler, Interrupt
  <2>3. ~Crash
    BY DEF Crash, IInv, TypeOK
  <2>4. pending = {} /\ inflight = {}
    BY <2>2, <2>3 DEF FinishWindow, SaveFails, AllSettled
  <2>5. QED
    BY <2>4 DEF IInv, WindowInv
<1>2. QED
  BY <1>1, InductiveInvariant, PTL DEF Spec, GracefulStop

(* The communicator implements the abstract feed of events.                *)
THEOREM Refinement == Spec => ImplementsFeed
<1>1. Init => Feed!FeedInit
  BY DEF Init, LogInit, Feed!FeedInit, Feed!LogInit, Blocks, Feed!Blocks
<1>2. IInv /\ [Next]_vars => [Feed!FeedNext]_(Feed!feedVars)
  <2> SUFFICES ASSUME IInv, [Next]_vars
               PROVE  Feed!FeedNext \/ UNCHANGED Feed!feedVars
    OBVIOUS
  <2>1. CASE Environment
    BY <2>1 DEF Environment, histVars, LogNext, Mine, Revert, Blocks,
       Feed!FeedNext, Feed!LogNext, Feed!Mine, Feed!Revert, Feed!Blocks
  <2>2. CASE StartHandler
    <3>1. PICK w \in pending :
            /\ pc = "handle" /\ MayStart(w)
            /\ started' = started \cup {w} /\ UNCHANGED logVars
      BY <2>2 DEF StartHandler
    <3>2. EventsIn(1, w[1] - 1) \subseteq started
      BY <3>1, EarlierEventsFirst DEF IInv, HistoryInv
    <3>3. w \in Blocks \X Events /\ w[1] \in 1..MaxHeight /\ chain[w[1]] = w[2]
          /\ w[1] <= toBlock /\ toBlock + Confirmations <= top /\ toBlock \in Int /\ top \in Int
      BY <3>1, EventLogAssumption DEF IInv, WindowInv, EventsIn, TypeOK, LogTypeOK, Blocks, Occurrences
    <3>4. w[1] + Confirmations <= top
      BY <3>3, IntercomAssumption
    <3>5. w \in EventsIn(1, MaxHeight)
      BY <3>3, EventLogAssumption DEF EventsIn, Blocks
    <3>6. Feed!Deliver
      BY <3>1, <3>2, <3>4, <3>5 DEF Feed!Deliver, Feed!EventsIn, Feed!Blocks, Feed!logVars,
         EventsIn, Blocks, logVars
    <3>7. QED
      BY <3>6 DEF Feed!FeedNext
  <2>3. CASE ~Environment /\ ~StartHandler
    BY <2>3 DEF Next, vars, logVars, histVars, Boot, ReInit, Tick, GetHeight, RpcFails, GetLogs,
       SettleHandler, FinishWindow, SaveFails, Interrupt, Crash, Feed!feedVars, Feed!logVars
  <2>4. QED
    BY <2>1, <2>2, <2>3
<1>3. QED
  BY <1>1, <1>2, InductiveInvariant, PTL DEF Spec, ImplementsFeed, Feed!FeedSpec
=============================================================================
