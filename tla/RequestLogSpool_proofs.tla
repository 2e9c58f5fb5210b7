---------------------- MODULE RequestLogSpool_proofs ----------------------
\* Proofs about RequestLogSpool, for any set of requests, any capacity and
\* any number of process failures, power losses and failing file
\* operations.  Every step preserves SpoolInv, one lemma per conjunct, each
\* with one case per action; CheckpointCovered and SavedNeverLost are
\* conjuncts of it.  RecoveryInv adds what the process knows of its files,
\* who holds a slot, what each open may have reported, the wake-ups and the
\* budget, and the two together imply SpoolSound.
EXTENDS RequestLogSpool, FiniteSetTheorems, SequenceTheorems, TLAPS

\* The memory of a dead process is well typed.
LEMMA DeadType ==
  ASSUME TypeOK, Dead
  PROVE  /\ life' \in [Ids -> LifeStates]
         /\ ids' \subseteq Ids /\ retained' \subseteq Ids /\ failed' \in
            BOOLEAN
         /\ wEnd' \in Nat /\ end' \in Nat /\ ckptMem' \in Nat /\ synced' \in
            Nat
         /\ pressure' \in BOOLEAN /\ pc' \in Steps /\ cur' \in Ids \cup {Nothing}
         /\ owed' \subseteq Ids /\ wake' \in 0..QueueCap
         /\ ing' \in IngestSteps /\ reader' \in Nat /\ batchEnd' \in Nat
<1>1. life' \in [Ids -> LifeStates] BY DEF Dead, TypeOK, LifeStates
<1>2. ids' \subseteq Ids /\ retained' \subseteq Ids /\ failed' \in BOOLEAN BY DEF Dead
<1>3. /\ wEnd' \in Nat /\ end' \in Nat /\ ckptMem' \in Nat /\ synced' \in Nat
      /\ reader' \in Nat /\ batchEnd' \in Nat
  BY DEF Dead
<1>4. pc' \in Steps /\ cur' \in Ids \cup {Nothing} /\ pressure' \in BOOLEAN BY DEF Dead, Steps
<1>5. owed' \subseteq Ids /\ wake' \in 0..QueueCap /\ ing' \in IngestSteps
  BY SpoolAssumption DEF Dead, IngestSteps
<1> QED BY <1>1, <1>2, <1>3, <1>4, <1>5

\* What a failing compaction may leave in the files.
LEMMA CompactFailsEffect ==
  ASSUME CompactFails
  PROVE  /\ \/ log' = log /\ durable' = durable
            \/ pc = "cTrunc" /\ log' = <<>> /\ durable' = 0
         /\ \/ UNCHANGED <<ckpt, ckptMaybe>>
            \/ /\ pc = "cCkpt"
               /\ ckpt' \in {ckpt, 0} /\ ckptMaybe' = ckptMaybe \cup {0}
BY DEF CompactFails

\* A batch holds events of the log.
LEMMA BatchInLog ==
  ASSUME SpoolInv, ing = "accepting" PROVE Batch \subseteq Frames(Len(log))
<1>1. Running /\ ~Cut => wEnd = Len(log) BY DEF SpoolInv, OffsetInv
<1>2. Running BY DEF SpoolInv, MutexInv, Running
<1>3. ~Cut BY <1>2 DEF SpoolInv, TypeOK, OffsetInv, Cut, MutexInv
<1>4. reader \in Nat /\ batchEnd \in Nat /\ batchEnd <= Len(log)
  BY <1>1, <1>2, <1>3 DEF SpoolInv, TypeOK, OffsetInv
<1> QED BY <1>4, LenProperties DEF Batch, Frames, SpoolInv, TypeOK

LEMMA BatchType ==
  ASSUME SpoolInv, ing = "accepting" PROVE Batch \subseteq Ids
BY BatchInLog, LenProperties DEF Frames, SpoolInv, TypeOK

\* Every step preserves the type invariant.
LEMMA StepType ==
  SpoolInv /\ [Next]_vars => TypeOK'
<1> SUFFICES ASSUME SpoolInv, [Next]_vars PROVE TypeOK' OBVIOUS
<1> USE SpoolAssumption DEF SpoolInv, TypeOK, SlotStates, LifeStates, Steps,
   IngestSteps, Nothing, MutexInv, Compacting, vars, disk, files, writer, offsets,
   worker, history, bounds
<1>1. CASE Open
  <2>1. {i \in Found : ReadTerminal(i)} \subseteq Ids BY DEF Found
  <2>2. {i \in Found : ~ReadTerminal(i)} \subseteq Ids BY DEF Found
  <2>3. Cardinality({i \in Found : ReadTerminal(i)}) \in Nat
    BY <2>1, FS_Subset, FS_CardinalityType
  <2> HIDE DEF Found, ReadTerminal
  <2>4. replays' \in Nat /\ ids' \subseteq Ids /\ retained' \subseteq Ids /\
     unknown' \subseteq Ids
    <3>1. CASE ckpt > Len(log) BY <1>1, <3>1 DEF Open, writer
    <3>2. CASE ~(ckpt > Len(log))
      <4>1. ids' \subseteq Ids /\ retained' \subseteq Ids /\ unknown' \subseteq
         Ids
        BY <1>1, <3>2, <2>1, <2>2 DEF Open
      <4>2. Cardinality(ids') \in Nat BY <4>1, FS_Subset, FS_CardinalityType
      <4>3. replays' = replays + Cardinality(ids') BY <1>1, <3>2 DEF Open
      <4> QED BY <4>1, <4>2, <4>3
    <3> QED BY <3>1, <3>2
  <2>5. /\ durable' \in Nat /\ wEnd' \in Nat /\ end' \in Nat
        /\ ckptMem' \in Nat /\ synced' \in Nat
    BY <1>1, LenProperties DEF Open, writer, offsets
  <2>6. /\ failed' \in BOOLEAN /\ pressure' \in BOOLEAN /\ torn' \in BOOLEAN
        /\ phase' \in {"down", "recovering", "up", "refused"} /\ saved'
           \subseteq Ids
    BY <1>1 DEF Open, writer
  <2> QED BY <1>1, <2>4, <2>5, <2>6 DEF Open, files, worker, bounds, SlotStates, LifeStates
<1>2. CASE RecoveryDone BY <1>2 DEF RecoveryDone
<1>3. CASE RecoveryFailed
  <2>1. phase' = "down" /\ UNCHANGED <<inbox, saved, unknown, replays>>
    BY <1>3 DEF RecoveryFailed, Dead
  <2>2. Dead BY <1>3 DEF RecoveryFailed
  <2> QED BY <1>3, <2>1, <2>2, DeadType DEF RecoveryFailed, files, disk, bounds
<1>4. CASE Crash
  <2>1. phase' = "down" /\ UNCHANGED <<inbox, saved, unknown, replays>> BY <1>4 DEF Crash, Dead
  <2>2. Dead BY <1>4 DEF Crash
  <2> QED BY <1>4, <2>1, <2>2, DeadType DEF Crash, files, disk, bounds
<1>5. CASE PowerFailure
  <2>1. phase' = "down" /\ UNCHANGED <<inbox, saved, unknown, replays>>
    BY <1>5 DEF PowerFailure, Dead
  <2>2. Dead BY <1>5 DEF PowerFailure
  <2>3. log' \in Seq(Ids) /\ durable' \in Nat
    <3>1. PICK n \in durable..Len(log) : log' = SubSeq(log, 1, n) BY <1>5 DEF PowerFailure
    <3>2. log' \in Seq(Ids) BY <3>1, SubSeqProperties
    <3> QED BY <1>5, <3>2 DEF PowerFailure
  <2> QED BY <1>5, <2>1, <2>2, <2>3, DeadType DEF PowerFailure, files, disk, bounds
<1>6. CASE \E i \in Ids : AdmitUnavailable(i)
  BY <1>6 DEF AdmitUnavailable, Admitting, Deny, Smaller
<1>7. CASE \E i \in Ids : AdmitCapacity(i) BY <1>7 DEF AdmitCapacity, Admitting, Deny, Smaller
<1>8. CASE \E i \in Ids : AdmitBegin(i) BY <1>8 DEF AdmitBegin, Admitting
<1>9. CASE \E i \in Ids : Notify(i) BY <1>9 DEF Notify, Smaller
<1>10. CASE \E i \in Ids : AppendReserved(i) BY <1>10 DEF AppendReserved, Ending
<1>11. CASE \E i \in Ids : AppendUnreserved(i) BY <1>11 DEF AppendUnreserved, Ending
<1>12. CASE \E i \in Ids : AppendRefused(i) BY <1>12 DEF AppendRefused, Ending, End
<1>12a. CASE \E i \in Ids : AppendOversized(i) BY <1>12a DEF AppendOversized, Ending, End
<1>13. CASE ReserveSlot BY <1>13 DEF ReserveSlot
<1>14. CASE ReserveIntent BY <1>14 DEF ReserveIntent
<1>15. CASE SaveBegin BY <1>15 DEF SaveBegin
<1>16. CASE SaveEnd BY <1>16 DEF SaveEnd, End
<1>17. CASE WriteFrame BY <1>17 DEF WriteFrame
<1>18. CASE SyncFrame BY <1>18 DEF SyncFrame
<1>19. CASE Publish BY <1>19 DEF Publish, End
<1>20. CASE RetireIntent BY <1>20 DEF RetireIntent
<1>21. CASE RetireSlot BY <1>21 DEF RetireSlot, End
<1>22. CASE CompactSync BY <1>22 DEF CompactSync
<1>23. CASE CompactCheckpoint BY <1>23 DEF CompactCheckpoint
<1>24. CASE CompactTruncate
  <2>1. log' \in Seq(Ids) BY <1>24, EmptySeq DEF CompactTruncate
  <2> QED BY <1>24, <2>1 DEF CompactTruncate, Steps, IngestSteps, files, history, bounds
<1>25. CASE IngestRead BY <1>25 DEF IngestRead, Smaller
<1>26. CASE Accept
  BY <1>26, BatchType DEF Accept, IngestSteps, disk, writer, offsets, history, bounds
<1>27. CASE Checkpoint BY <1>27 DEF Checkpoint
<1>28. CASE IngestDrained BY <1>28 DEF IngestDrained
<1>29. CASE CompactBegin BY <1>29 DEF CompactBegin, Drained
<1>30. CASE CompactSkip BY <1>30 DEF CompactSkip, Drained
<1>31. CASE Wake BY <1>31 DEF Wake
<1>32. CASE AcceptFails
  BY <1>32, BatchType DEF AcceptFails, IngestSteps, disk, writer, offsets, history, bounds
<1>33. CASE SyncTick BY <1>33 DEF SyncTick
<1>34. CASE ReserveFails BY <1>34 DEF ReserveFails, Fault, Deny, Smaller
<1>35. CASE AppendFails
  <2>1. cur \in Ids BY <1>35 DEF AppendFails, MutexInv, Compacting
  <2>2. slot' \in [Ids -> SlotStates] /\ intent' \subseteq Ids /\ torn' \in
     BOOLEAN
    BY <1>35, <2>1 DEF AppendFails, files, SlotStates
  <2>3. life' \in [Ids -> LifeStates] /\ faults' \in 0..MaxFaults /\ crashes'
     \in 0..MaxCrashes
    BY <1>35, <2>1 DEF AppendFails, End, Fault, LifeStates
  <2> QED BY <1>35, <2>2, <2>3 DEF AppendFails, Steps, Nothing, offsets, worker
<1>36. CASE IngestReadFails BY <1>36 DEF IngestReadFails, Fault
<1>37. CASE CheckpointFails BY <1>37 DEF CheckpointFails, Fault
<1>38. CASE CompactFails
  <2>2. log' \in Seq(Ids) /\ durable' \in Nat
    <3>1. <<>> \in Seq(Ids) BY EmptySeq
    <3>2. CASE log' = log /\ durable' = durable BY <3>2
    <3>3. CASE log' = <<>> /\ durable' = 0 BY <3>1, <3>3
    <3> QED BY <1>38, <3>2, <3>3, CompactFailsEffect
  <2>3. CASE UNCHANGED <<ckpt, ckptMaybe>>
    BY <1>38, <2>2, <2>3 DEF CompactFails, Fault, Steps, IngestSteps, files, offsets, history
  <2>4. CASE ckpt' \in {ckpt, 0} /\ ckptMaybe' = ckptMaybe \cup {0}
    <3>1. ckpt' \in Nat BY <2>4
    <3>2. ckptMaybe' \subseteq Nat BY <2>4
    <3> QED
      BY <1>38, <2>2, <3>1, <3>2 DEF CompactFails, Fault, Steps, IngestSteps, files, offsets,
        history
  <2> QED BY <1>38, <2>3, <2>4, CompactFailsEffect
<1>39. CASE SyncFails BY <1>39 DEF SyncFails, Fault
<1>40. CASE UNCHANGED vars BY <1>40
<1> QED BY <1>1, <1>2, <1>3, <1>4, <1>5, <1>6, <1>7, <1>8, <1>9, <1>10, <1>11, <1>12, <1>12a,
     <1>13, <1>14, <1>15, <1>16, <1>17, <1>18, <1>19, <1>20, <1>21, <1>22,
     <1>23, <1>24, <1>25, <1>26, <1>27, <1>28, <1>29, <1>30, <1>31, <1>32,
     <1>33, <1>34, <1>35, <1>36, <1>37, <1>38, <1>39, <1>40
     DEF Next, Admit, WriterStep, AppendStep, IngestStep, Fails

\* Every step hands the mutex over as MutexInv says.
LEMMA StepMutex ==
  SpoolInv /\ [Next]_vars => MutexInv'
<1> SUFFICES ASSUME SpoolInv, [Next]_vars PROVE MutexInv' OBVIOUS
<1> USE DEF SpoolInv, TypeOK, MutexInv, Running, Compacting, Steps,
   IngestSteps, Nothing, vars, disk, files, writer, offsets, worker, history,
   bounds
<1>1. CASE Open BY <1>1 DEF Open, Found, ReadTerminal
<1>2. CASE RecoveryDone BY <1>2 DEF RecoveryDone
<1>3. CASE RecoveryFailed BY <1>3 DEF RecoveryFailed, Dead
<1>4. CASE Crash BY <1>4 DEF Crash, Dead
<1>5. CASE PowerFailure BY <1>5 DEF PowerFailure, Dead
<1>6. CASE \E i \in Ids : AdmitUnavailable(i)
  BY <1>6 DEF AdmitUnavailable, Admitting, Deny, Smaller
<1>7. CASE \E i \in Ids : AdmitCapacity(i) BY <1>7 DEF AdmitCapacity, Admitting, Deny, Smaller
<1>8. CASE \E i \in Ids : AdmitBegin(i) BY <1>8 DEF AdmitBegin, Admitting
<1>9. CASE \E i \in Ids : Notify(i) BY <1>9 DEF Notify, Smaller
<1>10. CASE \E i \in Ids : AppendReserved(i) BY <1>10 DEF AppendReserved, Ending
<1>11. CASE \E i \in Ids : AppendUnreserved(i) BY <1>11 DEF AppendUnreserved, Ending
<1>12. CASE \E i \in Ids : AppendRefused(i) BY <1>12 DEF AppendRefused, Ending, End
<1>12a. CASE \E i \in Ids : AppendOversized(i) BY <1>12a DEF AppendOversized, Ending, End
<1>13. CASE ReserveSlot BY <1>13 DEF ReserveSlot
<1>14. CASE ReserveIntent BY <1>14 DEF ReserveIntent
<1>15. CASE SaveBegin BY <1>15 DEF SaveBegin
<1>16. CASE SaveEnd BY <1>16 DEF SaveEnd, End
<1>17. CASE WriteFrame BY <1>17 DEF WriteFrame
<1>18. CASE SyncFrame BY <1>18 DEF SyncFrame
<1>19. CASE Publish BY <1>19 DEF Publish, End
<1>20. CASE RetireIntent BY <1>20 DEF RetireIntent
<1>21. CASE RetireSlot BY <1>21 DEF RetireSlot, End
<1>22. CASE CompactSync BY <1>22 DEF CompactSync
<1>23. CASE CompactCheckpoint BY <1>23 DEF CompactCheckpoint
<1>24. CASE CompactTruncate BY <1>24 DEF CompactTruncate
<1>25. CASE IngestRead BY <1>25 DEF IngestRead, Smaller
<1>26. CASE Accept BY <1>26 DEF Accept, Batch
<1>27. CASE Checkpoint BY <1>27 DEF Checkpoint
<1>28. CASE IngestDrained BY <1>28 DEF IngestDrained
<1>29. CASE CompactBegin BY <1>29 DEF CompactBegin, Drained
<1>30. CASE CompactSkip BY <1>30 DEF CompactSkip, Drained
<1>31. CASE Wake BY <1>31 DEF Wake
<1>32. CASE AcceptFails BY <1>32 DEF AcceptFails, Batch
<1>33. CASE SyncTick BY <1>33 DEF SyncTick
<1>34. CASE ReserveFails BY <1>34 DEF ReserveFails, Fault, Deny, Smaller
<1>35. CASE AppendFails BY <1>35 DEF AppendFails, Fault, End
<1>36. CASE IngestReadFails BY <1>36 DEF IngestReadFails, Fault
<1>37. CASE CheckpointFails BY <1>37 DEF CheckpointFails, Fault
<1>38. CASE CompactFails BY <1>38 DEF CompactFails, Fault
<1>39. CASE SyncFails BY <1>39 DEF SyncFails, Fault
<1>40. CASE UNCHANGED vars BY <1>40
<1> QED BY <1>1, <1>2, <1>3, <1>4, <1>5, <1>6, <1>7, <1>8, <1>9, <1>10, <1>11, <1>12, <1>12a,
     <1>13, <1>14, <1>15, <1>16, <1>17, <1>18, <1>19, <1>20, <1>21, <1>22,
     <1>23, <1>24, <1>25, <1>26, <1>27, <1>28, <1>29, <1>30, <1>31, <1>32,
     <1>33, <1>34, <1>35, <1>36, <1>37, <1>38, <1>39, <1>40
     DEF Next, Admit, WriterStep, AppendStep, IngestStep, Fails

\* Every step keeps published offsets inside the file.
LEMMA StepOffset ==
  SpoolInv /\ [Next]_vars => OffsetInv'
<1> SUFFICES ASSUME SpoolInv, [Next]_vars PROVE OffsetInv' OBVIOUS
<1> USE DEF SpoolInv, TypeOK, OffsetInv, Cut, MutexInv, Running, Compacting,
   vars, disk, files, writer, offsets, worker, history, bounds
<1>1. CASE Open BY <1>1 DEF Open, Found, ReadTerminal
<1>2. CASE RecoveryDone BY <1>2 DEF RecoveryDone
<1>3. CASE RecoveryFailed BY <1>3 DEF RecoveryFailed, Dead
<1>4. CASE Crash BY <1>4 DEF Crash, Dead
<1>5. CASE PowerFailure BY <1>5 DEF PowerFailure, Dead
<1>6. CASE \E i \in Ids : AdmitUnavailable(i)
  BY <1>6 DEF AdmitUnavailable, Admitting, Deny, Smaller
<1>7. CASE \E i \in Ids : AdmitCapacity(i) BY <1>7 DEF AdmitCapacity, Admitting, Deny, Smaller
<1>8. CASE \E i \in Ids : AdmitBegin(i) BY <1>8 DEF AdmitBegin, Admitting
<1>9. CASE \E i \in Ids : Notify(i) BY <1>9 DEF Notify, Smaller
<1>10. CASE \E i \in Ids : AppendReserved(i) BY <1>10 DEF AppendReserved, Ending
<1>11. CASE \E i \in Ids : AppendUnreserved(i) BY <1>11 DEF AppendUnreserved, Ending
<1>12. CASE \E i \in Ids : AppendRefused(i) BY <1>12 DEF AppendRefused, Ending, End
<1>12a. CASE \E i \in Ids : AppendOversized(i) BY <1>12a DEF AppendOversized, Ending, End
<1>13. CASE ReserveSlot BY <1>13 DEF ReserveSlot
<1>14. CASE ReserveIntent BY <1>14 DEF ReserveIntent
<1>15. CASE SaveBegin BY <1>15 DEF SaveBegin
<1>16. CASE SaveEnd BY <1>16 DEF SaveEnd, End
<1>17. CASE WriteFrame BY <1>17 DEF WriteFrame
<1>18. CASE SyncFrame BY <1>18 DEF SyncFrame
<1>19. CASE Publish BY <1>19 DEF Publish, End
<1>20. CASE RetireIntent BY <1>20 DEF RetireIntent
<1>21. CASE RetireSlot BY <1>21 DEF RetireSlot, End
<1>22. CASE CompactSync BY <1>22 DEF CompactSync
<1>23. CASE CompactCheckpoint BY <1>23 DEF CompactCheckpoint
<1>24. CASE CompactTruncate BY <1>24 DEF CompactTruncate
<1>25. CASE IngestRead
  BY <1>25, SpoolAssumption DEF IngestRead, Smaller, OffsetInv, Cut, MutexInv, Running,
    Compacting, disk, writer, offsets, history, bounds
<1>26. CASE Accept BY <1>26 DEF Accept, Batch
<1>27. CASE Checkpoint BY <1>27 DEF Checkpoint
<1>28. CASE IngestDrained BY <1>28 DEF IngestDrained
<1>29. CASE CompactBegin BY <1>29 DEF CompactBegin, Drained
<1>30. CASE CompactSkip BY <1>30 DEF CompactSkip, Drained
<1>31. CASE Wake BY <1>31 DEF Wake
<1>32. CASE AcceptFails BY <1>32 DEF AcceptFails, Batch
<1>33. CASE SyncTick BY <1>33 DEF SyncTick
<1>34. CASE ReserveFails BY <1>34 DEF ReserveFails, Fault, Deny, Smaller
<1>35. CASE AppendFails BY <1>35 DEF AppendFails, Fault, End
<1>36. CASE IngestReadFails BY <1>36 DEF IngestReadFails, Fault
<1>37. CASE CheckpointFails BY <1>37 DEF CheckpointFails, Fault
<1>38. CASE CompactFails BY <1>38 DEF CompactFails, Fault
<1>39. CASE SyncFails BY <1>39 DEF SyncFails, Fault
<1>40. CASE UNCHANGED vars BY <1>40
<1> QED BY <1>1, <1>2, <1>3, <1>4, <1>5, <1>6, <1>7, <1>8, <1>9, <1>10, <1>11, <1>12, <1>12a,
     <1>13, <1>14, <1>15, <1>16, <1>17, <1>18, <1>19, <1>20, <1>21, <1>22,
     <1>23, <1>24, <1>25, <1>26, <1>27, <1>28, <1>29, <1>30, <1>31, <1>32,
     <1>33, <1>34, <1>35, <1>36, <1>37, <1>38, <1>39, <1>40
     DEF Next, Admit, WriterStep, AppendStep, IngestStep, Fails

\* Every step keeps the possible checkpoints inside the file.
LEMMA StepBoundary ==
  SpoolInv /\ [Next]_vars => BoundaryInv'
<1> SUFFICES ASSUME SpoolInv, [Next]_vars PROVE BoundaryInv' OBVIOUS
<1> USE DEF SpoolInv, TypeOK, BoundaryInv, OffsetInv, Cut, MutexInv, Running,
   Compacting, vars, disk, files, writer, offsets, worker, history, bounds
<1>1. CASE Open BY <1>1 DEF Open, Found, ReadTerminal
<1>2. CASE RecoveryDone BY <1>2 DEF RecoveryDone
<1>3. CASE RecoveryFailed BY <1>3 DEF RecoveryFailed, Dead
<1>4. CASE Crash BY <1>4 DEF Crash, Dead
<1>5. CASE PowerFailure BY <1>5 DEF PowerFailure, Dead
<1>6. CASE \E i \in Ids : AdmitUnavailable(i)
  BY <1>6 DEF AdmitUnavailable, Admitting, Deny, Smaller
<1>7. CASE \E i \in Ids : AdmitCapacity(i) BY <1>7 DEF AdmitCapacity, Admitting, Deny, Smaller
<1>8. CASE \E i \in Ids : AdmitBegin(i) BY <1>8 DEF AdmitBegin, Admitting
<1>9. CASE \E i \in Ids : Notify(i) BY <1>9 DEF Notify, Smaller
<1>10. CASE \E i \in Ids : AppendReserved(i) BY <1>10 DEF AppendReserved, Ending
<1>11. CASE \E i \in Ids : AppendUnreserved(i) BY <1>11 DEF AppendUnreserved, Ending
<1>12. CASE \E i \in Ids : AppendRefused(i) BY <1>12 DEF AppendRefused, Ending, End
<1>12a. CASE \E i \in Ids : AppendOversized(i) BY <1>12a DEF AppendOversized, Ending, End
<1>13. CASE ReserveSlot BY <1>13 DEF ReserveSlot
<1>14. CASE ReserveIntent BY <1>14 DEF ReserveIntent
<1>15. CASE SaveBegin BY <1>15 DEF SaveBegin
<1>16. CASE SaveEnd BY <1>16 DEF SaveEnd, End
<1>17. CASE WriteFrame BY <1>17 DEF WriteFrame
<1>18. CASE SyncFrame BY <1>18 DEF SyncFrame
<1>19. CASE Publish BY <1>19 DEF Publish, End
<1>20. CASE RetireIntent BY <1>20 DEF RetireIntent
<1>21. CASE RetireSlot BY <1>21 DEF RetireSlot, End
<1>22. CASE CompactSync BY <1>22 DEF CompactSync
<1>23. CASE CompactCheckpoint BY <1>23 DEF CompactCheckpoint
<1>24. CASE CompactTruncate BY <1>24 DEF CompactTruncate
<1>25. CASE IngestRead BY <1>25 DEF IngestRead, Smaller
<1>26. CASE Accept BY <1>26 DEF Accept, Batch
<1>27. CASE Checkpoint
  <2>1. \A c \in ckptMaybe \cup {ckpt} : c <= Len(log)
    BY <1>27 DEF Checkpoint, BoundaryInv, MutexInv, Running
  <2>2. batchEnd <= Len(log)
    BY <1>27 DEF Checkpoint, OffsetInv, Cut, MutexInv, Running, Compacting
  <2>3. \A c \in ckptMaybe' \cup {ckpt'} : c \in ckptMaybe \cup {ckpt,
     batchEnd}
    BY <1>27 DEF Checkpoint
  <2>4. log' = log BY <1>27 DEF Checkpoint
  <2> QED BY <2>1, <2>2, <2>3, <2>4
<1>28. CASE IngestDrained BY <1>28 DEF IngestDrained
<1>29. CASE CompactBegin BY <1>29 DEF CompactBegin, Drained
<1>30. CASE CompactSkip BY <1>30 DEF CompactSkip, Drained
<1>31. CASE Wake BY <1>31 DEF Wake
<1>32. CASE AcceptFails BY <1>32 DEF AcceptFails, Batch
<1>33. CASE SyncTick BY <1>33 DEF SyncTick
<1>34. CASE ReserveFails BY <1>34 DEF ReserveFails, Fault, Deny, Smaller
<1>35. CASE AppendFails BY <1>35 DEF AppendFails, Fault, End
<1>36. CASE IngestReadFails BY <1>36 DEF IngestReadFails, Fault
<1>37. CASE CheckpointFails BY <1>37 DEF CheckpointFails, Fault
<1>38. CASE CompactFails
  <2>1. \A c \in ckptMaybe \cup {ckpt} : c <= Len(log)
    BY <1>38 DEF CompactFails, BoundaryInv, MutexInv, Running
  <2>2. CASE pc = "cTrunc"
    <3>1. ckptMaybe' = {0} /\ ckpt' = 0 BY <1>38, <2>2, CompactFailsEffect DEF OffsetInv
    <3>2. Len(log') \in Nat BY <1>38, StepType, LenProperties
    <3> QED BY <3>1, <3>2 DEF BoundaryInv
  <2>3. CASE pc # "cTrunc"
    <3>1. log' = log /\ \A c \in ckptMaybe' \cup {ckpt'} : c \in ckptMaybe \cup
       {ckpt, 0}
      BY <1>38, <2>3, CompactFailsEffect
    <3>2. Len(log) \in Nat BY LenProperties
    <3>3. \A c \in ckptMaybe \cup {ckpt, 0} : c <= Len(log) BY <2>1, <3>2
    <3>4. \A c \in ckptMaybe' \cup {ckpt'} : c <= Len(log') BY <3>1, <3>3
    <3> QED BY <3>4
  <2> QED BY <2>2, <2>3
<1>39. CASE SyncFails BY <1>39 DEF SyncFails, Fault
<1>40. CASE UNCHANGED vars BY <1>40
<1> QED BY <1>1, <1>2, <1>3, <1>4, <1>5, <1>6, <1>7, <1>8, <1>9, <1>10, <1>11, <1>12, <1>12a,
     <1>13, <1>14, <1>15, <1>16, <1>17, <1>18, <1>19, <1>20, <1>21, <1>22,
     <1>23, <1>24, <1>25, <1>26, <1>27, <1>28, <1>29, <1>30, <1>31, <1>32,
     <1>33, <1>34, <1>35, <1>36, <1>37, <1>38, <1>39, <1>40
     DEF Next, Admit, WriterStep, AppendStep, IngestStep, Fails

\* Every step keeps memory from running ahead of the database.
LEMMA StepDelivered ==
  SpoolInv /\ [Next]_vars => DeliveredInv'
<1> SUFFICES ASSUME SpoolInv, [Next]_vars PROVE DeliveredInv' OBVIOUS
<1> USE DEF SpoolInv, TypeOK, DeliveredInv, Covered, CheckpointCovered,
   OffsetInv, Cut, MutexInv, Running, Compacting, vars, disk, files, writer,
   offsets, worker, history, bounds
<1>1. CASE Open BY <1>1 DEF Open, Found, ReadTerminal
<1>2. CASE RecoveryDone BY <1>2 DEF RecoveryDone
<1>3. CASE RecoveryFailed BY <1>3 DEF RecoveryFailed, Dead
<1>4. CASE Crash BY <1>4 DEF Crash, Dead
<1>5. CASE PowerFailure BY <1>5 DEF PowerFailure, Dead
<1>6. CASE \E i \in Ids : AdmitUnavailable(i)
  BY <1>6 DEF AdmitUnavailable, Admitting, Deny, Smaller
<1>7. CASE \E i \in Ids : AdmitCapacity(i) BY <1>7 DEF AdmitCapacity, Admitting, Deny, Smaller
<1>8. CASE \E i \in Ids : AdmitBegin(i) BY <1>8 DEF AdmitBegin, Admitting
<1>9. CASE \E i \in Ids : Notify(i) BY <1>9 DEF Notify, Smaller
<1>10. CASE \E i \in Ids : AppendReserved(i) BY <1>10 DEF AppendReserved, Ending
<1>11. CASE \E i \in Ids : AppendUnreserved(i) BY <1>11 DEF AppendUnreserved, Ending
<1>12. CASE \E i \in Ids : AppendRefused(i) BY <1>12 DEF AppendRefused, Ending, End
<1>12a. CASE \E i \in Ids : AppendOversized(i) BY <1>12a DEF AppendOversized, Ending, End
<1>13. CASE ReserveSlot BY <1>13 DEF ReserveSlot
<1>14. CASE ReserveIntent BY <1>14 DEF ReserveIntent
<1>15. CASE SaveBegin BY <1>15 DEF SaveBegin
<1>16. CASE SaveEnd BY <1>16 DEF SaveEnd, End
<1>17. CASE WriteFrame BY <1>17 DEF WriteFrame
<1>18. CASE SyncFrame BY <1>18 DEF SyncFrame
<1>19. CASE Publish BY <1>19 DEF Publish, End
<1>20. CASE RetireIntent BY <1>20 DEF RetireIntent
<1>21. CASE RetireSlot BY <1>21 DEF RetireSlot, End
<1>22. CASE CompactSync BY <1>22 DEF CompactSync
<1>23. CASE CompactCheckpoint BY <1>23 DEF CompactCheckpoint
<1>24. CASE CompactTruncate BY <1>24 DEF CompactTruncate
<1>25. CASE IngestRead BY <1>25 DEF IngestRead, Smaller
<1>26. CASE Accept BY <1>26 DEF Accept, Batch
<1>27. CASE Checkpoint BY <1>27 DEF Checkpoint
<1>28. CASE IngestDrained BY <1>28 DEF IngestDrained
<1>29. CASE CompactBegin BY <1>29 DEF CompactBegin, Drained
<1>30. CASE CompactSkip BY <1>30 DEF CompactSkip, Drained
<1>31. CASE Wake BY <1>31 DEF Wake
<1>32. CASE AcceptFails BY <1>32 DEF AcceptFails, Batch
<1>33. CASE SyncTick BY <1>33 DEF SyncTick
<1>34. CASE ReserveFails BY <1>34 DEF ReserveFails, Fault, Deny, Smaller
<1>35. CASE AppendFails BY <1>35 DEF AppendFails, Fault, End
<1>36. CASE IngestReadFails BY <1>36 DEF IngestReadFails, Fault
<1>37. CASE CheckpointFails BY <1>37 DEF CheckpointFails, Fault
<1>38. CASE CompactFails BY <1>38 DEF CompactFails, Fault
<1>39. CASE SyncFails BY <1>39 DEF SyncFails, Fault
<1>40. CASE UNCHANGED vars BY <1>40
<1> QED BY <1>1, <1>2, <1>3, <1>4, <1>5, <1>6, <1>7, <1>8, <1>9, <1>10, <1>11, <1>12, <1>12a,
     <1>13, <1>14, <1>15, <1>16, <1>17, <1>18, <1>19, <1>20, <1>21, <1>22,
     <1>23, <1>24, <1>25, <1>26, <1>27, <1>28, <1>29, <1>30, <1>31, <1>32,
     <1>33, <1>34, <1>35, <1>36, <1>37, <1>38, <1>39, <1>40
     DEF Next, Admit, WriterStep, AppendStep, IngestStep, Fails

\* Every step keeps admission files with the request that reserved them.
LEMMA StepOwnership ==
  SpoolInv /\ [Next]_vars => OwnershipInv'
<1> SUFFICES ASSUME SpoolInv, [Next]_vars PROVE OwnershipInv' OBVIOUS
<1> USE DEF SpoolInv, TypeOK, OwnershipInv, MutexInv, Running, Compacting,
   LifeStates, SlotStates, vars, disk, files, writer, offsets, worker, history,
   bounds
<1>1. CASE Open BY <1>1 DEF Open, Found, ReadTerminal
<1>2. CASE RecoveryDone BY <1>2 DEF RecoveryDone
<1>3. CASE RecoveryFailed BY <1>3 DEF RecoveryFailed, Dead
<1>4. CASE Crash BY <1>4 DEF Crash, Dead
<1>5. CASE PowerFailure BY <1>5 DEF PowerFailure, Dead
<1>6. CASE \E i \in Ids : AdmitUnavailable(i)
  BY <1>6 DEF AdmitUnavailable, Admitting, Deny, Smaller
<1>7. CASE \E i \in Ids : AdmitCapacity(i) BY <1>7 DEF AdmitCapacity, Admitting, Deny, Smaller
<1>8. CASE \E i \in Ids : AdmitBegin(i) BY <1>8 DEF AdmitBegin, Admitting
<1>9. CASE \E i \in Ids : Notify(i) BY <1>9 DEF Notify, Smaller
<1>10. CASE \E i \in Ids : AppendReserved(i) BY <1>10 DEF AppendReserved, Ending
<1>11. CASE \E i \in Ids : AppendUnreserved(i) BY <1>11 DEF AppendUnreserved, Ending
<1>12. CASE \E i \in Ids : AppendRefused(i) BY <1>12 DEF AppendRefused, Ending, End
<1>12a. CASE \E i \in Ids : AppendOversized(i) BY <1>12a DEF AppendOversized, Ending, End
<1>13. CASE ReserveSlot BY <1>13 DEF ReserveSlot
<1>14. CASE ReserveIntent BY <1>14 DEF ReserveIntent
<1>15. CASE SaveBegin BY <1>15 DEF SaveBegin
<1>16. CASE SaveEnd BY <1>16 DEF SaveEnd, End
<1>17. CASE WriteFrame BY <1>17 DEF WriteFrame
<1>18. CASE SyncFrame BY <1>18 DEF SyncFrame
<1>19. CASE Publish BY <1>19 DEF Publish, End
<1>20. CASE RetireIntent BY <1>20 DEF RetireIntent
<1>21. CASE RetireSlot BY <1>21 DEF RetireSlot, End
<1>22. CASE CompactSync BY <1>22 DEF CompactSync
<1>23. CASE CompactCheckpoint BY <1>23 DEF CompactCheckpoint
<1>24. CASE CompactTruncate BY <1>24 DEF CompactTruncate
<1>25. CASE IngestRead BY <1>25 DEF IngestRead, Smaller
<1>26. CASE Accept BY <1>26 DEF Accept, Batch
<1>27. CASE Checkpoint BY <1>27 DEF Checkpoint
<1>28. CASE IngestDrained BY <1>28 DEF IngestDrained
<1>29. CASE CompactBegin BY <1>29 DEF CompactBegin, Drained
<1>30. CASE CompactSkip BY <1>30 DEF CompactSkip, Drained
<1>31. CASE Wake BY <1>31 DEF Wake
<1>32. CASE AcceptFails BY <1>32 DEF AcceptFails, Batch
<1>33. CASE SyncTick BY <1>33 DEF SyncTick
<1>34. CASE ReserveFails BY <1>34 DEF ReserveFails, Fault, Deny, Smaller
<1>35. CASE AppendFails BY <1>35 DEF AppendFails, Fault, End
<1>36. CASE IngestReadFails BY <1>36 DEF IngestReadFails, Fault
<1>37. CASE CheckpointFails BY <1>37 DEF CheckpointFails, Fault
<1>38. CASE CompactFails BY <1>38 DEF CompactFails, Fault
<1>39. CASE SyncFails BY <1>39 DEF SyncFails, Fault
<1>40. CASE UNCHANGED vars BY <1>40
<1> QED BY <1>1, <1>2, <1>3, <1>4, <1>5, <1>6, <1>7, <1>8, <1>9, <1>10, <1>11, <1>12, <1>12a,
     <1>13, <1>14, <1>15, <1>16, <1>17, <1>18, <1>19, <1>20, <1>21, <1>22,
     <1>23, <1>24, <1>25, <1>26, <1>27, <1>28, <1>29, <1>30, <1>31, <1>32,
     <1>33, <1>34, <1>35, <1>36, <1>37, <1>38, <1>39, <1>40
     DEF Next, Admit, WriterStep, AppendStep, IngestStep, Fails

\* No step removes admission files before the frame is synced.
LEMMA StepRetire ==
  SpoolInv /\ [Next]_vars => RetireInv'
<1> SUFFICES ASSUME SpoolInv, [Next]_vars PROVE RetireInv' OBVIOUS
<1> USE DEF SpoolInv, TypeOK, RetireInv, InSyncedFrame, OffsetInv, MutexInv,
   Running, Compacting, vars, disk, files, writer, offsets, worker, history,
   bounds
<1>1. CASE Open BY <1>1 DEF Open, Found, ReadTerminal
<1>2. CASE RecoveryDone BY <1>2 DEF RecoveryDone
<1>3. CASE RecoveryFailed BY <1>3 DEF RecoveryFailed, Dead
<1>4. CASE Crash BY <1>4 DEF Crash, Dead
<1>5. CASE PowerFailure BY <1>5 DEF PowerFailure, Dead
<1>6. CASE \E i \in Ids : AdmitUnavailable(i)
  BY <1>6 DEF AdmitUnavailable, Admitting, Deny, Smaller
<1>7. CASE \E i \in Ids : AdmitCapacity(i) BY <1>7 DEF AdmitCapacity, Admitting, Deny, Smaller
<1>8. CASE \E i \in Ids : AdmitBegin(i) BY <1>8 DEF AdmitBegin, Admitting
<1>9. CASE \E i \in Ids : Notify(i) BY <1>9 DEF Notify, Smaller
<1>10. CASE \E i \in Ids : AppendReserved(i) BY <1>10 DEF AppendReserved, Ending
<1>11. CASE \E i \in Ids : AppendUnreserved(i) BY <1>11 DEF AppendUnreserved, Ending
<1>12. CASE \E i \in Ids : AppendRefused(i) BY <1>12 DEF AppendRefused, Ending, End
<1>12a. CASE \E i \in Ids : AppendOversized(i) BY <1>12a DEF AppendOversized, Ending, End
<1>13. CASE ReserveSlot BY <1>13 DEF ReserveSlot
<1>14. CASE ReserveIntent BY <1>14 DEF ReserveIntent
<1>15. CASE SaveBegin BY <1>15 DEF SaveBegin
<1>16. CASE SaveEnd BY <1>16 DEF SaveEnd, End
<1>17. CASE WriteFrame BY <1>17 DEF WriteFrame
<1>18. CASE SyncFrame BY <1>18 DEF SyncFrame
<1>19. CASE Publish BY <1>19 DEF Publish, End
<1>20. CASE RetireIntent BY <1>20 DEF RetireIntent
<1>21. CASE RetireSlot BY <1>21 DEF RetireSlot, End
<1>22. CASE CompactSync BY <1>22 DEF CompactSync
<1>23. CASE CompactCheckpoint BY <1>23 DEF CompactCheckpoint
<1>24. CASE CompactTruncate BY <1>24 DEF CompactTruncate
<1>25. CASE IngestRead BY <1>25 DEF IngestRead, Smaller
<1>26. CASE Accept BY <1>26 DEF Accept, Batch
<1>27. CASE Checkpoint BY <1>27 DEF Checkpoint
<1>28. CASE IngestDrained BY <1>28 DEF IngestDrained
<1>29. CASE CompactBegin BY <1>29 DEF CompactBegin, Drained
<1>30. CASE CompactSkip BY <1>30 DEF CompactSkip, Drained
<1>31. CASE Wake BY <1>31 DEF Wake
<1>32. CASE AcceptFails BY <1>32 DEF AcceptFails, Batch
<1>33. CASE SyncTick BY <1>33 DEF SyncTick
<1>34. CASE ReserveFails BY <1>34 DEF ReserveFails, Fault, Deny, Smaller
<1>35. CASE AppendFails BY <1>35 DEF AppendFails, Fault, End
<1>36. CASE IngestReadFails BY <1>36 DEF IngestReadFails, Fault
<1>37. CASE CheckpointFails BY <1>37 DEF CheckpointFails, Fault
<1>38. CASE CompactFails BY <1>38 DEF CompactFails, Fault
<1>39. CASE SyncFails BY <1>39 DEF SyncFails, Fault
<1>40. CASE UNCHANGED vars BY <1>40
<1> QED BY <1>1, <1>2, <1>3, <1>4, <1>5, <1>6, <1>7, <1>8, <1>9, <1>10, <1>11, <1>12, <1>12a,
     <1>13, <1>14, <1>15, <1>16, <1>17, <1>18, <1>19, <1>20, <1>21, <1>22,
     <1>23, <1>24, <1>25, <1>26, <1>27, <1>28, <1>29, <1>30, <1>31, <1>32,
     <1>33, <1>34, <1>35, <1>36, <1>37, <1>38, <1>39, <1>40
     DEF Next, Admit, WriterStep, AppendStep, IngestStep, Fails

\* No step lets a possible checkpoint pass a frame the database lacks.
LEMMA StepCovered ==
  SpoolInv /\ [Next]_vars => CheckpointCovered'
<1> SUFFICES ASSUME SpoolInv, [Next]_vars PROVE CheckpointCovered' OBVIOUS
<1> USE DEF SpoolInv, TypeOK, CheckpointCovered, DeliveredInv, BoundaryInv,
   Covered, OffsetInv, Cut, MutexInv, Running, Compacting, vars, disk, files,
   writer, offsets, worker, history, bounds
<1>1. CASE Open BY <1>1 DEF Open, Found, ReadTerminal
<1>2. CASE RecoveryDone BY <1>2 DEF RecoveryDone
<1>3. CASE RecoveryFailed BY <1>3 DEF RecoveryFailed, Dead
<1>4. CASE Crash BY <1>4 DEF Crash, Dead
<1>5. CASE PowerFailure BY <1>5 DEF PowerFailure, Dead
<1>6. CASE \E i \in Ids : AdmitUnavailable(i)
  BY <1>6 DEF AdmitUnavailable, Admitting, Deny, Smaller
<1>7. CASE \E i \in Ids : AdmitCapacity(i) BY <1>7 DEF AdmitCapacity, Admitting, Deny, Smaller
<1>8. CASE \E i \in Ids : AdmitBegin(i) BY <1>8 DEF AdmitBegin, Admitting
<1>9. CASE \E i \in Ids : Notify(i) BY <1>9 DEF Notify, Smaller
<1>10. CASE \E i \in Ids : AppendReserved(i) BY <1>10 DEF AppendReserved, Ending
<1>11. CASE \E i \in Ids : AppendUnreserved(i) BY <1>11 DEF AppendUnreserved, Ending
<1>12. CASE \E i \in Ids : AppendRefused(i) BY <1>12 DEF AppendRefused, Ending, End
<1>12a. CASE \E i \in Ids : AppendOversized(i) BY <1>12a DEF AppendOversized, Ending, End
<1>13. CASE ReserveSlot BY <1>13 DEF ReserveSlot
<1>14. CASE ReserveIntent BY <1>14 DEF ReserveIntent
<1>15. CASE SaveBegin BY <1>15 DEF SaveBegin
<1>16. CASE SaveEnd BY <1>16 DEF SaveEnd, End
<1>17. CASE WriteFrame BY <1>17 DEF WriteFrame
<1>18. CASE SyncFrame BY <1>18 DEF SyncFrame
<1>19. CASE Publish BY <1>19 DEF Publish, End
<1>20. CASE RetireIntent BY <1>20 DEF RetireIntent
<1>21. CASE RetireSlot BY <1>21 DEF RetireSlot, End
<1>22. CASE CompactSync BY <1>22 DEF CompactSync
<1>23. CASE CompactCheckpoint BY <1>23 DEF CompactCheckpoint
<1>24. CASE CompactTruncate BY <1>24 DEF CompactTruncate
<1>25. CASE IngestRead BY <1>25 DEF IngestRead, Smaller
<1>26. CASE Accept BY <1>26 DEF Accept, Batch
<1>27. CASE Checkpoint BY <1>27 DEF Checkpoint
<1>28. CASE IngestDrained BY <1>28 DEF IngestDrained
<1>29. CASE CompactBegin BY <1>29 DEF CompactBegin, Drained
<1>30. CASE CompactSkip BY <1>30 DEF CompactSkip, Drained
<1>31. CASE Wake BY <1>31 DEF Wake
<1>32. CASE AcceptFails BY <1>32 DEF AcceptFails, Batch
<1>33. CASE SyncTick BY <1>33 DEF SyncTick
<1>34. CASE ReserveFails BY <1>34 DEF ReserveFails, Fault, Deny, Smaller
<1>35. CASE AppendFails BY <1>35 DEF AppendFails, Fault, End
<1>36. CASE IngestReadFails BY <1>36 DEF IngestReadFails, Fault
<1>37. CASE CheckpointFails BY <1>37 DEF CheckpointFails, Fault
<1>38. CASE CompactFails BY <1>38 DEF CompactFails, Fault
<1>39. CASE SyncFails BY <1>39 DEF SyncFails, Fault
<1>40. CASE UNCHANGED vars BY <1>40
<1> QED BY <1>1, <1>2, <1>3, <1>4, <1>5, <1>6, <1>7, <1>8, <1>9, <1>10, <1>11, <1>12, <1>12a,
     <1>13, <1>14, <1>15, <1>16, <1>17, <1>18, <1>19, <1>20, <1>21, <1>22,
     <1>23, <1>24, <1>25, <1>26, <1>27, <1>28, <1>29, <1>30, <1>31, <1>32,
     <1>33, <1>34, <1>35, <1>36, <1>37, <1>38, <1>39, <1>40
     DEF Next, Admit, WriterStep, AppendStep, IngestStep, Fails

\* No step destroys the last copy of a saved terminal event.
LEMMA StepSaved ==
  SpoolInv /\ [Next]_vars => SavedNeverLost'
<1> SUFFICES ASSUME SpoolInv, [Next]_vars PROVE SavedNeverLost' OBVIOUS
<1> USE DEF SpoolInv, TypeOK, SavedNeverLost, RetireInv, InSyncedFrame,
   OwnershipInv, DeliveredInv, Covered, OffsetInv, Cut, MutexInv, Running,
   Compacting, vars, disk, files, writer, offsets, worker, history, bounds
<1>1. CASE Open BY <1>1 DEF Open, Found, ReadTerminal
<1>2. CASE RecoveryDone BY <1>2 DEF RecoveryDone
<1>3. CASE RecoveryFailed BY <1>3 DEF RecoveryFailed, Dead
<1>4. CASE Crash BY <1>4 DEF Crash, Dead
<1>5. CASE PowerFailure BY <1>5 DEF PowerFailure, Dead
<1>6. CASE \E i \in Ids : AdmitUnavailable(i)
  BY <1>6 DEF AdmitUnavailable, Admitting, Deny, Smaller
<1>7. CASE \E i \in Ids : AdmitCapacity(i) BY <1>7 DEF AdmitCapacity, Admitting, Deny, Smaller
<1>8. CASE \E i \in Ids : AdmitBegin(i) BY <1>8 DEF AdmitBegin, Admitting
<1>9. CASE \E i \in Ids : Notify(i) BY <1>9 DEF Notify, Smaller
<1>10. CASE \E i \in Ids : AppendReserved(i) BY <1>10 DEF AppendReserved, Ending
<1>11. CASE \E i \in Ids : AppendUnreserved(i) BY <1>11 DEF AppendUnreserved, Ending
<1>12. CASE \E i \in Ids : AppendRefused(i) BY <1>12 DEF AppendRefused, Ending, End
<1>12a. CASE \E i \in Ids : AppendOversized(i) BY <1>12a DEF AppendOversized, Ending, End
<1>13. CASE ReserveSlot BY <1>13 DEF ReserveSlot
<1>14. CASE ReserveIntent BY <1>14 DEF ReserveIntent
<1>15. CASE SaveBegin BY <1>15 DEF SaveBegin
<1>16. CASE SaveEnd BY <1>16 DEF SaveEnd, End
<1>17. CASE WriteFrame BY <1>17 DEF WriteFrame
<1>18. CASE SyncFrame BY <1>18 DEF SyncFrame
<1>19. CASE Publish BY <1>19 DEF Publish, End
<1>20. CASE RetireIntent BY <1>20 DEF RetireIntent
<1>21. CASE RetireSlot BY <1>21 DEF RetireSlot, End
<1>22. CASE CompactSync BY <1>22 DEF CompactSync
<1>23. CASE CompactCheckpoint BY <1>23 DEF CompactCheckpoint
<1>24. CASE CompactTruncate BY <1>24 DEF CompactTruncate
<1>25. CASE IngestRead BY <1>25 DEF IngestRead, Smaller
<1>26. CASE Accept BY <1>26 DEF Accept, Batch
<1>27. CASE Checkpoint BY <1>27 DEF Checkpoint
<1>28. CASE IngestDrained BY <1>28 DEF IngestDrained
<1>29. CASE CompactBegin BY <1>29 DEF CompactBegin, Drained
<1>30. CASE CompactSkip BY <1>30 DEF CompactSkip, Drained
<1>31. CASE Wake BY <1>31 DEF Wake
<1>32. CASE AcceptFails BY <1>32 DEF AcceptFails, Batch
<1>33. CASE SyncTick BY <1>33 DEF SyncTick
<1>34. CASE ReserveFails BY <1>34 DEF ReserveFails, Fault, Deny, Smaller
<1>35. CASE AppendFails BY <1>35 DEF AppendFails, Fault, End
<1>36. CASE IngestReadFails BY <1>36 DEF IngestReadFails, Fault
<1>37. CASE CheckpointFails BY <1>37 DEF CheckpointFails, Fault
<1>38. CASE CompactFails BY <1>38 DEF CompactFails, Fault
<1>39. CASE SyncFails BY <1>39 DEF SyncFails, Fault
<1>40. CASE UNCHANGED vars BY <1>40
<1> QED BY <1>1, <1>2, <1>3, <1>4, <1>5, <1>6, <1>7, <1>8, <1>9, <1>10, <1>11, <1>12, <1>12a,
     <1>13, <1>14, <1>15, <1>16, <1>17, <1>18, <1>19, <1>20, <1>21, <1>22,
     <1>23, <1>24, <1>25, <1>26, <1>27, <1>28, <1>29, <1>30, <1>31, <1>32,
     <1>33, <1>34, <1>35, <1>36, <1>37, <1>38, <1>39, <1>40
     DEF Next, Admit, WriterStep, AppendStep, IngestStep, Fails

--------------------
\* SpoolInv holds in every reachable state: what admit, append, checkpoint,
\* compaction, crashes and recovery maintain together.
THEOREM SpoolInvariant == Spec => []SpoolInv
<1>1. Init => SpoolInv
  <2> SUFFICES ASSUME Init PROVE SpoolInv OBVIOUS
  <2>1. TypeOK
    <3>1. log \in Seq(Ids) BY EmptySeq DEF Init
    <3>2. /\ slot \in [Ids -> SlotStates] /\ life \in [Ids -> LifeStates]
          /\ pc \in Steps /\ ing \in IngestSteps /\ cur \in Ids \cup {Nothing}
      BY DEF Init, SlotStates, LifeStates, Steps, IngestSteps
    <3>3. /\ durable \in Nat /\ ckpt \in Nat /\ wEnd \in Nat
          /\ end \in Nat /\ ckptMem \in Nat /\ synced \in Nat /\ reader \in Nat
          /\ batchEnd \in Nat /\ replays \in Nat /\ wake \in 0..QueueCap
          /\ crashes \in 0..MaxCrashes /\ faults \in 0..MaxFaults
      BY SpoolAssumption DEF Init
    <3>4. ckptMaybe \subseteq Nat BY DEF Init
    <3> QED BY <3>1, <3>2, <3>3, <3>4 DEF Init, TypeOK
  <2> QED
    BY <2>1 DEF Init, SpoolInv, MutexInv, OffsetInv, BoundaryInv, DeliveredInv, OwnershipInv,
      RetireInv, CheckpointCovered, SavedNeverLost, Running, Compacting, Covered
<1>2. SpoolInv /\ [Next]_vars => SpoolInv'
  BY StepType, StepMutex, StepOffset, StepBoundary, StepDelivered, StepOwnership, StepRetire,
    StepCovered, StepSaved DEF SpoolInv
<1> QED BY <1>1, <1>2, PTL DEF Spec

\* Whichever checkpoint survives a failure, no frame in front of it is missing
\* from the database: recovery never skips an event.
THEOREM CheckpointNeverSkips == Spec => []CheckpointCovered
<1>1. SpoolInv => CheckpointCovered BY DEF SpoolInv
<1> QED BY <1>1, SpoolInvariant, PTL

\* The terminal event of an admitted request survives every crash and power
\* loss from the moment save_terminal has returned until the database has it.
THEOREM SavedTerminalsSurvive == Spec => []SavedNeverLost
<1>1. SpoolInv => SavedNeverLost BY DEF SpoolInv
<1> QED BY <1>1, SpoolInvariant, PTL

--------------------
\* What recovery reports, and what the directory costs

\* Steps of the workers that touch neither the writer nor the admission files.
Quiet ==
  \/ \E i \in Ids : Notify(i)
  \/ IngestRead \/ Checkpoint \/ IngestDrained \/ CompactSkip \/ Wake \/ SyncTick
  \/ IngestReadFails \/ CheckpointFails \/ UNCHANGED vars

\* An event becomes known when its slot or its frame is written, and nothing else
\* makes it known: the database gets what is in the log.
LEMMA KnownGrows ==
  ASSUME SpoolInv, [Next]_vars
  PROVE  \/ Known' \subseteq Known
         \/ SaveEnd /\ Known' = Known \cup {cur}
         \/ WriteFrame /\ Known' = Known \cup {cur}
<1> USE DEF disk, files, writer, offsets, worker, history, bounds
<1>0. Len(log) \in Nat /\ \A n \in 1..Len(log) : log[n] \in Ids
  BY LenProperties DEF SpoolInv, TypeOK
<1>1. CASE UNCHANGED <<saved, log>> /\ inbox' \subseteq inbox \cup Frames(Len(log))
  BY <1>1 DEF Known, Frames
<1>2. ASSUME saved' = saved, inbox' = inbox,
             \/ log' = <<>>
             \/ \E n \in durable..Len(log) : log' = SubSeq(log, 1, n)
      PROVE  Known' \subseteq Known
  <2>1. CASE log' = <<>>
    <3>1. Len(log') = 0 BY <2>1
    <3> QED BY <1>2, <3>1 DEF Known, Frames
  <2>2. CASE \E n \in durable..Len(log) : log' = SubSeq(log, 1, n)
    <3>1. PICK n \in durable..Len(log) : log' = SubSeq(log, 1, n) BY <2>2
    <3>2. n \in Nat /\ n <= Len(log) BY <1>0, <3>1 DEF SpoolInv, TypeOK
    <3>3. Len(log') = n /\ \A m \in 1..n : log'[m] = log[m]
      BY <1>0, <3>1, <3>2, SubSeqProperties DEF SpoolInv, TypeOK
    <3>4. Frames(Len(log))' \subseteq Frames(Len(log)) BY <1>0, <3>2, <3>3 DEF Frames
    <3> QED BY <1>2, <3>4 DEF Known
  <2> QED BY <1>2, <2>1, <2>2
<1>3. CASE Accept \/ AcceptFails
  <2>1. Batch \subseteq Frames(Len(log)) BY <1>3, BatchInLog DEF Accept, AcceptFails
  <2> QED BY <1>1, <1>3, <2>1 DEF Accept, AcceptFails
<1>4. CASE SaveEnd BY <1>4 DEF SaveEnd, Known, Frames
<1>5. CASE WriteFrame
  <2>1. log \in Seq(Ids) /\ cur \in Ids
    BY <1>5 DEF SpoolInv, TypeOK, MutexInv, Compacting, WriteFrame
  <2>2. log' = Append(log, cur) /\ UNCHANGED <<saved, inbox>> BY <1>5 DEF WriteFrame
  <2>3. /\ Len(log') = Len(log) + 1 /\ log'[Len(log) + 1] = cur
        /\ \A n \in 1..Len(log) : log'[n] = log[n]
    BY <2>1, <2>2, AppendProperties
  <2>4. Frames(Len(log))' = Frames(Len(log)) \cup {cur} BY <1>0, <2>3 DEF Frames
  <2> QED BY <1>5, <2>2, <2>4 DEF Known
<1>6. CASE PowerFailure BY <1>2, <1>6 DEF PowerFailure, Dead
<1>7. CASE CompactTruncate \/ CompactFails
  <2>1. UNCHANGED <<saved, inbox>> /\ (log' = <<>> \/ log' = log)
    BY <1>7, CompactFailsEffect DEF CompactTruncate, CompactFails
  <2> QED BY <1>1, <1>2, <2>1
<1>8. ASSUME \/ Open \/ RecoveryDone \/ RecoveryFailed \/ Crash \/ Quiet
             \/ \E i \in Ids : \/ Admit(i) \/ AppendReserved(i) \/ AppendUnreserved(i)
                               \/ AppendRefused(i) \/ AppendOversized(i)
             \/ ReserveSlot \/ ReserveIntent \/ SaveBegin \/ SyncFrame \/ Publish
             \/ RetireIntent \/ RetireSlot \/ CompactBegin \/ CompactSync
             \/ CompactCheckpoint \/ ReserveFails \/ AppendFails \/ SyncFails
      PROVE  UNCHANGED <<saved, log, inbox>>
  BY <1>8 DEF Open, RecoveryDone, RecoveryFailed, Crash, Dead, Quiet, Notify, IngestRead,
    Checkpoint, IngestDrained, CompactSkip, Wake, SyncTick, IngestReadFails, CheckpointFails,
    vars, Admit, AdmitUnavailable, AdmitCapacity, AdmitBegin, AppendReserved, AppendUnreserved,
    AppendRefused, AppendOversized, ReserveSlot, ReserveIntent, SaveBegin, SyncFrame, Publish,
    RetireIntent, RetireSlot, CompactBegin, CompactSync, CompactCheckpoint, ReserveFails,
    AppendFails, SyncFails
<1> QED
  BY <1>1, <1>3, <1>4, <1>5, <1>6, <1>7, <1>8 DEF Next, Admit, WriterStep, AppendStep, IngestStep,
    Fails, Quiet

\* What the holder of the mutex relies on stays true until it goes on.
LEMMA StepHolder ==
  ASSUME SpoolInv, FilesInv, HolderInv, [Next]_vars PROVE HolderInv'
<1> USE DEF SpoolInv, TypeOK, MutexInv, OwnershipInv, FilesInv, HolderInv, Compacting, Running,
       vars, disk, files, writer, offsets, worker, history, bounds
<1>1. CASE Open BY <1>1 DEF Open, Found, ReadTerminal
<1>2. CASE RecoveryDone BY <1>2 DEF RecoveryDone
<1>3. CASE RecoveryFailed \/ Crash \/ PowerFailure
  BY <1>3 DEF RecoveryFailed, Crash, PowerFailure, Dead
<1>4. CASE \E i \in Ids : AdmitUnavailable(i) \/ AdmitCapacity(i)
  BY <1>4 DEF AdmitUnavailable, AdmitCapacity, Admitting, Deny
<1>5. CASE \E i \in Ids : AdmitBegin(i) BY <1>5 DEF AdmitBegin, Admitting
<1>6. CASE \E i \in Ids : AppendReserved(i) BY <1>6 DEF AppendReserved, Ending
<1>7. CASE \E i \in Ids : AppendUnreserved(i) BY <1>7 DEF AppendUnreserved, Ending
<1>8. CASE \E i \in Ids : AppendRefused(i) \/ AppendOversized(i)
  BY <1>8 DEF AppendRefused, AppendOversized, Ending, End
<1>9. CASE ReserveSlot BY <1>9 DEF ReserveSlot
<1>10. CASE ReserveIntent BY <1>10 DEF ReserveIntent
<1>11. CASE SaveBegin BY <1>11 DEF SaveBegin
<1>12. CASE SaveEnd BY <1>12 DEF SaveEnd, End
<1>13. CASE WriteFrame BY <1>13 DEF WriteFrame
<1>14. CASE SyncFrame BY <1>14 DEF SyncFrame
<1>15. CASE Publish BY <1>15 DEF Publish, End
<1>16. CASE RetireIntent BY <1>16 DEF RetireIntent
<1>17. CASE RetireSlot BY <1>17 DEF RetireSlot, End
<1>18. CASE ReserveFails BY <1>18 DEF ReserveFails, Deny, Fault
<1>19. CASE AppendFails BY <1>19 DEF AppendFails, End, Fault
<1>20. CASE Accept \/ AcceptFails BY <1>20 DEF Accept, AcceptFails
<1>21. CASE CompactBegin \/ CompactSync \/ CompactCheckpoint
  BY <1>21 DEF CompactBegin, CompactSync, CompactCheckpoint
<1>22. CASE CompactTruncate BY <1>22 DEF CompactTruncate
<1>23. CASE CompactFails \/ SyncFails BY <1>23 DEF CompactFails, SyncFails, Fault
<1>24. CASE Quiet
  BY <1>24 DEF Quiet, Notify, IngestRead, Checkpoint, IngestDrained, CompactSkip, Wake, SyncTick,
    IngestReadFails, CheckpointFails, Fault
<1> QED BY <1>1, <1>2, <1>3, <1>4, <1>5, <1>6, <1>7, <1>8, <1>9, <1>10, <1>11, <1>12,
     <1>13, <1>14, <1>15, <1>16, <1>17, <1>18, <1>19, <1>20, <1>21, <1>22, <1>23, <1>24
     DEF Next, Admit, WriterStep, AppendStep, IngestStep, Fails, Quiet

\* No step leaves an incomplete admission file of a request whose event is known.
LEMMA StepFiles ==
  ASSUME SpoolInv, FilesInv, HolderInv, [Next]_vars PROVE FilesInv'
<1> USE DEF SpoolInv, TypeOK, MutexInv, OwnershipInv, FilesInv, HolderInv, Compacting, Running,
       vars, disk, files, writer, offsets, worker, history, bounds
<1>0. (SaveEnd \/ WriteFrame) => Known' \subseteq Known \cup {cur} BY KnownGrows
<1>1. CASE Open /\ Known' \subseteq Known BY <1>1 DEF Open, Found, ReadTerminal
<1>2. CASE RecoveryDone /\ Known' \subseteq Known BY <1>2 DEF RecoveryDone
<1>3. CASE (RecoveryFailed \/ Crash \/ PowerFailure) /\ Known' \subseteq Known
  BY <1>3 DEF RecoveryFailed, Crash, PowerFailure, Dead
<1>4. CASE (\E i \in Ids : AdmitUnavailable(i) \/ AdmitCapacity(i)) /\ Known' \subseteq Known
  BY <1>4 DEF AdmitUnavailable, AdmitCapacity, Admitting, Deny
<1>5. CASE (\E i \in Ids : AdmitBegin(i)) /\ Known' \subseteq Known
  BY <1>5 DEF AdmitBegin, Admitting
<1>6. CASE (\E i \in Ids : AppendReserved(i)) /\ Known' \subseteq Known
  BY <1>6 DEF AppendReserved, Ending
<1>7. CASE (\E i \in Ids : AppendUnreserved(i)) /\ Known' \subseteq Known
  BY <1>7 DEF AppendUnreserved, Ending
<1>8. CASE (\E i \in Ids : AppendRefused(i) \/ AppendOversized(i)) /\ Known' \subseteq Known
  BY <1>8 DEF AppendRefused, AppendOversized, Ending, End
<1>9. CASE ReserveSlot /\ Known' \subseteq Known BY <1>9 DEF ReserveSlot
<1>10. CASE ReserveIntent /\ Known' \subseteq Known BY <1>10 DEF ReserveIntent
<1>11. CASE SaveBegin /\ Known' \subseteq Known BY <1>11 DEF SaveBegin
<1>12. CASE SaveEnd BY <1>12, <1>0 DEF SaveEnd, End
<1>13. CASE WriteFrame BY <1>13, <1>0 DEF WriteFrame
<1>14. CASE SyncFrame /\ Known' \subseteq Known BY <1>14 DEF SyncFrame
<1>15. CASE Publish /\ Known' \subseteq Known BY <1>15 DEF Publish, End
<1>16. CASE RetireIntent /\ Known' \subseteq Known BY <1>16 DEF RetireIntent
<1>17. CASE RetireSlot /\ Known' \subseteq Known BY <1>17 DEF RetireSlot, End
<1>18. CASE ReserveFails /\ Known' \subseteq Known
  <2>1. /\ cur \in Ids /\ cur \notin Known /\ pc \in {"slot", "intent"}
        /\ pc' = "free" /\ failed'
    BY <1>18 DEF ReserveFails
  <2>2. /\ life' = [life EXCEPT ![cur] = "denied"]
        /\ slot' = slot \/ slot' = [slot EXCEPT ![cur] = "empty"]
        /\ intent' = intent \/ intent' = intent \cup {cur}
        /\ ids' = ids \/ ids' = ids \ {cur}
        /\ phase' = phase
    BY <1>18 DEF ReserveFails, Deny
  <2>3. Known \subseteq Ids BY LenProperties DEF Known, Frames
  <2>4. \A i \in Ids : i # cur => /\ slot'[i] = slot[i] /\ life'[i] = life[i]
                                /\ (i \in intent') = (i \in intent)
                                /\ (i \in ids') = (i \in ids)
    <3>1. \A i \in Ids : i # cur => slot'[i] = slot[i] BY <2>2
    <3> QED BY <2>2, <3>1
  <2>5. life'[cur] = "denied" BY <2>1, <2>2
  <2>6. \A i \in Known' : i # cur /\ i \in Ids BY <1>18, <2>1, <2>3
  <2>7. \A i \in Known' : slot'[i] = "terminal" \/ (slot'[i] = "none" /\ i \notin intent')
    BY <1>18, <2>4, <2>6
  <2> QED BY <1>18, <2>1, <2>2, <2>4, <2>5, <2>7
<1>19. CASE AppendFails /\ Known' \subseteq Known
  <2>1. /\ cur \in Ids /\ pc \in {"saving", "write", "sync", "rmIntent", "rmSlot"}
        /\ pc' = "free" /\ failed' /\ UNCHANGED <<phase, ids>>
    BY <1>19 DEF AppendFails
  <2>2. life' = IF phase = "up" THEN [life EXCEPT ![cur] = "ended"] ELSE life
    BY <1>19 DEF AppendFails, End
  <2>3. phase # "up" => life[cur] \notin {"new", "admitted"} BY <2>1
  <2>4. \A i \in Ids \ {cur} : slot'[i] = slot[i] /\ (i \in intent' <=> i \in intent)
    BY <1>19 DEF AppendFails
  <2>5. /\ \/ slot'[cur] = slot[cur]
           \/ slot'[cur] = "terminal"
           \/ slot'[cur] = "none" /\ cur \notin intent'
        /\ cur \in intent' => cur \in intent
    <3>0. CASE pc = "saving" BY <1>19, <2>1, <3>0 DEF AppendFails
    <3>1. CASE pc \in {"write", "sync", "rmIntent"}
      <4>1. slot' = slot /\ (cur \in intent' => cur \in intent) BY <1>19, <3>1 DEF AppendFails
      <4> QED BY <4>1
    <3>2. CASE pc = "rmSlot" BY <1>19, <2>1, <3>2 DEF AppendFails
    <3> QED BY <2>1, <3>0, <3>1, <3>2
  <2>6. Known \subseteq Ids BY LenProperties DEF Known, Frames
  <2>7. \A i \in Known' : slot'[i] = "terminal" \/ (slot'[i] = "none" /\ i \notin intent')
    BY <1>19, <2>4, <2>5, <2>6
  <2>8. \A i \in Ids : life'[i] \in {"new", "admitted"} => i # cur /\ life[i] = life'[i]
    BY <2>1, <2>2, <2>3
  <2> QED BY <1>19, <2>1, <2>4, <2>7, <2>8
<1>20. CASE (Accept \/ AcceptFails) /\ Known' \subseteq Known BY <1>20 DEF Accept, AcceptFails
<1>21. CASE (CompactBegin \/ CompactSync \/ CompactCheckpoint) /\ Known' \subseteq Known
  BY <1>21 DEF CompactBegin, CompactSync, CompactCheckpoint
<1>22. CASE CompactTruncate /\ Known' \subseteq Known BY <1>22 DEF CompactTruncate
<1>23. CASE (CompactFails \/ SyncFails) /\ Known' \subseteq Known
  BY <1>23 DEF CompactFails, SyncFails, Fault
<1>24. CASE Quiet /\ Known' \subseteq Known
  BY <1>24 DEF Quiet, Notify, IngestRead, Checkpoint, IngestDrained, CompactSkip, Wake, SyncTick,
    IngestReadFails, CheckpointFails, Fault
<1> QED BY <1>1, <1>2, <1>3, <1>4, <1>5, <1>6, <1>7, <1>8, <1>9, <1>10, <1>11, <1>12,
     <1>13, <1>14, <1>15, <1>16, <1>17, <1>18, <1>19, <1>20, <1>21, <1>22, <1>23, <1>24,
     KnownGrows
     DEF Next, Admit, WriterStep, AppendStep, IngestStep, Fails, Quiet

\* A request that was reported as unknown never becomes known.
LEMMA StepUnknown ==
  ASSUME SpoolInv, FilesInv, HolderInv, UnknownInv, GoneInv, [Next]_vars PROVE UnknownInv'
<1> USE DEF SpoolInv, TypeOK, MutexInv, OwnershipInv, FilesInv, HolderInv, UnknownInv, Compacting, Running,
       vars, disk, files, writer, offsets, worker, history, bounds
<1>0. (SaveEnd \/ WriteFrame) => Known' \subseteq Known \cup {cur} BY KnownGrows
<1>1. CASE Open /\ Known' \subseteq Known BY <1>1 DEF Open, Found, ReadTerminal
<1>2. CASE RecoveryDone /\ Known' \subseteq Known BY <1>2 DEF RecoveryDone
<1>3. CASE (RecoveryFailed \/ Crash \/ PowerFailure) /\ Known' \subseteq Known
  BY <1>3 DEF RecoveryFailed, Crash, PowerFailure, Dead
<1>4. CASE (\E i \in Ids : AdmitUnavailable(i) \/ AdmitCapacity(i)) /\ Known' \subseteq Known
  BY <1>4 DEF AdmitUnavailable, AdmitCapacity, Admitting, Deny
<1>5. CASE (\E i \in Ids : AdmitBegin(i)) /\ Known' \subseteq Known
  BY <1>5 DEF AdmitBegin, Admitting
<1>6. CASE (\E i \in Ids : AppendReserved(i)) /\ Known' \subseteq Known
  BY <1>6 DEF AppendReserved, Ending
<1>7. CASE (\E i \in Ids : AppendUnreserved(i)) /\ Known' \subseteq Known
  BY <1>7 DEF AppendUnreserved, Ending
<1>8. CASE (\E i \in Ids : AppendRefused(i) \/ AppendOversized(i)) /\ Known' \subseteq Known
  BY <1>8 DEF AppendRefused, AppendOversized, Ending, End
<1>9. CASE ReserveSlot /\ Known' \subseteq Known BY <1>9 DEF ReserveSlot
<1>10. CASE ReserveIntent /\ Known' \subseteq Known BY <1>10 DEF ReserveIntent
<1>11. CASE SaveBegin /\ Known' \subseteq Known BY <1>11 DEF SaveBegin
<1>12. CASE SaveEnd BY <1>12, <1>0 DEF SaveEnd, End
<1>13. CASE WriteFrame BY <1>13, <1>0 DEF WriteFrame
<1>14. CASE SyncFrame /\ Known' \subseteq Known BY <1>14 DEF SyncFrame
<1>15. CASE Publish /\ Known' \subseteq Known BY <1>15 DEF Publish, End
<1>16. CASE RetireIntent /\ Known' \subseteq Known BY <1>16 DEF RetireIntent
<1>17. CASE RetireSlot /\ Known' \subseteq Known BY <1>17 DEF RetireSlot, End
<1>18. CASE ReserveFails /\ Known' \subseteq Known BY <1>18 DEF ReserveFails, Deny, Fault
<1>19. CASE AppendFails /\ Known' \subseteq Known BY <1>19 DEF AppendFails, End, Fault
<1>20. CASE (Accept \/ AcceptFails) /\ Known' \subseteq Known BY <1>20 DEF Accept, AcceptFails
<1>21. CASE (CompactBegin \/ CompactSync \/ CompactCheckpoint) /\ Known' \subseteq Known
  BY <1>21 DEF CompactBegin, CompactSync, CompactCheckpoint
<1>22. CASE CompactTruncate /\ Known' \subseteq Known BY <1>22 DEF CompactTruncate
<1>23. CASE (CompactFails \/ SyncFails) /\ Known' \subseteq Known
  BY <1>23 DEF CompactFails, SyncFails, Fault
<1>24. CASE Quiet /\ Known' \subseteq Known
  BY <1>24 DEF Quiet, Notify, IngestRead, Checkpoint, IngestDrained, CompactSkip, Wake, SyncTick,
    IngestReadFails, CheckpointFails, Fault
<1> QED BY <1>1, <1>2, <1>3, <1>4, <1>5, <1>6, <1>7, <1>8, <1>9, <1>10, <1>11, <1>12,
     <1>13, <1>14, <1>15, <1>16, <1>17, <1>18, <1>19, <1>20, <1>21, <1>22, <1>23, <1>24,
     KnownGrows
     DEF Next, Admit, WriterStep, AppendStep, IngestStep, Fails, Quiet

\* The files of a dead request remain until it has been saved again or reported.
LEMMA StepGone ==
  ASSUME SpoolInv, FilesInv, HolderInv, UnknownInv, GoneInv, [Next]_vars PROVE GoneInv'
<1> USE DEF SpoolInv, TypeOK, MutexInv, OwnershipInv, FilesInv, HolderInv, GoneInv, Compacting, Running,
       vars, disk, files, writer, offsets, worker, history, bounds
<1>1. CASE Open BY <1>1 DEF Open, Found, ReadTerminal
<1>2. CASE RecoveryDone BY <1>2 DEF RecoveryDone
<1>3. CASE RecoveryFailed \/ Crash \/ PowerFailure
  BY <1>3 DEF RecoveryFailed, Crash, PowerFailure, Dead
<1>4. CASE \E i \in Ids : AdmitUnavailable(i) \/ AdmitCapacity(i)
  BY <1>4 DEF AdmitUnavailable, AdmitCapacity, Admitting, Deny
<1>5. CASE \E i \in Ids : AdmitBegin(i) BY <1>5 DEF AdmitBegin, Admitting
<1>6. CASE \E i \in Ids : AppendReserved(i) BY <1>6 DEF AppendReserved, Ending
<1>7. CASE \E i \in Ids : AppendUnreserved(i) BY <1>7 DEF AppendUnreserved, Ending
<1>8. CASE \E i \in Ids : AppendRefused(i) \/ AppendOversized(i)
  BY <1>8 DEF AppendRefused, AppendOversized, Ending, End
<1>9. CASE ReserveSlot BY <1>9 DEF ReserveSlot
<1>10. CASE ReserveIntent BY <1>10 DEF ReserveIntent
<1>11. CASE SaveBegin BY <1>11 DEF SaveBegin
<1>12. CASE SaveEnd BY <1>12 DEF SaveEnd, End
<1>13. CASE WriteFrame BY <1>13 DEF WriteFrame
<1>14. CASE SyncFrame BY <1>14 DEF SyncFrame
<1>15. CASE Publish BY <1>15 DEF Publish, End
<1>16. CASE RetireIntent BY <1>16 DEF RetireIntent
<1>17. CASE RetireSlot BY <1>17 DEF RetireSlot, End
<1>18. CASE ReserveFails BY <1>18 DEF ReserveFails, Deny, Fault
<1>19. CASE AppendFails BY <1>19 DEF AppendFails, End, Fault
<1>20. CASE Accept \/ AcceptFails BY <1>20 DEF Accept, AcceptFails
<1>21. CASE CompactBegin \/ CompactSync \/ CompactCheckpoint
  BY <1>21 DEF CompactBegin, CompactSync, CompactCheckpoint
<1>22. CASE CompactTruncate BY <1>22 DEF CompactTruncate
<1>23. CASE CompactFails \/ SyncFails BY <1>23 DEF CompactFails, SyncFails, Fault
<1>24. CASE Quiet
  BY <1>24 DEF Quiet, Notify, IngestRead, Checkpoint, IngestDrained, CompactSkip, Wake, SyncTick,
    IngestReadFails, CheckpointFails, Fault
<1> QED BY <1>1, <1>2, <1>3, <1>4, <1>5, <1>6, <1>7, <1>8, <1>9, <1>10, <1>11, <1>12,
     <1>13, <1>14, <1>15, <1>16, <1>17, <1>18, <1>19, <1>20, <1>21, <1>22, <1>23, <1>24
     DEF Next, Admit, WriterStep, AppendStep, IngestStep, Fails, Quiet

\* A frame is published before its token, and no token is lost on a full channel.
LEMMA StepWake ==
  ASSUME SpoolInv, WakeInv, [Next]_vars PROVE WakeInv'
<1> USE DEF SpoolInv, TypeOK, MutexInv, OffsetInv, WakeInv, Compacting, Running,
       vars, disk, files, writer, offsets, worker, history, bounds
<1>1. CASE Open BY <1>1, SpoolAssumption DEF Open, Found, ReadTerminal
<1>2. CASE RecoveryDone BY <1>2, SpoolAssumption DEF RecoveryDone
<1>3. CASE RecoveryFailed \/ Crash \/ PowerFailure
  BY <1>3, SpoolAssumption DEF RecoveryFailed, Crash, PowerFailure, Dead
<1>4. CASE \E i \in Ids : AdmitUnavailable(i) \/ AdmitCapacity(i)
  BY <1>4, SpoolAssumption DEF AdmitUnavailable, AdmitCapacity, Admitting, Deny, Smaller
<1>5. CASE \E i \in Ids : AdmitBegin(i) BY <1>5, SpoolAssumption DEF AdmitBegin, Admitting
<1>6. CASE \E i \in Ids : AppendReserved(i) BY <1>6, SpoolAssumption DEF AppendReserved, Ending
<1>7. CASE \E i \in Ids : AppendUnreserved(i)
  BY <1>7, SpoolAssumption DEF AppendUnreserved, Ending
<1>8. CASE \E i \in Ids : AppendRefused(i) \/ AppendOversized(i)
  BY <1>8, SpoolAssumption DEF AppendRefused, AppendOversized, Ending, End
<1>9. CASE ReserveSlot BY <1>9, SpoolAssumption DEF ReserveSlot
<1>10. CASE ReserveIntent BY <1>10, SpoolAssumption DEF ReserveIntent
<1>11. CASE SaveBegin BY <1>11, SpoolAssumption DEF SaveBegin
<1>12. CASE SaveEnd BY <1>12, SpoolAssumption DEF SaveEnd, End
<1>13. CASE WriteFrame BY <1>13, SpoolAssumption DEF WriteFrame
<1>14. CASE SyncFrame BY <1>14, SpoolAssumption DEF SyncFrame
<1>15. CASE Publish BY <1>15, SpoolAssumption DEF Publish, End
<1>16. CASE RetireIntent BY <1>16, SpoolAssumption DEF RetireIntent
<1>17. CASE RetireSlot BY <1>17, SpoolAssumption DEF RetireSlot, End
<1>18. CASE ReserveFails BY <1>18, SpoolAssumption DEF ReserveFails, Deny, Smaller, Fault
<1>19. CASE AppendFails BY <1>19, SpoolAssumption DEF AppendFails, End, Fault
<1>20. CASE Accept \/ AcceptFails BY <1>20, SpoolAssumption DEF Accept, AcceptFails
<1>21. CASE CompactBegin \/ CompactSync \/ CompactCheckpoint
  BY <1>21, SpoolAssumption DEF CompactBegin, Drained, CompactSync, CompactCheckpoint
<1>22. CASE CompactTruncate BY <1>22, SpoolAssumption DEF CompactTruncate
<1>23. CASE CompactFails \/ SyncFails BY <1>23, SpoolAssumption DEF CompactFails, SyncFails, Fault
<1>24. CASE Quiet
  BY <1>24, SpoolAssumption DEF Quiet, Notify, Smaller, IngestRead, Checkpoint, IngestDrained,
    CompactSkip, Wake, SyncTick, IngestReadFails, CheckpointFails, Fault
<1> QED BY <1>1, <1>2, <1>3, <1>4, <1>5, <1>6, <1>7, <1>8, <1>9, <1>10, <1>11, <1>12,
     <1>13, <1>14, <1>15, <1>16, <1>17, <1>18, <1>19, <1>20, <1>21, <1>22, <1>23, <1>24
     DEF Next, Admit, WriterStep, AppendStep, IngestStep, Fails, Quiet

\* No step but a power loss takes frames from under a checkpoint.
LEMMA StepOpen ==
  ASSUME SpoolInv, OpenInv, [Next]_vars PROVE OpenInv'
<1> USE DEF SpoolInv, TypeOK, MutexInv, OffsetInv, OpenInv, OpenAccepts, Cut, Compacting, Running,
       vars, disk, files, writer, offsets, worker, history, bounds
<1>1. CASE Open BY <1>1 DEF Open, Found, ReadTerminal
<1>2. CASE RecoveryDone BY <1>2 DEF RecoveryDone
<1>3. CASE RecoveryFailed \/ Crash \/ PowerFailure
  BY <1>3 DEF RecoveryFailed, Crash, PowerFailure, Dead
<1>4. CASE \E i \in Ids : AdmitUnavailable(i) \/ AdmitCapacity(i)
  BY <1>4 DEF AdmitUnavailable, AdmitCapacity, Admitting, Deny
<1>5. CASE \E i \in Ids : AdmitBegin(i) BY <1>5 DEF AdmitBegin, Admitting
<1>6. CASE \E i \in Ids : AppendReserved(i) BY <1>6 DEF AppendReserved, Ending
<1>7. CASE \E i \in Ids : AppendUnreserved(i) BY <1>7 DEF AppendUnreserved, Ending
<1>8. CASE \E i \in Ids : AppendRefused(i) \/ AppendOversized(i)
  BY <1>8 DEF AppendRefused, AppendOversized, Ending, End
<1>9. CASE ReserveSlot BY <1>9 DEF ReserveSlot
<1>10. CASE ReserveIntent BY <1>10 DEF ReserveIntent
<1>11. CASE SaveBegin BY <1>11 DEF SaveBegin
<1>12. CASE SaveEnd BY <1>12 DEF SaveEnd, End
<1>13. CASE WriteFrame
  <2>1. Len(log') = Len(log) + 1 /\ Len(log) \in Nat
    BY <1>13, AppendProperties, LenProperties DEF WriteFrame
  <2> QED BY <1>13, <2>1 DEF WriteFrame
<1>14. CASE SyncFrame BY <1>14 DEF SyncFrame
<1>15. CASE Publish BY <1>15 DEF Publish, End
<1>16. CASE RetireIntent BY <1>16 DEF RetireIntent
<1>17. CASE RetireSlot BY <1>17 DEF RetireSlot, End
<1>18. CASE ReserveFails BY <1>18 DEF ReserveFails, Deny, Fault
<1>19. CASE AppendFails BY <1>19 DEF AppendFails, End, Fault
<1>20. CASE Accept \/ AcceptFails BY <1>20 DEF Accept, AcceptFails
<1>21. CASE CompactBegin \/ CompactSync \/ CompactCheckpoint
  <2>1. /\ UNCHANGED <<log, phase>> /\ Len(log) \in Nat
        /\ \/ UNCHANGED <<ckpt, ckptMaybe>>
           \/ ckpt' = 0 /\ ckptMaybe' = {0}
    BY <1>21, LenProperties DEF CompactBegin, CompactSync, CompactCheckpoint
  <2>2. (\A c \in ckptMaybe' \cup {ckpt'} : c \in ckptMaybe \cup {ckpt, 0}) /\ 0 <= Len(log)
    BY <2>1
  <2> QED BY <2>1, <2>2
<1>22. CASE CompactTruncate
  <2>1. Len(log') = 0 BY <1>22 DEF CompactTruncate
  <2> QED BY <1>22, <2>1 DEF CompactTruncate
<1>23. CASE CompactFails \/ SyncFails
  <2>1. phase' = phase /\ Len(log) \in Nat BY <1>23, LenProperties DEF CompactFails, SyncFails
  <2>2. CASE CompactFails /\ log' # log
    <3>1. log' = <<>> /\ pc = "cTrunc" /\ UNCHANGED <<ckpt, ckptMaybe>>
      BY <2>2, CompactFailsEffect
    <3>2. Len(log') = 0 BY <3>1
    <3> QED BY <2>1, <3>1, <3>2
  <2>3. CASE CompactFails /\ log' = log
    <3>1. (\A c \in ckptMaybe' \cup {ckpt'} : c \in ckptMaybe \cup {ckpt, 0}) /\ 0 <= Len(log)
      BY <2>1, <2>3, CompactFailsEffect
    <3> QED BY <2>1, <2>3, <3>1
  <2>4. CASE SyncFails BY <2>4 DEF SyncFails
  <2> QED BY <1>23, <2>2, <2>3, <2>4
<1>24. CASE Quiet
  <2>1. CASE Checkpoint
    <3>1. CASE UNCHANGED <<ckpt, ckptMaybe>> BY <2>1, <3>1 DEF Checkpoint
    <3>2. CASE ckpt' = batchEnd /\ ckptMaybe' = ckptMaybe \cup {batchEnd}
      <4>1. ~Cut BY <2>1 DEF Checkpoint
      <4>2. batchEnd <= Len(log) BY <2>1, <4>1 DEF Checkpoint
      <4> QED BY <2>1, <3>2, <4>2 DEF Checkpoint
    <3> QED BY <2>1, <3>1, <3>2 DEF Checkpoint
  <2>2. ASSUME Quiet, ~Checkpoint PROVE UNCHANGED <<log, ckpt, ckptMaybe, phase>>
    BY <2>2 DEF Quiet, Notify, IngestRead, IngestDrained, CompactSkip, Wake, SyncTick,
      IngestReadFails, CheckpointFails
  <2> QED BY <1>24, <2>1, <2>2
<1> QED BY <1>1, <1>2, <1>3, <1>4, <1>5, <1>6, <1>7, <1>8, <1>9, <1>10, <1>11, <1>12,
     <1>13, <1>14, <1>15, <1>16, <1>17, <1>18, <1>19, <1>20, <1>21, <1>22, <1>23, <1>24
     DEF Next, Admit, WriterStep, AppendStep, IngestStep, Fails, Quiet

\* A latched writer needs no more than what it holds.
LEMMA ClaimedEnough ==
  ASSUME SpoolInv, BudgetInv, Running
  PROVE  /\ Cardinality(ids) \in Nat /\ Cardinality(retained) \in Nat
         /\ Cardinality(Found) \in Nat
         /\ Cardinality(Found) <= Cardinality(ids) + Cardinality(retained)
         /\ wEnd + Cardinality(ids) + Cardinality(retained) <= Claimed
         /\ Claimed <= MaxUnits + replays /\ MaxUnits + replays \in Nat
<1>1. /\ IsFiniteSet(ids) /\ IsFiniteSet(retained) /\ IsFiniteSet(Found)
      /\ IsFiniteSet(ids \cup retained)
  BY FS_Subset, SpoolAssumption DEF SpoolInv, TypeOK, Found
<1>2. /\ Cardinality(ids) \in Nat /\ Cardinality(retained) \in Nat
      /\ Cardinality(Found) \in Nat /\ Cardinality(ids \cap retained) \in Nat
  BY <1>1, FS_CardinalityType, FS_Subset
<1>3. Cardinality(ids \cup retained)
        = Cardinality(ids) + Cardinality(retained) - Cardinality(ids \cap retained)
  BY <1>1, FS_Union
<1>4. Cardinality(Found) <= Cardinality(ids \cup retained) BY <1>1, FS_Subset DEF BudgetInv
<1>5. cur \in ids => Cardinality(ids) >= 1
  <2>1. cur \in ids => Cardinality(ids) # 0 BY <1>1, FS_EmptySet
  <2> QED BY <1>2, <2>1
<1>6. wEnd \in Nat /\ replays \in Nat /\ MaxUnits \in Nat BY SpoolAssumption DEF SpoolInv, TypeOK
<1>7. wEnd + Cardinality(ids) + Cardinality(retained) <= Claimed
  BY <1>2, <1>5, <1>6 DEF Claimed, Budget, ReservedUnits
<1> QED BY <1>2, <1>3, <1>4, <1>6, <1>7 DEF BudgetInv

\* The files cost no more than the budget plus what recovery appends again.
LEMMA BudgetSuffices == ASSUME SpoolInv, BudgetInv PROVE WithinBudget
<1>1. CASE ~Running BY <1>1 DEF BudgetInv
<1>2. CASE Running
  <2>1. Len(log) \in Nat /\ wEnd \in Nat BY LenProperties DEF SpoolInv, TypeOK
  <2>2. Len(log) <= wEnd
    <3>1. CASE wEnd = Len(log) BY <2>1, <3>1
    <3>2. CASE Cut
      <4>1. Len(log) = 0 BY <3>2 DEF Cut
      <4> QED BY <2>1, <4>1
    <3> QED BY <1>2, <3>1, <3>2 DEF SpoolInv, OffsetInv
  <2>3. Claimed \in Int BY <1>2, <2>1, ClaimedEnough DEF Claimed, Budget, ReservedUnits
  <2> QED BY <1>2, <2>1, <2>2, <2>3, ClaimedEnough DEF WithinBudget
<1> QED BY <1>1, <1>2

\* What is spoken for never exceeds the budget, and recovery adds to the budget
\* what it replays.
LEMMA StepBudget ==
  ASSUME SpoolInv, FilesInv, HolderInv, BudgetInv, [Next]_vars PROVE BudgetInv'
<1> DEFINE a == Cardinality(ids)
           b == Cardinality(retained)
           Same == UNCHANGED <<wEnd, ids, retained, replays>>
           Kept == UNCHANGED <<intent, slot>>
<1> USE DEF disk, files, writer, offsets, worker, history, bounds
<1>a. /\ replays \in Nat /\ MaxUnits \in Nat /\ wEnd \in Nat /\ Len(log) \in Nat
      /\ ids \subseteq Ids /\ IsFiniteSet(ids)
  BY SpoolAssumption, LenProperties, FS_Subset DEF SpoolInv, TypeOK
<1>b. WithinBudget BY BudgetSuffices
<1>c. Running => /\ a \in Nat /\ b \in Nat /\ wEnd + a + b <= Claimed
                 /\ Claimed <= MaxUnits + replays /\ Found \subseteq ids \cup retained
  BY ClaimedEnough DEF BudgetInv
\* A step that leaves the counts alone.
<1>0. ASSUME Running, Running', Same, Found' \subseteq ids \cup retained,
             failed' \/ (~failed' /\ Claimed' <= Claimed)
      PROVE  BudgetInv'
  <2>0. Claimed \in Int BY <1>0, <1>a, <1>c DEF Claimed, Budget, ReservedUnits
  <2>1. CASE failed'
    <3>1. Claimed' = wEnd + a + b BY <1>0, <2>1 DEF Claimed
    <3> QED BY <1>0, <1>a, <1>c, <2>0, <3>1 DEF BudgetInv
  <2>2. CASE ~failed' /\ Claimed' <= Claimed
    <3>1. Claimed' \in Int BY <1>0, <1>a, <1>c DEF Claimed, Budget, ReservedUnits
    <3> QED BY <1>0, <1>a, <1>c, <2>0, <2>2, <3>1 DEF BudgetInv
  <2> QED BY <1>0, <2>1, <2>2
<1>1. CASE Open
  <2>1. CASE ckpt > Len(log)
    <3>1. ~Running' /\ UNCHANGED <<log, intent, slot, replays>> BY <1>1, <2>1 DEF Open, Running
    <3> QED BY <1>b, <3>1 DEF BudgetInv, WithinBudget, Found
  <2>2. CASE ~(ckpt > Len(log))
    <3> DEFINE T == {i \in Found : ReadTerminal(i)}
               R == {i \in Found : ~ReadTerminal(i)}
    <3>1. /\ phase' = "recovering" /\ ids' = T /\ retained' = R /\ ~failed'
          /\ replays' = replays + Cardinality(ids') /\ wEnd' = Len(log)
          /\ UNCHANGED <<pc, intent, slot>> /\ phase = "down"
      BY <1>1, <2>2 DEF Open
    <3>2. pc' = "free" /\ Running' /\ Found' = Found
      BY <3>1 DEF SpoolInv, MutexInv, Running, Found
    <3>3. IsFiniteSet(T) /\ IsFiniteSet(R) /\ IsFiniteSet(Found)
      BY FS_Subset, SpoolAssumption DEF Found, SpoolInv, TypeOK
    <3>4. Cardinality(T \cup R) = Cardinality(T) + Cardinality(R) - Cardinality(T \cap R)
      BY <3>3, FS_Union
    <3>5. T \cup R = Found /\ T \cap R = {} OBVIOUS
    <3>6. Cardinality(T) \in Nat /\ Cardinality(R) \in Nat /\ Cardinality({}) = 0
      BY <3>3, FS_CardinalityType, FS_EmptySet
    <3>7. Claimed' = Len(log) + (2 * Cardinality(T) + Cardinality(R))
      BY <3>1, <3>2 DEF Claimed, Budget, ReservedUnits
    <3> HIDE DEF T, R
    <3>8. Cardinality(Found) = Cardinality(T) + Cardinality(R)
      <4>1. Cardinality(T \cup R) = Cardinality(Found) /\ Cardinality(T \cap R) = 0
        BY <3>5, <3>6, Zenon
      <4> QED BY <3>4, <3>6, <4>1
    <3>9. Len(log) + Cardinality(Found) <= MaxUnits + replays BY <1>b DEF WithinBudget
    <3>10. Claimed' <= MaxUnits + replays'
      <4> DEFINE t == Cardinality(T)
                 r == Cardinality(R)
                 n == Len(log)
      <4>1. /\ n \in Nat /\ t \in Nat /\ r \in Nat /\ n + (t + r) <= MaxUnits + replays
            /\ Claimed' = n + (2 * t + r) /\ replays' = replays + t
        BY <1>a, <3>1, <3>6, <3>7, <3>8, <3>9 DEF T
      <4> HIDE DEF t, r, n
      <4> QED BY <1>a, <4>1
    <3> QED BY <3>1, <3>2, <3>5, <3>10 DEF BudgetInv
  <2> QED BY <2>1, <2>2
<1>2. CASE RecoveryFailed \/ Crash \/ PowerFailure
  <2>1. ~Running' /\ UNCHANGED <<intent, slot, replays>>
    BY <1>2 DEF RecoveryFailed, Crash, PowerFailure, Dead, Running
  <2>2. Len(log') \in Nat /\ Len(log') <= Len(log)
    <3>1. CASE log' = log BY <1>a, <3>1
    <3>2. CASE \E n \in durable..Len(log) : log' = SubSeq(log, 1, n)
      <4>1. PICK n \in durable..Len(log) : log' = SubSeq(log, 1, n) BY <3>2
      <4>2. n \in Nat /\ n <= Len(log) BY <1>a, <4>1 DEF SpoolInv, TypeOK
      <4>3. Len(log') = n BY <1>a, <4>1, <4>2, SubSeqProperties DEF SpoolInv, TypeOK
      <4> QED BY <4>2, <4>3
    <3> QED BY <1>2, <3>1, <3>2 DEF RecoveryFailed, Crash, PowerFailure
  <2>3. Found' = Found /\ Cardinality(Found) \in Nat
    <3>1. IsFiniteSet(Found) BY FS_Subset, SpoolAssumption DEF Found, SpoolInv, TypeOK
    <3> QED BY <2>1, <3>1, FS_CardinalityType DEF Found
  <2> QED BY <1>a, <1>b, <2>1, <2>2, <2>3 DEF BudgetInv, WithinBudget
<1>3. ASSUME \/ RecoveryDone \/ Accept \/ AcceptFails \/ Quiet
             \/ \E i \in Ids : \/ AdmitUnavailable(i) \/ AdmitCapacity(i)
                               \/ AppendRefused(i) \/ AppendOversized(i)
      PROVE  BudgetInv'
  <2>1. /\ UNCHANGED <<pc, cur, failed, wEnd, ids, retained, replays, intent, slot, log>>
        /\ Running' = Running
    BY <1>3 DEF RecoveryDone, Accept, AcceptFails, Quiet, Notify, IngestRead, Checkpoint,
      IngestDrained, CompactSkip, Wake, SyncTick, IngestReadFails, CheckpointFails, vars,
      AdmitUnavailable, AdmitCapacity, AppendRefused, AppendOversized, Running
  <2> QED BY <2>1 DEF BudgetInv, Claimed, Budget, ReservedUnits, WithinBudget, Found
<1>4. ASSUME NEW i \in Ids, AdmitBegin(i) PROVE BudgetInv'
  <2>1. /\ Running /\ Running' /\ i \notin ids /\ ~failed' /\ pc' = "slot"
        /\ ids' = ids \cup {i} /\ Budget + 2 <= MaxUnits
        /\ UNCHANGED <<wEnd, retained, replays, intent, slot>>
    BY <1>4 DEF AdmitBegin, Admitting, Running, SpoolInv, OwnershipInv
  <2>2. Cardinality(ids') = a + 1 BY <1>a, <2>1, FS_AddElement
  <2>3. Claimed' = wEnd + (2 * (a + 1) + b) /\ Budget = wEnd + (2 * a + b)
    BY <2>1, <2>2 DEF Claimed, Budget, ReservedUnits
  <2>4. Found' \subseteq ids' \cup retained' BY <1>c, <2>1 DEF Found
  <2>5. Claimed' <= MaxUnits + replays'
    <3>1. a \in Nat /\ b \in Nat BY <1>c, <2>1
    <3> HIDE DEF a, b
    <3> QED BY <1>a, <2>1, <2>3, <3>1
  <2> QED BY <2>1, <2>4, <2>5 DEF BudgetInv
<1>5. ASSUME NEW i \in Ids, AppendReserved(i) PROVE BudgetInv'
  <2>1. /\ Running /\ Running' /\ Same /\ Kept /\ pc = "free" /\ pc' = "save"
        /\ failed' = failed
    BY <1>5 DEF AppendReserved, Ending, Running
  <2> QED BY <1>c, <2>1 DEF BudgetInv, Found, Claimed, Budget, ReservedUnits
<1>6. ASSUME NEW i \in Ids, AppendUnreserved(i) PROVE BudgetInv'
  <2>1. /\ Running /\ Running' /\ Same /\ Kept /\ ~failed' /\ Budget + 1 <= MaxUnits
        /\ pc' = "write" /\ cur' = i /\ i \notin ids
    BY <1>6 DEF AppendUnreserved, Ending, Running
  <2>2. Claimed' = wEnd + (2 * a + b) + 1 /\ Budget = wEnd + (2 * a + b)
    BY <2>1 DEF Claimed, Budget, ReservedUnits
  <2> QED BY <1>a, <1>c, <2>1, <2>2 DEF BudgetInv, Found
<1>7. CASE ReserveSlot \/ ReserveIntent \/ SaveBegin \/ SaveEnd
  <2>1. /\ pc \in {"slot", "intent", "save", "saving"} /\ cur \in ids /\ Running
        /\ cur \in Ids
    BY <1>7, <1>a DEF ReserveSlot, ReserveIntent, SaveBegin, SaveEnd, HolderInv, SpoolInv,
      MutexInv
  <2>2. Running' /\ Same /\ failed' = failed
    BY <1>7, <2>1 DEF ReserveSlot, ReserveIntent, SaveBegin, SaveEnd, Running
  <2>3. pc' \in {"intent", "free", "saving", "write"} /\ (pc' = "write" => cur' = cur)
    BY <1>7 DEF ReserveSlot, ReserveIntent, SaveBegin, SaveEnd
  <2>4. Found' \subseteq Found \cup {cur}
    BY <1>7, <2>1 DEF ReserveSlot, ReserveIntent, SaveBegin, SaveEnd, Found, SpoolInv, TypeOK
  <2>5. Claimed' = Claimed BY <2>1, <2>2, <2>3 DEF Claimed, Budget, ReservedUnits
  <2> QED BY <1>c, <2>1, <2>2, <2>4, <2>5 DEF BudgetInv
<1>8. CASE WriteFrame
  <2>1. /\ pc = "write" /\ wEnd' = wEnd + 1 /\ UNCHANGED <<ids, retained, failed, cur>>
        /\ pc' = (IF cur \in ids THEN "sync" ELSE "publish") /\ Kept
        /\ UNCHANGED <<replays, phase>>
    BY <1>8 DEF WriteFrame
  <2>2. ~failed /\ Running /\ Running' BY <2>1 DEF SpoolInv, MutexInv, Running
  <2>3. Claimed = IF cur \in ids THEN wEnd + (2 * a + b) ELSE wEnd + (2 * a + b) + 1
    BY <2>1, <2>2 DEF Claimed, Budget, ReservedUnits
  <2>4. Claimed' = IF cur \in ids THEN wEnd + 1 + (2 * a + b) - 1 ELSE wEnd + 1 + (2 * a + b)
    <3>1. Budget' = wEnd + 1 + (2 * a + b) /\ ~failed' /\ (cur' \in ids') = (cur \in ids)
      BY <2>1, <2>2 DEF Budget, ReservedUnits
    <3>2. CASE cur \in ids BY <1>a, <1>c, <2>1, <2>2, <3>1, <3>2 DEF Claimed
    <3>3. CASE cur \notin ids BY <2>1, <3>1, <3>3 DEF Claimed
    <3> QED BY <3>2, <3>3
  <2>5. Claimed' = Claimed BY <1>a, <1>c, <2>2, <2>3, <2>4
  <2> QED BY <1>c, <2>1, <2>2, <2>5 DEF BudgetInv, Found
<1>9. CASE SyncFrame \/ Publish \/ RetireIntent
  <2>1. /\ pc \in {"sync", "publish", "rmIntent"} /\ Same /\ slot' = slot
        /\ intent' \subseteq intent /\ UNCHANGED <<failed, phase>>
    BY <1>9 DEF SyncFrame, Publish, RetireIntent
  <2>2. ~failed /\ Running /\ Running' BY <2>1 DEF SpoolInv, MutexInv, Running
  <2>3. IF cur \in ids THEN pc' \in {"publish", "rmIntent", "rmSlot"} /\ cur' = cur
        ELSE pc' = "free" /\ pc = "publish"
    BY <1>9 DEF SyncFrame, Publish, RetireIntent, SpoolInv, RetireInv, HolderInv
  <2>4. Claimed' = Claimed BY <2>1, <2>2, <2>3 DEF Claimed, Budget, ReservedUnits
  <2> QED BY <1>c, <2>1, <2>2, <2>4 DEF BudgetInv, Found
<1>10. CASE RetireSlot
  <2>1. /\ pc = "rmSlot" /\ slot' = [slot EXCEPT ![cur] = "none"] /\ ids' = ids \ {cur}
        /\ pc' = "free" /\ UNCHANGED <<intent, phase, retained, failed, wEnd, replays>>
    BY <1>10 DEF RetireSlot
  <2>2. /\ ~failed /\ Running /\ Running' /\ cur \in ids /\ cur \notin intent
    BY <2>1 DEF SpoolInv, MutexInv, Running, RetireInv, HolderInv
  <2>3. Cardinality(ids') = a - 1 BY <1>a, <2>1, <2>2, FS_RemoveElement
  <2>4. Claimed = wEnd + (2 * a + b) - 1 /\ Claimed' = wEnd + (2 * (a - 1) + b)
    <3>1. Claimed = wEnd + (2 * a + b) - 1
      BY <1>a, <1>c, <2>1, <2>2 DEF Claimed, Budget, ReservedUnits
    <3>2. Claimed' = Budget' /\ Budget' = wEnd + (2 * (a - 1) + b)
      BY <2>1, <2>2, <2>3 DEF Claimed, Budget, ReservedUnits
    <3> QED BY <3>1, <3>2
  <2>5. Found' \subseteq ids' \cup retained'
    <3>1. Found' \subseteq Found \ {cur} BY <1>a, <2>1, <2>2 DEF Found, SpoolInv, TypeOK
    <3> QED BY <1>c, <2>1, <2>2, <3>1
  <2> QED BY <1>a, <1>c, <2>1, <2>2, <2>4, <2>5 DEF BudgetInv
<1>11. CASE ReserveFails
  <2>1. /\ pc \in {"slot", "intent"} /\ failed' /\ UNCHANGED <<phase, retained, wEnd, replays>>
    BY <1>11 DEF ReserveFails
  <2>2. Running /\ Running' /\ cur \in ids /\ life[cur] = "new" /\ cur \in Ids
    BY <1>a, <2>1 DEF SpoolInv, MutexInv, OwnershipInv, Running, HolderInv
  <2>3. CASE ids' = ids
    <3>1. Found' \subseteq Found \cup {cur} BY <1>11 DEF ReserveFails, Found, SpoolInv, TypeOK
    <3> QED BY <1>0, <1>c, <2>1, <2>2, <2>3, <3>1
  <2>4. CASE pc = "slot" /\ ids' = ids \ {cur} /\ Kept
    <3>1. cur \notin Found BY <2>2, <2>4 DEF Found, FilesInv
    <3>2. Found' \subseteq ids' \cup retained BY <1>c, <2>2, <2>4, <3>1 DEF Found
    <3>3. Cardinality(ids') = a - 1 BY <1>a, <2>2, <2>4, FS_RemoveElement
    <3>4. Claimed' = wEnd + (a - 1) + b BY <2>1, <3>3 DEF Claimed
    <3>5. Claimed \in Int BY <1>a, <1>c, <2>2 DEF Claimed, Budget, ReservedUnits
    <3> QED BY <1>a, <1>c, <2>1, <2>2, <3>2, <3>4, <3>5 DEF BudgetInv
  <2> QED BY <1>11, <2>3, <2>4 DEF ReserveFails
<1>12. CASE AppendFails
  <2>1. /\ pc \in {"saving", "write", "sync", "rmIntent", "rmSlot"} /\ failed' /\ Same
        /\ phase' = phase
    BY <1>12 DEF AppendFails
  <2>2. Running /\ Running' BY <2>1 DEF SpoolInv, MutexInv, Running
  <2>3. Found' \subseteq ids \cup retained
    <3>1. CASE pc = "saving"
      <4>1. cur \in ids /\ Found' \subseteq Found \cup {cur}
        BY <1>12, <3>1 DEF AppendFails, Found, SpoolInv, TypeOK, HolderInv
      <4> QED BY <1>c, <2>2, <4>1
    <3>2. CASE pc # "saving"
      <4>1. slot' = slot \/ slot' = [slot EXCEPT ![cur] = "none"] BY <1>12, <3>2 DEF AppendFails
      <4>2. \A i \in Ids : slot'[i] # "none" => slot[i] # "none" BY <4>1 DEF SpoolInv, TypeOK
      <4>3. intent' \subseteq intent BY <1>12, <3>2 DEF AppendFails
      <4> QED BY <1>c, <2>2, <4>2, <4>3 DEF Found
    <3> QED BY <3>1, <3>2
  <2> QED BY <1>0, <2>1, <2>2, <2>3
<1>13. CASE CompactBegin \/ CompactSync \/ CompactCheckpoint
  <2>1. /\ pc \in {"free", "cSync", "cCkpt"} /\ pc' \in {"cSync", "cCkpt", "cTrunc"}
        /\ Same /\ Kept /\ UNCHANGED <<failed, phase>>
        /\ ing \in {"compact", "drained"} \/ pc # "free"
    BY <1>13 DEF CompactBegin, CompactSync, CompactCheckpoint
  <2>2. Running /\ Running' BY <2>1 DEF SpoolInv, MutexInv, Running
  <2>3. Claimed' = Claimed BY <2>1 DEF Claimed, Budget, ReservedUnits
  <2> QED BY <1>c, <2>1, <2>2, <2>3 DEF BudgetInv, Found
<1>14. CASE CompactTruncate
  <2>1. /\ pc = "cTrunc" /\ pc' = "free" /\ wEnd' = 0 /\ Kept
        /\ UNCHANGED <<ids, retained, failed, phase, replays>>
    BY <1>14 DEF CompactTruncate
  <2>2. ~failed /\ Running /\ Running' BY <2>1 DEF SpoolInv, MutexInv, Running
  <2>3. Claimed = wEnd + (2 * a + b) /\ Claimed' = 0 + (2 * a + b)
    BY <2>1, <2>2 DEF Claimed, Budget, ReservedUnits
  <2> QED BY <1>a, <1>c, <2>1, <2>2, <2>3 DEF BudgetInv, Found
<1>15. CASE CompactFails \/ SyncFails
  <2>1. /\ failed' /\ Same /\ Kept /\ phase' = phase /\ (pc \in Compacting \/ phase = "up")
    BY <1>15 DEF CompactFails, SyncFails, Compacting
  <2>2. Running /\ Running' BY <2>1 DEF SpoolInv, MutexInv, Running, Compacting
  <2>3. Found' \subseteq ids \cup retained BY <1>c, <2>1, <2>2 DEF Found
  <2> QED BY <1>0, <2>1, <2>2, <2>3
<1> QED BY <1>1, <1>2, <1>3, <1>4, <1>5, <1>6, <1>7, <1>8, <1>9, <1>10, <1>11, <1>12, <1>13,
     <1>14, <1>15
     DEF Next, Admit, WriterStep, AppendStep, IngestStep, Fails, Quiet

LEMMA InitRecovery == Init => RecoveryInv
<1> SUFFICES ASSUME Init PROVE RecoveryInv OBVIOUS
<1>1. Known = {} /\ Found = {} /\ Len(log) = 0 BY DEF Init, Known, Frames, Found
<1>2. FilesInv /\ HolderInv /\ UnknownInv /\ GoneInv /\ WakeInv
  BY <1>1 DEF Init, FilesInv, HolderInv, UnknownInv, GoneInv, WakeInv
<1>3. BudgetInv BY <1>1, FS_EmptySet, SpoolAssumption DEF Init, BudgetInv, Running, WithinBudget
<1>4. OpenInv BY <1>1 DEF Init, OpenInv, OpenAccepts
<1> QED BY <1>2, <1>3, <1>4 DEF RecoveryInv

\* What open may report, what a waiting worker may rely on and what the directory
\* may cost, in every reachable state.
THEOREM RecoveryInvariant == Spec => []RecoveryInv
<1>1. RecoveryInv /\ SpoolInv /\ [Next]_vars => RecoveryInv'
  BY StepHolder, StepFiles, StepUnknown, StepGone, StepWake, StepBudget, StepOpen DEF RecoveryInv
<1> QED BY InitRecovery, SpoolInvariant, <1>1, PTL DEF Spec

\* Every part of what the spool promises, for any number of requests, crashes,
\* power losses and failing file operations: no event is lost or skipped, none is
\* reported as unknown although it is known, every dead request is accounted for,
\* no wake-up is lost, and the directory stays within its budget and can be opened
\* again unless the machine has lost power.
THEOREM SpoolAlwaysSound == Spec => []SpoolSound
<1>1. RecoveryInv /\ SpoolInv => SpoolSound
  <2> SUFFICES ASSUME RecoveryInv, SpoolInv PROVE SpoolSound OBVIOUS
  <2>1. NothingLost BY DEF SpoolInv, NothingLost
  <2>2. UnknownIsUnknown BY DEF RecoveryInv, UnknownInv, UnknownIsUnknown, Known
  <2>3. DeadRequestAccounted BY DEF RecoveryInv, GoneInv, DeadRequestAccounted
  <2>4. NoLostWakeup BY DEF RecoveryInv, WakeInv, NoLostWakeup
  <2>5. WithinBudget BY BudgetSuffices DEF RecoveryInv
  <2>6. ~PowerLoss => OpenAccepts BY DEF RecoveryInv, OpenInv
  <2> QED BY <2>1, <2>2, <2>3, <2>4, <2>5, <2>6 DEF SpoolSound
<1> QED BY <1>1, RecoveryInvariant, SpoolInvariant, PTL

--------------------
\* Hosted: SqliteBackup, which copies the database and the spool of a
\* gateway that is not running.  The theorems are about the specification of
\* SqliteBackup with its own constants and variables.

CONSTANTS Events, Snapshots, Restorers, MaxRevision, MaxDamage

VARIABLES
  db, spool, accepted, locks, gateway, admin, backup, snap, must, restore, dest, damage

Bak == INSTANCE SqliteBackup

USE DEF Bak!Idle, Bak!Free, Bak!Copying

\* Files that are there are not the mark of a missing file.
LEMMA SomethingThere ==
  /\ \A m, w, p : [main |-> m, wal |-> w, spool |-> p] # Bak!Nothing
  /\ \A d \in Bak!Databases : d # Bak!Nothing
  /\ Bak!NoBackup.step = Bak!Idle /\ Bak!NoRestore.step = Bak!Idle
<1>1. ASSUME NEW m, NEW w, NEW p PROVE [main |-> m, wal |-> w, spool |-> p] # Bak!Nothing
  <2>1. "main" \in DOMAIN [main |-> m, wal |-> w, spool |-> p] OBVIOUS
  <2>2. "main" \notin DOMAIN Bak!Nothing BY DEF Bak!Nothing
  <2> QED BY <2>1, <2>2
<1>2. ASSUME NEW d \in Bak!Databases PROVE d # Bak!Nothing
  <2>1. "rev" \in DOMAIN d BY DEF Bak!Databases
  <2>2. "rev" \notin DOMAIN Bak!Nothing BY DEF Bak!Nothing
  <2> QED BY <2>1, <2>2
<1> QED BY <1>1, <1>2 DEF Bak!NoBackup, Bak!NoRestore

\* An empty database without snapshots.
LEMMA BackupInitial == Bak!Init => Bak!BackupInv
<1> SUFFICES ASSUME Bak!Init PROVE Bak!BackupInv OBVIOUS
<1>1. Bak!TypeOK
  <2>1. Bak!NoFiles \in Bak!Directories BY DEF Bak!NoFiles, Bak!Directories
  <2>2. db \in Bak!Databases BY DEF Bak!Init, Bak!Databases
  <2>3. snap \in [Snapshots -> Bak!Directories] BY <2>1 DEF Bak!Init
  <2>4. locks \in [{"db", "spool"} -> {Bak!Free, "gateway", "admin", "backup"}] BY DEF Bak!Init
  <2>5. must \in [Snapshots -> SUBSET Events] BY DEF Bak!Init
  <2>6. restore \in [Restorers -> {Bak!NoRestore}] BY DEF Bak!Init
  <2>7. backup = Bak!NoBackup BY DEF Bak!Init
  <2>8. spool \subseteq Events /\ accepted \subseteq Events /\ gateway \in BOOLEAN /\ admin \in BOOLEAN
      BY DEF Bak!Init
  <2> HIDE DEF Bak!NoRestore, Bak!NoBackup
  <2> QED BY <2>2, <2>3, <2>4, <2>5, <2>6, <2>7, <2>8 DEF Bak!TypeOK
<1>2. Bak!Excluded BY SomethingThere DEF Bak!Init, Bak!Excluded
<1>3. Bak!NothingLost BY DEF Bak!Init, Bak!NothingLost
<1>4. Bak!CopiedIsCurrent BY SomethingThere DEF Bak!Init, Bak!CopiedIsCurrent
<1>5. Bak!ManifestDescribes BY DEF Bak!Init, Bak!ManifestDescribes, Bak!NoFiles
<1>6. Bak!StagedIsSnapshot BY SomethingThere DEF Bak!Init, Bak!StagedIsSnapshot
<1>7. Bak!RestoredStays BY DEF Bak!Init, Bak!RestoredStays
<1> QED BY <1>1, <1>2, <1>3, <1>4, <1>5, <1>6, <1>7 DEF Bak!BackupInv

\* The writers and the start of a backup leave the snapshots and the restores alone.
LEMMA WritersKeep ==
  ASSUME Bak!BackupInv, UNCHANGED <<snap, must, restore, dest>>
  PROVE  Bak!ManifestDescribes' /\ Bak!StagedIsSnapshot' /\ Bak!RestoredStays'
BY DEF Bak!BackupInv, Bak!ManifestDescribes, Bak!StagedIsSnapshot, Bak!RestoredStays, Bak!Files

\* The gateway writes only while nobody copies.
LEMMA GatewayKeeps ==
  ASSUME Bak!BackupInv, NEW e \in Events, Bak!Accept(e) \/ Bak!Ingest(e) \/ Bak!Acknowledge(e)
  PROVE  Bak!BackupInv'
<1>1. /\ gateway /\ UNCHANGED <<locks, gateway, admin, backup, snap, must, restore, dest>>
    BY DEF Bak!Accept, Bak!Ingest, Bak!Acknowledge
<1>2. Bak!TypeOK /\ Bak!Excluded /\ Bak!NothingLost /\ Bak!CopiedIsCurrent BY DEF Bak!BackupInv
<1>3. backup.step = Bak!Idle BY <1>1, <1>2 DEF Bak!Excluded
<1>4. /\ db' \in Bak!Databases /\ spool' \subseteq Events /\ accepted' \subseteq Events
      /\ accepted' \subseteq db'.events \cup spool'
  <2>1. CASE Bak!Accept(e) BY <1>2, <2>1 DEF Bak!Accept, Bak!TypeOK, Bak!NothingLost
  <2>2. CASE Bak!Ingest(e)
    <3>1. db' = [db EXCEPT !.events = db.events \cup {e}] /\ UNCHANGED <<spool, accepted>>
        BY <2>2 DEF Bak!Ingest
    <3>2. db' \in Bak!Databases /\ db'.events = db.events \cup {e}
      BY <1>2, <3>1 DEF Bak!TypeOK, Bak!Databases
    <3> QED BY <1>2, <3>1, <3>2 DEF Bak!TypeOK, Bak!NothingLost
  <2>3. CASE Bak!Acknowledge(e) BY <1>2, <2>3 DEF Bak!Acknowledge, Bak!TypeOK, Bak!NothingLost
  <2> QED BY <2>1, <2>2, <2>3
<1>5. Bak!TypeOK' BY <1>1, <1>2, <1>4 DEF Bak!TypeOK
<1>6. Bak!Excluded' BY <1>1, <1>2 DEF Bak!Excluded
<1>7. Bak!NothingLost' BY <1>4 DEF Bak!NothingLost
<1>8. Bak!CopiedIsCurrent' BY <1>1, <1>3 DEF Bak!CopiedIsCurrent
<1> QED BY <1>1, <1>5, <1>6, <1>7, <1>8, WritersKeep DEF Bak!BackupInv

\* The gateway and an administrator command take and leave the locks.
LEMMA HoldersKeep ==
  ASSUME Bak!BackupInv, Bak!GatewayStart \/ Bak!GatewayStop \/ Bak!AdminStart \/ Bak!AdminExit
  PROVE  Bak!BackupInv'
<1>1. UNCHANGED <<db, spool, accepted, backup, snap, must, restore, dest>>
    BY DEF Bak!GatewayStart, Bak!GatewayStop, Bak!AdminStart, Bak!AdminExit
<1>2. Bak!TypeOK /\ Bak!Excluded /\ Bak!NothingLost /\ Bak!CopiedIsCurrent BY DEF Bak!BackupInv
<1>3. DOMAIN locks = {"db", "spool"} BY <1>2 DEF Bak!TypeOK
<1>4. /\ locks' \in [{"db", "spool"} -> {Bak!Free, "gateway", "admin", "backup"}]
      /\ gateway' \in BOOLEAN /\ admin' \in BOOLEAN /\ Bak!Excluded'
  <2>1. CASE Bak!GatewayStart BY <1>1, <1>2, <1>3, <2>1 DEF Bak!GatewayStart, Bak!TypeOK,
      Bak!Excluded
  <2>2. CASE Bak!GatewayStop BY <1>1, <1>2, <1>3, <2>2 DEF Bak!GatewayStop, Bak!TypeOK,
      Bak!Excluded
  <2>3. CASE Bak!AdminStart BY <1>1, <1>2, <1>3, <2>3 DEF Bak!AdminStart, Bak!TypeOK, Bak!Excluded
  <2>4. CASE Bak!AdminExit BY <1>1, <1>2, <1>3, <2>4 DEF Bak!AdminExit, Bak!TypeOK, Bak!Excluded
  <2> QED BY <2>1, <2>2, <2>3, <2>4
<1>5. Bak!TypeOK' BY <1>1, <1>2, <1>4 DEF Bak!TypeOK
<1>6. Bak!NothingLost' /\ Bak!CopiedIsCurrent'
  BY <1>1, <1>2 DEF Bak!NothingLost, Bak!CopiedIsCurrent
<1> QED BY <1>1, <1>4, <1>5, <1>6, WritersKeep DEF Bak!BackupInv

\* An administrator command commits a revision.
LEMMA AdminCommitKeeps == ASSUME Bak!BackupInv, Bak!AdminCommit PROVE Bak!BackupInv'
<1>1. /\ admin /\ UNCHANGED <<spool, accepted, locks, gateway, admin, backup, snap, must, restore, dest>>
      /\ db' = [db EXCEPT !.rev = db.rev + 1]
    BY DEF Bak!AdminCommit
<1>2. Bak!TypeOK /\ Bak!Excluded /\ Bak!NothingLost /\ Bak!CopiedIsCurrent BY DEF Bak!BackupInv
<1>3. backup.step = Bak!Idle BY <1>1, <1>2 DEF Bak!Excluded
<1>4. PICK n : n = db.rev + 1 OBVIOUS
<1>5. db' = [db EXCEPT !.rev = n] /\ n \in Nat BY <1>1, <1>2, <1>4 DEF Bak!TypeOK, Bak!Databases
<1>6. db' \in Bak!Databases /\ db'.events = db.events BY <1>2, <1>5 DEF Bak!TypeOK, Bak!Databases
<1>7. Bak!TypeOK' BY <1>1, <1>2, <1>6 DEF Bak!TypeOK
<1>8. Bak!Excluded' BY <1>1, <1>2 DEF Bak!Excluded
<1>9. Bak!NothingLost' /\ Bak!CopiedIsCurrent'
  BY <1>1, <1>2, <1>3, <1>6 DEF Bak!NothingLost, Bak!CopiedIsCurrent
<1> QED BY <1>1, <1>7, <1>8, <1>9, WritersKeep DEF Bak!BackupInv

\* The backup takes both locks and makes its directory.
LEMMA BackupVerifyKeeps == ASSUME Bak!BackupInv, NEW s \in Snapshots, Bak!BackupVerify(s) PROVE Bak!BackupInv'
<1>1. /\ UNCHANGED <<db, spool, accepted, gateway, admin, snap, must, restore, dest>>
      /\ ~snap[s].dir /\ locks["db"] = Bak!Free /\ locks' = [locks EXCEPT !["db"] = "backup"]
      /\ backup' = [step |-> "verified", at |-> s]
    BY DEF Bak!BackupVerify
<1>2. Bak!TypeOK /\ Bak!Excluded /\ Bak!NothingLost /\ Bak!CopiedIsCurrent /\ Bak!ManifestDescribes
  BY DEF Bak!BackupInv
<1>3. backup' \in [step: {"verified"} \cup Bak!Copying, at: Snapshots]
      /\ backup'.step = "verified" /\ backup'.at = s
    BY <1>1
<1>4. Bak!TypeOK' BY <1>1, <1>2, <1>3 DEF Bak!TypeOK
<1>5. Bak!Excluded' BY <1>1, <1>2, <1>3 DEF Bak!Excluded, Bak!TypeOK
<1>6. Bak!NothingLost' BY <1>1, <1>2 DEF Bak!NothingLost
<1>7. Bak!CopiedIsCurrent' BY <1>1, <1>2, <1>3 DEF Bak!CopiedIsCurrent, Bak!ManifestDescribes
<1> QED BY <1>1, <1>4, <1>5, <1>6, <1>7, WritersKeep DEF Bak!BackupInv

\* A step of the backup that changes other files of its snapshot than the manifest.
LEMMA FilesKeep ==
  ASSUME Bak!BackupInv, backup.step # Bak!Idle, backup.at \in Snapshots, NEW d \in Bak!Directories,
         d.manifest = Bak!Nothing, snap' = [snap EXCEPT ![backup.at] = d],
         UNCHANGED <<must, restore, dest>>
  PROVE  /\ snap' \in [Snapshots -> Bak!Directories]
         /\ Bak!ManifestDescribes' /\ Bak!StagedIsSnapshot' /\ Bak!RestoredStays'
<1>1. Bak!TypeOK /\ Bak!CopiedIsCurrent /\ Bak!ManifestDescribes /\ Bak!StagedIsSnapshot /\ Bak!RestoredStays
    BY DEF Bak!BackupInv
<1>2. /\ snap' \in [Snapshots -> Bak!Directories] /\ snap'[backup.at].manifest = Bak!Nothing
      /\ \A s \in Snapshots \ {backup.at} : snap'[s] = snap[s]
    BY <1>1 DEF Bak!TypeOK
<1>3. snap[backup.at].manifest = Bak!Nothing BY <1>1 DEF Bak!CopiedIsCurrent
<1>4. Bak!ManifestDescribes' BY <1>1, <1>2 DEF Bak!ManifestDescribes, Bak!Files
<1>5. ASSUME NEW r \in Restorers, restore[r].step # Bak!Idle PROVE restore[r].at \in Snapshots
    BY <1>1, <1>5, SomethingThere DEF Bak!TypeOK
<1>6. Bak!StagedIsSnapshot' BY <1>1, <1>2, <1>3, <1>5 DEF Bak!StagedIsSnapshot
<1>7. Bak!RestoredStays' BY <1>1, <1>2, <1>3 DEF Bak!RestoredStays
<1> QED BY <1>2, <1>4, <1>6, <1>7

\* A running backup is at one of the snapshots.
LEMMA BackupAt == ASSUME Bak!BackupInv, backup.step # Bak!Idle
  PROVE  backup \in [step: {"verified"} \cup Bak!Copying, at: Snapshots]
BY SomethingThere DEF Bak!BackupInv, Bak!TypeOK

\* The backup ends: its locks are free again.
LEMMA ReleasedLocks ==
  ASSUME Bak!BackupInv, backup' = Bak!NoBackup, UNCHANGED <<gateway, admin>>,
         locks' = [l \in DOMAIN locks |-> IF locks[l] = "backup" THEN Bak!Free ELSE locks[l]]
  PROVE  /\ locks' \in [{"db", "spool"} -> {Bak!Free, "gateway", "admin", "backup"}]
         /\ Bak!Excluded' /\ Bak!CopiedIsCurrent'
<1>1. Bak!TypeOK /\ Bak!Excluded BY DEF Bak!BackupInv
<1>2. DOMAIN locks = {"db", "spool"} BY <1>1 DEF Bak!TypeOK
<1>3. locks' \in [{"db", "spool"} -> {Bak!Free, "gateway", "admin", "backup"}]
  BY <1>1, <1>2 DEF Bak!TypeOK
<1>4. Bak!Excluded' BY <1>1, <1>2, SomethingThere DEF Bak!Excluded, Bak!TypeOK
<1>5. Bak!CopiedIsCurrent' BY SomethingThere DEF Bak!CopiedIsCurrent
<1> QED BY <1>3, <1>4, <1>5

\* The backup collects the files of the database and the spool.
LEMMA BackupCollectKeeps == ASSUME Bak!BackupInv, Bak!BackupCollect PROVE Bak!BackupInv'
<1>1. /\ UNCHANGED <<db, spool, accepted, gateway, admin, must, restore, dest>>
      /\ backup.step = "verified"
    BY DEF Bak!BackupCollect
<1>2. Bak!TypeOK /\ Bak!Excluded /\ Bak!NothingLost /\ Bak!CopiedIsCurrent BY DEF Bak!BackupInv
<1>3. backup \in [step: {"verified"} \cup Bak!Copying, at: Snapshots] BY <1>1, BackupAt
<1>4. Bak!NothingLost' BY <1>1, <1>2 DEF Bak!NothingLost
<1>5. CASE locks["spool"] = Bak!Free
  <2> DEFINE d == [snap[backup.at] EXCEPT !.dir = TRUE]
  <2>1. /\ locks' = [l \in DOMAIN locks |-> "backup"]
        /\ backup' = [backup EXCEPT !.step = "main"]
        /\ snap' = [snap EXCEPT ![backup.at] = d]
      BY <1>2, <1>5 DEF Bak!BackupCollect, Bak!Keeps, Bak!TypeOK
  <2>2. snap[backup.at] \in Bak!Directories /\ snap[backup.at].manifest = Bak!Nothing
      BY <1>1, <1>2, <1>3 DEF Bak!TypeOK, Bak!CopiedIsCurrent
  <2>3. d \in Bak!Directories /\ d.manifest = Bak!Nothing /\ d.dir BY <2>2 DEF Bak!Directories
  <2> HIDE DEF d
  <2>4. /\ snap' \in [Snapshots -> Bak!Directories]
        /\ Bak!ManifestDescribes' /\ Bak!StagedIsSnapshot' /\ Bak!RestoredStays'
      BY <1>1, <1>3, <2>1, <2>3, FilesKeep
  <2>5. /\ backup' \in [step: {"verified"} \cup Bak!Copying, at: Snapshots]
        /\ backup'.step = "main" /\ backup'.at = backup.at
      BY <1>3, <2>1
  <2>6. locks' \in [{"db", "spool"} -> {"backup"}] BY <1>2, <2>1 DEF Bak!TypeOK
  <2>7. Bak!TypeOK' BY <1>1, <1>2, <2>4, <2>5, <2>6 DEF Bak!TypeOK
  <2>8. Bak!Excluded' BY <1>1, <1>2, <1>5, <2>5, <2>6 DEF Bak!Excluded
  <2>9. Bak!CopiedIsCurrent'
    <3>1. snap'[backup.at] = d BY <1>2, <1>3, <2>1 DEF Bak!TypeOK
    <3> QED BY <2>3, <2>5, <3>1 DEF Bak!CopiedIsCurrent
  <2> QED BY <1>4, <2>4, <2>7, <2>8, <2>9 DEF Bak!BackupInv
<1>6. CASE locks["spool"] # Bak!Free
  <2>1. /\ locks' = [l \in DOMAIN locks |-> IF locks[l] = "backup" THEN Bak!Free ELSE locks[l]]
        /\ backup' = Bak!NoBackup /\ UNCHANGED snap
      BY <1>6 DEF Bak!BackupCollect
  <2>2. Bak!TypeOK' BY <1>1, <1>2, <2>1, ReleasedLocks DEF Bak!TypeOK
  <2> QED BY <1>1, <1>4, <2>1, <2>2, ReleasedLocks, WritersKeep DEF Bak!BackupInv
<1> QED BY <1>5, <1>6

\* The backup copies one file after the other.
LEMMA BackupCopyKeeps == ASSUME Bak!BackupInv, Bak!BackupCopy PROVE Bak!BackupInv'
<1>1. /\ UNCHANGED <<db, spool, accepted, locks, gateway, admin, must, restore, dest>>
      /\ backup.step \in {"main", "wal", "spool"}
    BY DEF Bak!BackupCopy, Bak!After
<1>2. Bak!TypeOK /\ Bak!Excluded /\ Bak!NothingLost /\ Bak!CopiedIsCurrent BY DEF Bak!BackupInv
<1>3. backup \in [step: {"verified"} \cup Bak!Copying, at: Snapshots] BY <1>1, BackupAt
<1>4. Bak!NothingLost' BY <1>1, <1>2 DEF Bak!NothingLost
<1>5. snap[backup.at] \in Bak!Directories /\ snap[backup.at].manifest = Bak!Nothing /\ snap[backup.at].dir
    BY <1>1, <1>2, <1>3 DEF Bak!TypeOK, Bak!CopiedIsCurrent
<1>6. ASSUME NEW d \in Bak!Directories, d.manifest = Bak!Nothing, snap' = [snap EXCEPT ![backup.at] = d],
             NEW n \in {"wal", "spool", "manifest"}, backup' = [backup EXCEPT !.step = n],
             d.dir, d.main = db, n \in {"spool", "manifest"} => d.wal = db,
             n = "manifest" => d.spool = [events |-> spool]
      PROVE  Bak!BackupInv'
  <2>1. /\ snap' \in [Snapshots -> Bak!Directories]
        /\ Bak!ManifestDescribes' /\ Bak!StagedIsSnapshot' /\ Bak!RestoredStays'
      BY <1>1, <1>3, <1>6, FilesKeep
  <2>2. /\ backup' \in [step: {"verified"} \cup Bak!Copying, at: Snapshots]
        /\ backup'.step = n /\ backup'.at = backup.at
      BY <1>3, <1>6
  <2>3. Bak!TypeOK' BY <1>1, <1>2, <2>1, <2>2 DEF Bak!TypeOK
  <2>4. Bak!Excluded' BY <1>1, <1>2, <2>2 DEF Bak!Excluded
  <2>5. snap'[backup.at] = d BY <1>2, <1>3, <1>6 DEF Bak!TypeOK
  <2>6. Bak!CopiedIsCurrent' BY <1>1, <1>6, <2>2, <2>5 DEF Bak!CopiedIsCurrent
  <2> QED BY <1>4, <2>1, <2>3, <2>4, <2>6 DEF Bak!BackupInv
<1>7. db \in Bak!Databases /\ [events |-> spool] \in [events: SUBSET Events]
  BY <1>2 DEF Bak!TypeOK
<1>8. CASE backup.step = "main"
  <2> DEFINE d == [snap[backup.at] EXCEPT !.main = db]
  <2>1. snap' = [snap EXCEPT ![backup.at] = d] /\ backup' = [backup EXCEPT !.step = "wal"]
      BY <1>8 DEF Bak!BackupCopy, Bak!After
  <2>2. d \in Bak!Directories /\ d.manifest = Bak!Nothing /\ d.main = db /\ d.dir
    BY <1>5, <1>7 DEF Bak!Directories
  <2> HIDE DEF d
  <2> QED BY <1>6, <2>1, <2>2
<1>9. CASE backup.step = "wal"
  <2> DEFINE d == [snap[backup.at] EXCEPT !.wal = db]
  <2>1. snap' = [snap EXCEPT ![backup.at] = d] /\ backup' = [backup EXCEPT !.step = "spool"]
      BY <1>9 DEF Bak!BackupCopy, Bak!After
  <2>2. snap[backup.at].main = db BY <1>2, <1>9 DEF Bak!CopiedIsCurrent
  <2>3. d \in Bak!Directories /\ d.manifest = Bak!Nothing /\ d.main = db /\ d.wal = db /\ d.dir
      BY <1>5, <1>7, <2>2 DEF Bak!Directories
  <2> HIDE DEF d
  <2> QED BY <1>6, <2>1, <2>3
<1>10. CASE backup.step = "spool"
  <2> DEFINE d == [snap[backup.at] EXCEPT !.spool = [events |-> spool]]
  <2>1. snap' = [snap EXCEPT ![backup.at] = d] /\ backup' = [backup EXCEPT !.step = "manifest"]
      BY <1>10 DEF Bak!BackupCopy, Bak!After, Bak!SpoolFiles
  <2>2. snap[backup.at].main = db /\ snap[backup.at].wal = db
    BY <1>2, <1>10 DEF Bak!CopiedIsCurrent
  <2>3. /\ d \in Bak!Directories /\ d.manifest = Bak!Nothing /\ d.main = db /\ d.wal = db /\ d.dir
        /\ d.spool = [events |-> spool]
      BY <1>5, <1>7, <2>2 DEF Bak!Directories
  <2> HIDE DEF d
  <2> QED BY <1>6, <2>1, <2>3
<1> QED BY <1>1, <1>8, <1>9, <1>10

\* The backup writes its manifest and gives the locks back.
LEMMA BackupManifestKeeps == ASSUME Bak!BackupInv, Bak!BackupManifest PROVE Bak!BackupInv'
<1> DEFINE at == backup.at
           m == [main |-> snap[at].main, wal |-> snap[at].wal, spool |-> snap[at].spool]
           d == [snap[at] EXCEPT !.manifest = m]
<1>1. /\ UNCHANGED <<db, spool, accepted, gateway, admin, restore, dest>>
      /\ backup.step = "manifest" /\ snap' = [snap EXCEPT ![at] = d]
      /\ must' = [must EXCEPT ![at] = accepted] /\ backup' = Bak!NoBackup
      /\ locks' = [l \in DOMAIN locks |-> IF locks[l] = "backup" THEN Bak!Free ELSE locks[l]]
    BY DEF Bak!BackupManifest
<1>2. /\ Bak!TypeOK /\ Bak!NothingLost /\ Bak!CopiedIsCurrent /\ Bak!ManifestDescribes /\ Bak!StagedIsSnapshot
      /\ Bak!RestoredStays
    BY DEF Bak!BackupInv
<1>3. backup \in [step: {"verified"} \cup Bak!Copying, at: Snapshots] BY <1>1, BackupAt
<1>4. /\ snap[at] \in Bak!Directories /\ snap[at].manifest = Bak!Nothing /\ snap[at].main = db
      /\ snap[at].wal = db /\ snap[at].spool = [events |-> spool] /\ at \in Snapshots
    BY <1>1, <1>2, <1>3 DEF Bak!TypeOK, Bak!CopiedIsCurrent
<1>5. m \in Bak!Contents BY <1>4 DEF Bak!Contents, Bak!Directories
<1>6. /\ d \in Bak!Directories /\ d.manifest = m /\ d.main = db /\ d.wal = db
      /\ d.spool = [events |-> spool] /\ m = [main |-> d.main, wal |-> d.wal, spool |-> d.spool]
      /\ d.dir = snap[at].dir
    BY <1>4, <1>5 DEF Bak!Directories
<1>8. /\ snap' \in [Snapshots -> Bak!Directories] /\ snap'[at] = d /\ must'[at] = accepted
      /\ \A s \in Snapshots \ {at} : snap'[s] = snap[s] /\ must'[s] = must[s]
      /\ must' \in [Snapshots -> SUBSET Events]
  <2> HIDE DEF d, m
  <2> QED BY <1>1, <1>2, <1>4, <1>6 DEF Bak!TypeOK
<1>9. Bak!TypeOK' BY <1>1, <1>2, <1>8, ReleasedLocks DEF Bak!TypeOK
<1>10. Bak!NothingLost' BY <1>1, <1>2 DEF Bak!NothingLost
<1>11. Bak!ManifestDescribes'
  <2> SUFFICES ASSUME NEW s \in Snapshots, snap'[s].manifest # Bak!Nothing
               PROVE  /\ snap'[s].dir /\ snap'[s].manifest = Bak!Files(s)'
                      /\ snap'[s].main = snap'[s].wal
                      /\ must'[s] \subseteq snap'[s].main.events \cup snap'[s].spool.events
      BY DEF Bak!ManifestDescribes
  <2>1. CASE s # at BY <1>2, <1>8, <2>1 DEF Bak!ManifestDescribes, Bak!Files
  <2>2. CASE s = at
    <3>1. snap'[s].manifest = Bak!Files(s)' BY <1>6, <1>8, <2>2 DEF Bak!Files
    <3>2. snap[at].dir BY <1>1, <1>2 DEF Bak!CopiedIsCurrent
    <3>4. d.spool.events = spool BY <1>6
    <3>3. accepted \subseteq db.events \cup spool BY <1>2 DEF Bak!NothingLost
    <3> QED BY <1>6, <1>8, <2>2, <3>1, <3>2, <3>3, <3>4
  <2> QED BY <2>1, <2>2
<1>12. Bak!StagedIsSnapshot'
  <2>1. ASSUME NEW r \in Restorers, restore[r].step # Bak!Idle
        PROVE  restore[r].at \in Snapshots /\ restore[r].at # at
      BY <1>2, <1>4, <2>1, SomethingThere DEF Bak!TypeOK, Bak!StagedIsSnapshot
  <2> QED BY <1>1, <1>2, <1>8, <2>1 DEF Bak!StagedIsSnapshot
<1>13. Bak!RestoredStays'
  <2>1. dest # Bak!Nothing => dest.from # at BY <1>2, <1>4 DEF Bak!RestoredStays
  <2> QED BY <1>1, <1>2, <1>8, <2>1 DEF Bak!RestoredStays
<1> QED BY <1>1, <1>9, <1>10, <1>11, <1>12, <1>13, ReleasedLocks DEF Bak!BackupInv

\* The backup command dies between two steps.
LEMMA BackupDiesKeeps == ASSUME Bak!BackupInv, Bak!BackupDies PROVE Bak!BackupInv'
<1>1. /\ UNCHANGED <<db, spool, accepted, gateway, admin, snap, must, restore, dest>>
      /\ backup' = Bak!NoBackup
      /\ locks' = [l \in DOMAIN locks |-> IF locks[l] = "backup" THEN Bak!Free ELSE locks[l]]
    BY DEF Bak!BackupDies
<1>2. Bak!TypeOK' BY <1>1, ReleasedLocks DEF Bak!BackupInv, Bak!TypeOK
<1>3. Bak!NothingLost' BY <1>1 DEF Bak!BackupInv, Bak!NothingLost
<1> QED BY <1>1, <1>2, <1>3, ReleasedLocks, WritersKeep DEF Bak!BackupInv

\* A file of a finished snapshot is damaged.
LEMMA DamageKeeps == ASSUME Bak!BackupInv, NEW s \in Snapshots, Bak!Damage(s) PROVE Bak!BackupInv'
<1>1. /\ UNCHANGED <<db, spool, accepted, locks, gateway, admin, backup, must, restore, dest>>
      /\ \E f \in {"main", "spool"} : snap' = [snap EXCEPT ![s].damaged = @ \cup {f}]
    BY DEF Bak!Damage
<1>2. PICK f \in {"main", "spool"} : snap' = [snap EXCEPT ![s].damaged = @ \cup {f}] BY <1>1
<1> DEFINE x == snap[s].damaged \cup {f}
           d == [snap[s] EXCEPT !.damaged = x]
<1>3. snap' = [snap EXCEPT ![s] = d] BY <1>2
<1>4. /\ Bak!TypeOK /\ Bak!Excluded /\ Bak!NothingLost /\ Bak!CopiedIsCurrent /\ Bak!ManifestDescribes
      /\ Bak!StagedIsSnapshot /\ Bak!RestoredStays
    BY DEF Bak!BackupInv
<1>5. snap[s] \in Bak!Directories BY <1>4 DEF Bak!TypeOK
<1>6. x \subseteq {"main", "spool"} BY <1>5 DEF Bak!Directories
<1> HIDE DEF x
<1>7. /\ d \in Bak!Directories /\ d.dir = snap[s].dir /\ d.main = snap[s].main /\ d.wal = snap[s].wal
      /\ d.spool = snap[s].spool /\ d.manifest = snap[s].manifest
    BY <1>5, <1>6 DEF Bak!Directories
<1> HIDE DEF d
<1>8. /\ snap' \in [Snapshots -> Bak!Directories]
      /\ \A z \in Snapshots : /\ snap'[z].dir = snap[z].dir /\ snap'[z].main = snap[z].main
                              /\ snap'[z].wal = snap[z].wal /\ snap'[z].spool = snap[z].spool
                              /\ snap'[z].manifest = snap[z].manifest
    BY <1>3, <1>4, <1>7 DEF Bak!TypeOK
<1>9. Bak!TypeOK' BY <1>1, <1>4, <1>8 DEF Bak!TypeOK
<1>10. Bak!Excluded' /\ Bak!NothingLost' BY <1>1, <1>4 DEF Bak!Excluded, Bak!NothingLost
<1>11. Bak!CopiedIsCurrent' BY <1>1, <1>4, <1>8, BackupAt DEF Bak!CopiedIsCurrent
<1>12. Bak!ManifestDescribes' BY <1>1, <1>4, <1>8 DEF Bak!ManifestDescribes, Bak!Files
<1>13. Bak!StagedIsSnapshot'
  <2>1. ASSUME NEW r \in Restorers, restore[r].step # Bak!Idle PROVE restore[r].at \in Snapshots
      BY <1>4, <2>1, SomethingThere DEF Bak!TypeOK
  <2> QED BY <1>1, <1>4, <1>8, <2>1 DEF Bak!StagedIsSnapshot
<1>14. Bak!RestoredStays' BY <1>1, <1>4, <1>8 DEF Bak!RestoredStays
<1> QED BY <1>9, <1>10, <1>11, <1>12, <1>13, <1>14 DEF Bak!BackupInv

\* A restore changes its own step and files.
LEMMA RestoreKeeps ==
  ASSUME Bak!BackupInv, NEW r \in Restorers, NEW v, restore' = [restore EXCEPT ![r] = v],
         UNCHANGED <<db, spool, accepted, locks, gateway, admin, backup, snap, must>>,
         Bak!RestoredStays',
         \/ v = Bak!NoRestore
         \/ /\ v \in [step: {"verified"}, at: Snapshots, files: {Bak!Nothing}]
            /\ snap[v.at].manifest # Bak!Nothing
         \/ /\ v \in [step: {"staged", "checked"}, at: Snapshots,
                      files: [content: Bak!Contents, damaged: SUBSET {"main", "spool"}]]
            /\ snap[v.at].manifest # Bak!Nothing
            /\ v.files = [content |-> snap[v.at].manifest, damaged |-> {}]
  PROVE  Bak!BackupInv'
<1>1. /\ Bak!TypeOK /\ Bak!Excluded /\ Bak!NothingLost /\ Bak!CopiedIsCurrent /\ Bak!ManifestDescribes
      /\ Bak!StagedIsSnapshot
    BY DEF Bak!BackupInv
<1>2. restore'[r] = v /\ \A q \in Restorers \ {r} : restore'[q] = restore[q]
  BY <1>1 DEF Bak!TypeOK
<1>3. Bak!TypeOK' BY <1>1 DEF Bak!TypeOK
<1>4. Bak!Excluded' /\ Bak!NothingLost' /\ Bak!CopiedIsCurrent' /\ Bak!ManifestDescribes'
    BY <1>1 DEF Bak!Excluded, Bak!NothingLost, Bak!CopiedIsCurrent, Bak!ManifestDescribes,
      Bak!Files
<1>5. Bak!StagedIsSnapshot' BY <1>1, <1>2, SomethingThere DEF Bak!StagedIsSnapshot
<1> QED BY <1>3, <1>4, <1>5 DEF Bak!BackupInv

\* A restore checks its snapshot and that the destination is free.
LEMMA RestoreVerifyKeeps ==
  ASSUME Bak!BackupInv, NEW r \in Restorers, NEW s \in Snapshots, Bak!RestoreVerify(r, s)
  PROVE  Bak!BackupInv'
<1> DEFINE v == [step |-> "verified", at |-> s, files |-> Bak!Nothing]
<1>1. /\ restore' = [restore EXCEPT ![r] = v] /\ snap[s].manifest # Bak!Nothing
      /\ UNCHANGED <<db, spool, accepted, locks, gateway, admin, backup, snap, must, dest>>
    BY DEF Bak!RestoreVerify, Bak!Verified
<1>2. v \in [step: {"verified"}, at: Snapshots, files: {Bak!Nothing}] /\ v.at = s OBVIOUS
<1>3. Bak!RestoredStays' BY <1>1 DEF Bak!BackupInv, Bak!RestoredStays
<1> HIDE DEF v
<1> QED BY <1>1, <1>2, <1>3, RestoreKeeps

\* A restore copies the snapshot to its staging directory.
LEMMA RestoreCopyKeeps == ASSUME Bak!BackupInv, NEW r \in Restorers, Bak!RestoreCopy(r) PROVE Bak!BackupInv'
<1> DEFINE s == restore[r].at
           f == [content |-> Bak!Files(s), damaged |-> snap[s].damaged]
           v == [step |-> "staged", at |-> s, files |-> f]
<1>1. /\ restore[r].step = "verified"
      /\ restore' = [restore EXCEPT ![r] = IF Bak!CopyAgrees(s) THEN v ELSE Bak!NoRestore]
      /\ UNCHANGED <<db, spool, accepted, locks, gateway, admin, backup, snap, must, dest>>
    BY DEF Bak!RestoreCopy
<1>2. Bak!RestoredStays' BY <1>1 DEF Bak!BackupInv, Bak!RestoredStays
<1>3. s \in Snapshots /\ snap[s].manifest # Bak!Nothing /\ snap[s] \in Bak!Directories
    BY <1>1, SomethingThere DEF Bak!BackupInv, Bak!TypeOK, Bak!StagedIsSnapshot
<1>4. CASE Bak!CopyAgrees(s)
  <2>1. snap[s].damaged = {} /\ Bak!Files(s) = snap[s].manifest
    BY <1>4 DEF Bak!CopyAgrees, Bak!DigestsAgree
  <2>2. Bak!Files(s) \in Bak!Contents BY <1>3 DEF Bak!Files, Bak!Contents, Bak!Directories
  <2>3. /\ f = [content |-> snap[s].manifest, damaged |-> {}]
        /\ f \in [content: Bak!Contents, damaged: SUBSET {"main", "spool"}]
      BY <2>1, <2>2
  <2> HIDE DEF f
  <2>4. /\ v \in [step: {"staged", "checked"}, at: Snapshots,
                  files: [content: Bak!Contents, damaged: SUBSET {"main", "spool"}]]
        /\ v.at = s /\ v.files = f
      BY <1>3, <2>3
  <2>5. restore' = [restore EXCEPT ![r] = v] BY <1>1, <1>4 DEF f
  <2> HIDE DEF v, s
  <2>6. /\ snap[v.at].manifest # Bak!Nothing
        /\ v.files = [content |-> snap[v.at].manifest, damaged |-> {}]
      BY <1>3, <2>3, <2>4
  <2>7. UNCHANGED <<db, spool, accepted, locks, gateway, admin, backup, snap, must>> BY <1>1
  <2> QED BY <1>2, <2>4, <2>5, <2>6, <2>7, RestoreKeeps
<1>5. CASE ~Bak!CopyAgrees(s)
  <2>1. restore' = [restore EXCEPT ![r] = Bak!NoRestore] BY <1>1, <1>5
  <2> QED BY <1>1, <1>2, <2>1, RestoreKeeps
<1> QED BY <1>4, <1>5

\* A restore checks the copies against the manifest.
LEMMA RestoreCheckKeeps == ASSUME Bak!BackupInv, NEW r \in Restorers, Bak!RestoreCheck(r) PROVE Bak!BackupInv'
<1> DEFINE v == [restore[r] EXCEPT !.step = "checked"]
<1>1. /\ restore[r].step = "staged" /\ restore' = [restore EXCEPT ![r] = v]
      /\ UNCHANGED <<db, spool, accepted, locks, gateway, admin, backup, snap, must, dest>>
    BY DEF Bak!RestoreCheck
<1>2. Bak!RestoredStays' BY <1>1 DEF Bak!BackupInv, Bak!RestoredStays
<1>3. /\ restore[r] \in [step: {"staged", "checked"}, at: Snapshots,
                         files: [content: Bak!Contents, damaged: SUBSET {"main", "spool"}]]
      /\ snap[restore[r].at].manifest # Bak!Nothing
      /\ restore[r].files = [content |-> snap[restore[r].at].manifest, damaged |-> {}]
    BY <1>1, SomethingThere DEF Bak!BackupInv, Bak!TypeOK, Bak!StagedIsSnapshot
<1>4. /\ v \in [step: {"staged", "checked"}, at: Snapshots,
                files: [content: Bak!Contents, damaged: SUBSET {"main", "spool"}]]
      /\ v.at = restore[r].at /\ v.files = restore[r].files
    BY <1>3
<1> HIDE DEF v
<1> QED BY <1>1, <1>2, <1>3, <1>4, RestoreKeeps

\* A restore renames its staging directory, or dies.
LEMMA RestoreEndKeeps ==
  ASSUME Bak!BackupInv, NEW r \in Restorers, Bak!RestorePublish(r) \/ Bak!RestoreDies(r)
  PROVE  Bak!BackupInv'
<1>1. /\ restore' = [restore EXCEPT ![r] = Bak!NoRestore]
      /\ UNCHANGED <<db, spool, accepted, locks, gateway, admin, backup, snap, must>>
    BY DEF Bak!RestorePublish, Bak!RestoreDies
<1>2. Bak!RestoredStays'
  <2>1. CASE dest' = dest BY <1>1, <2>1 DEF Bak!BackupInv, Bak!RestoredStays
  <2>2. CASE restore[r].step = "checked" /\ dest' = [from |-> restore[r].at, files |-> restore[r].files]
    <3>1. /\ restore[r].at \in Snapshots /\ snap[restore[r].at].manifest # Bak!Nothing
          /\ restore[r].files = [content |-> snap[restore[r].at].manifest, damaged |-> {}]
        BY <2>2, SomethingThere DEF Bak!BackupInv, Bak!TypeOK, Bak!StagedIsSnapshot
    <3> QED BY <1>1, <2>2, <3>1 DEF Bak!RestoredStays
  <2> QED BY <2>1, <2>2 DEF Bak!RestorePublish, Bak!RestoreDies
<1> QED BY <1>1, <1>2, RestoreKeeps

\* Every step of the gateway, the commands and the disk keeps the invariant.
LEMMA BackupStep == ASSUME Bak!BackupInv, [Bak!Next]_(Bak!vars) PROVE Bak!BackupInv'
<1>1. CASE Bak!GatewayStart \/ Bak!GatewayStop \/ Bak!AdminStart \/ Bak!AdminExit
  BY <1>1, HoldersKeep
<1>2. CASE Bak!AdminCommit BY <1>2, AdminCommitKeeps
<1>3. ASSUME NEW e \in Events, Bak!Accept(e) \/ Bak!Ingest(e) \/ Bak!Acknowledge(e) PROVE Bak!BackupInv'
    BY <1>3, GatewayKeeps
<1>4. CASE Bak!BackupCollect BY <1>4, BackupCollectKeeps
<1>5. CASE Bak!BackupCopy BY <1>5, BackupCopyKeeps
<1>6. CASE Bak!BackupManifest BY <1>6, BackupManifestKeeps
<1>7. CASE Bak!BackupDies BY <1>7, BackupDiesKeeps
<1>8. ASSUME NEW s \in Snapshots, Bak!BackupVerify(s) \/ Bak!Damage(s) PROVE Bak!BackupInv'
    BY <1>8, BackupVerifyKeeps, DamageKeeps
<1>9. ASSUME NEW r \in Restorers, NEW s \in Snapshots, Bak!RestoreVerify(r, s) PROVE Bak!BackupInv'
    BY <1>9, RestoreVerifyKeeps
<1>10. ASSUME NEW r \in Restorers,
              Bak!RestoreCopy(r) \/ Bak!RestoreCheck(r) \/ Bak!RestorePublish(r) \/ Bak!RestoreDies(r)
       PROVE  Bak!BackupInv'
    BY <1>10, RestoreCopyKeeps, RestoreCheckKeeps, RestoreEndKeeps
<1>11. CASE UNCHANGED Bak!vars
  <2>1. Bak!TypeOK' BY <1>11 DEF Bak!BackupInv, Bak!TypeOK, Bak!vars
  <2>2. Bak!Excluded' /\ Bak!NothingLost' /\ Bak!CopiedIsCurrent'
      BY <1>11 DEF Bak!BackupInv, Bak!Excluded, Bak!NothingLost, Bak!CopiedIsCurrent, Bak!vars
  <2> QED BY <1>11, <2>1, <2>2, WritersKeep DEF Bak!BackupInv, Bak!vars
<1> QED BY <1>1, <1>2, <1>3, <1>4, <1>5, <1>6, <1>7, <1>8, <1>9, <1>10, <1>11 DEF Bak!Next

\* The locks exclude every writer while the files of a snapshot are copied, and
\* a restore publishes only what it has checked.
THEOREM BackupInvariant == Bak!Spec => []Bak!BackupInv
<1>1. Bak!Init => Bak!BackupInv BY BackupInitial
<1>2. Bak!BackupInv /\ [Bak!Next]_(Bak!vars) => Bak!BackupInv' BY BackupStep
<1> QED BY <1>1, <1>2, PTL DEF Bak!Spec

\* For any number of events, snapshots and restores: what a manifest describes is
\* one revision of the database with every event accepted until then, in the
\* database or in the spool, and what a restore has installed is a snapshot,
\* undamaged (create_backup, restore_backup).
THEOREM BackupAlwaysSound == Bak!Spec => []Bak!BackupSound
<1>1. Bak!BackupInv => Bak!BackupSound
  <2> SUFFICES ASSUME Bak!BackupInv PROVE Bak!BackupSound OBVIOUS
  <2>1. Bak!ManifestDescribes /\ Bak!RestoredStays BY DEF Bak!BackupInv
  <2>5. ASSUME NEW s \in Snapshots, snap[s].manifest # Bak!Nothing
        PROVE  /\ snap[s].manifest.main = snap[s].main /\ snap[s].manifest.wal = snap[s].wal
               /\ snap[s].manifest.spool = snap[s].spool /\ snap[s].main = snap[s].wal
               /\ must[s] \subseteq snap[s].main.events \cup snap[s].spool.events
    <3>1. /\ snap[s].manifest = [main |-> snap[s].main, wal |-> snap[s].wal, spool |-> snap[s].spool]
          /\ snap[s].main = snap[s].wal
          /\ must[s] \subseteq snap[s].main.events \cup snap[s].spool.events
        BY <2>1, <2>5 DEF Bak!ManifestDescribes, Bak!Files
    <3>2. /\ snap[s].manifest.main = snap[s].main /\ snap[s].manifest.wal = snap[s].wal
          /\ snap[s].manifest.spool = snap[s].spool
        BY <3>1
    <3> QED BY <3>1, <3>2
  <2>2. Bak!SnapshotIsOneRevision BY <2>5 DEF Bak!SnapshotIsOneRevision
  <2>3. Bak!SnapshotIsComplete BY <2>5 DEF Bak!SnapshotIsComplete
  <2>4. Bak!RestoredIsSnapshot BY <2>1 DEF Bak!RestoredIsSnapshot, Bak!RestoredStays
  <2> QED BY <2>2, <2>3, <2>4 DEF Bak!BackupSound
<1> QED BY <1>1, BackupInvariant, PTL

HIDE DEF Bak!Idle, Bak!Free, Bak!Copying

--------------------
\* Hosted: SqliteOwnership, the claim on the file that the inbox and the
\* checkpoints' database live in.  `fileIds' are the identities it has
\* generated.

CONSTANTS Processes, Tasks, ProcessOf, Migrations, MaxIds, MaxReplaced

VARIABLES at, content, marker, holder, proc, conn, tx, late, fileIds

Own == INSTANCE SqliteOwnership WITH ids <- fileIds

USE DEF Own!Parts, Own!Absent, Own!Partial

\* What the records of a process's claim hold.
LEMMA ClaimTypes ==
  ASSUME Own!OwnershipAssumption, Own!TypeOK, NEW p \in Processes
  PROVE  /\ Own!NoClaim.pc = "dead" /\ ~Own!NoClaim.fenced
         /\ proc[p].pc # "dead" => proc[p] \in Own!Claims
         /\ proc[p].pc # "dead" <=> proc[p] # Own!NoClaim
<1>1. Own!NoClaim.pc = "dead" /\ ~Own!NoClaim.fenced BY DEF Own!NoClaim
<1>2. proc[p] \in Own!Claims \cup {Own!NoClaim} BY DEF Own!TypeOK
<1>3. \A c \in Own!Claims : c.pc # "dead" BY DEF Own!Claims
<1> QED BY <1>1, <1>2, <1>3

\* An empty path without owners.
LEMMA OwnerInitial == Own!OwnershipAssumption /\ Own!Init => Own!OwnershipInv
<1> SUFFICES ASSUME Own!OwnershipAssumption, Own!Init PROVE Own!OwnershipInv OBVIOUS
<1>1. Own!TypeOK
  <2>1. MaxIds \in Nat /\ MaxReplaced \in Nat BY DEF Own!OwnershipAssumption
  <2>2. 1 \in Own!Generations BY <2>1 DEF Own!Generations
  <2>3. at \in [Own!Parts -> Own!Generations] BY <2>2 DEF Own!Init
  <2>4. Own!Fresh \in Own!Databases BY <2>1 DEF Own!Fresh, Own!Databases
  <2>5. content \in [Own!Generations -> Own!Databases] BY <2>4 DEF Own!Init
  <2>6. marker \in [text: {Own!Absent, Own!Partial} \cup 1..MaxIds, disk: {Own!Absent, Own!Partial} \cup 1..MaxIds]
      BY DEF Own!Init
  <2>7. holder \in [{"dir", "db"} \X Own!Generations -> Processes \cup {Own!Nothing}]
    BY DEF Own!Init
  <2>8. proc \in [Processes -> Own!Claims \cup {Own!NoClaim}] BY DEF Own!Init
  <2>9. conn \in [Processes -> {0} \cup Own!Generations] BY DEF Own!Init
  <2>10. tx \in [Tasks -> {"idle", "verified", "begun"}] /\ late \in [Processes -> Nat]
      BY DEF Own!Init
  <2>11. fileIds \in 0..MaxIds BY <2>1 DEF Own!Init
  <2> QED BY <2>3, <2>5, <2>6, <2>7, <2>8, <2>9, <2>10, <2>11 DEF Own!TypeOK
<1>2. \A p \in Processes : proc[p].pc = "dead" /\ conn[p] = 0 /\ late[p] = 0
    BY DEF Own!Init, Own!NoClaim
<1>3. Own!ClaimsHold /\ Own!MarkerNamesClaims
  BY <1>2 DEF Own!ClaimsHold, Own!MarkerNamesClaims, Own!Alive
<1>4. Own!ConnectionsFit BY <1>2 DEF Own!ConnectionsFit
<1>5. 1 \in Own!Generations /\ \A g \in Own!Generations : content[g].id = 0 /\ content[g].history = 0
    BY DEF Own!Init, Own!Fresh, Own!Generations, Own!OwnershipAssumption
<1>6. Own!OriginalNamed /\ Own!HistoryIsWhole BY <1>5 DEF Own!OriginalNamed, Own!HistoryIsWhole
<1>7. Own!WritesFenced BY <1>2 DEF Own!WritesFenced, Own!Init
<1> QED BY <1>1, <1>3, <1>4, <1>6, <1>7 DEF Own!OwnershipInv

\* A file has one owner: two claims of one file are one.
LEMMA OneOwner ==
  ASSUME Own!OwnershipInv, NEW p \in Processes, NEW q \in Processes, Own!Alive(p), Own!Alive(q),
         \/ proc[p].held["db"] = proc[q].held["db"]
         \/ proc[p].held["dir"] = proc[q].held["dir"]
  PROVE  p = q
BY DEF Own!OwnershipInv, Own!ClaimsHold

\* A process that exits gives back its locks and nothing else.
LEMMA ExitKeeps ==
  ASSUME Own!OwnershipAssumption, Own!OwnershipInv, NEW p \in Processes, Own!Exited(p),
         UNCHANGED <<at, content, fileIds>>,
         marker' \in [text: {Own!Absent, Own!Partial} \cup 1..MaxIds, disk: {Own!Absent, Own!Partial} \cup 1..MaxIds],
         marker'.text = marker.text, marker'.disk \in {marker.disk, marker.text}
  PROVE  Own!OwnershipInv'
<1>1. /\ Own!TypeOK /\ Own!ClaimsHold /\ Own!MarkerNamesClaims /\ Own!ConnectionsFit /\ Own!OriginalNamed
      /\ Own!HistoryIsWhole /\ Own!WritesFenced
    BY DEF Own!OwnershipInv
<1>2. /\ proc' \in [Processes -> Own!Claims \cup {Own!NoClaim}] /\ proc'[p].pc = "dead"
      /\ \A q \in Processes \ {p} : proc'[q] = proc[q]
    BY <1>1, ClaimTypes DEF Own!Exited, Own!TypeOK
<1>3. /\ conn' \in [Processes -> {0} \cup Own!Generations] /\ conn'[p] = 0
      /\ \A q \in Processes \ {p} : conn'[q] = conn[q]
      /\ late' \in [Processes -> Nat] /\ late'[p] = 0
      /\ \A q \in Processes \ {p} : late'[q] = late[q]
    BY <1>1 DEF Own!Exited, Own!TypeOK
<1>4. /\ holder' \in [{"dir", "db"} \X Own!Generations -> Processes \cup {Own!Nothing}]
      /\ \A l \in {"dir", "db"} \X Own!Generations : holder[l] # p => holder'[l] = holder[l]
    BY <1>1 DEF Own!Exited, Own!TypeOK
<1>5. /\ tx' \in [Tasks -> {"idle", "verified", "begun"}]
      /\ \A t \in Tasks : IF ProcessOf[t] = p THEN tx'[t] = "idle" ELSE tx'[t] = tx[t]
    BY <1>1 DEF Own!Exited, Own!TypeOK
<1>6. Own!TypeOK' BY <1>1, <1>2, <1>3, <1>4, <1>5 DEF Own!TypeOK
<1>7. Own!ClaimsHold'
  <2> SUFFICES ASSUME NEW q \in Processes, proc'[q].pc # "dead"
               PROVE  /\ holder'[<<"dir", proc'[q].held["dir"]>>] = q
                      /\ holder'[<<"db", proc'[q].held["db"]>>] = q
                      /\ \A x \in Own!Parts : proc'[q].held[x] <= at'[x]
      BY DEF Own!ClaimsHold, Own!Alive
  <2>1. q # p /\ proc'[q] = proc[q] BY <1>2
  <2>2. proc[q].held \in [Own!Parts -> Own!Generations] BY <1>1, <2>1, ClaimTypes DEF Own!Claims
  <2>3. /\ holder[<<"dir", proc[q].held["dir"]>>] = q /\ holder[<<"db", proc[q].held["db"]>>] = q
        /\ \A x \in Own!Parts : proc[q].held[x] <= at[x]
      BY <1>1, <2>1 DEF Own!ClaimsHold, Own!Alive
  <2> QED BY <1>4, <2>1, <2>2, <2>3
<1>8. Own!MarkerNamesClaims' BY <1>1, <1>2 DEF Own!MarkerNamesClaims, Own!Alive
<1>9. Own!ConnectionsFit' BY <1>1, <1>2, <1>3 DEF Own!ConnectionsFit
<1>10. Own!OriginalNamed' /\ Own!HistoryIsWhole' BY <1>1 DEF Own!OriginalNamed, Own!HistoryIsWhole
<1>11. Own!WritesFenced' BY <1>1, <1>2, <1>3, <1>5 DEF Own!WritesFenced, Own!Alive,
    Own!OwnershipAssumption
<1> QED BY <1>6, <1>7, <1>8, <1>9, <1>10, <1>11 DEF Own!OwnershipInv

\* acquire takes both locks and reads or creates the marker.
LEMMA AcquireKeeps ==
  ASSUME Own!OwnershipAssumption, Own!OwnershipInv, NEW p \in Processes, Own!Acquire(p) PROVE Own!OwnershipInv'
<1>1. /\ Own!TypeOK /\ Own!ClaimsHold /\ Own!MarkerNamesClaims /\ Own!ConnectionsFit /\ Own!OriginalNamed
      /\ Own!HistoryIsWhole /\ Own!WritesFenced
    BY DEF Own!OwnershipInv
<1>2. /\ proc[p].pc = "dead" /\ UNCHANGED <<at, content, conn, tx, late>>
      /\ holder[<<"dir", at["dir"]>>] = Own!Nothing /\ holder[<<"db", at["db"]>>] = Own!Nothing
      /\ holder' = [holder EXCEPT ![<<"dir", at["dir"]>>] = p, ![<<"db", at["db"]>>] = p]
    BY DEF Own!Acquire
<1>3. at["dir"] \in Own!Generations /\ at["db"] \in Own!Generations BY <1>1 DEF Own!TypeOK
<1>4. /\ holder' \in [{"dir", "db"} \X Own!Generations -> Processes \cup {Own!Nothing}]
      /\ holder'[<<"dir", at["dir"]>>] = p /\ holder'[<<"db", at["db"]>>] = p
      /\ \A l \in {"dir", "db"} \X Own!Generations : holder[l] # Own!Nothing => holder'[l] = holder[l]
    BY <1>1, <1>2, <1>3 DEF Own!TypeOK
<1>5. conn[p] = 0 /\ late[p] # 1 /\ \A t \in Tasks : ProcessOf[t] = p => tx[t] = "idle"
    BY <1>1, <1>2 DEF Own!ConnectionsFit, Own!WritesFenced, Own!Alive
<1>6. ASSUME NEW c \in Own!Claims, c.pc \in {"creating", "reading"}, c.held = at,
             proc' = [proc EXCEPT ![p] = c]
      PROVE  /\ proc' \in [Processes -> Own!Claims \cup {Own!NoClaim}] /\ proc'[p] = c
             /\ \A q \in Processes \ {p} : proc'[q] = proc[q]
             /\ Own!ClaimsHold' /\ Own!ConnectionsFit' /\ Own!WritesFenced'
  <2>1. /\ proc' \in [Processes -> Own!Claims \cup {Own!NoClaim}] /\ proc'[p] = c
        /\ \A q \in Processes \ {p} : proc'[q] = proc[q]
      BY <1>1, <1>6 DEF Own!TypeOK
  <2>2. Own!ClaimsHold'
    <3> SUFFICES ASSUME NEW q \in Processes, proc'[q].pc # "dead"
                 PROVE  /\ holder'[<<"dir", proc'[q].held["dir"]>>] = q
                        /\ holder'[<<"db", proc'[q].held["db"]>>] = q
                        /\ \A x \in Own!Parts : proc'[q].held[x] <= at'[x]
        BY DEF Own!ClaimsHold, Own!Alive
    <3>1. CASE q = p
      <4>1. \A x \in Own!Parts : at[x] <= at[x]
        BY <1>1 DEF Own!TypeOK, Own!Generations, Own!OwnershipAssumption
      <4> QED BY <1>2, <1>4, <1>6, <2>1, <3>1, <4>1
    <3>2. CASE q # p
      <4>1. proc'[q] = proc[q] BY <2>1, <3>2
      <4>2. proc[q].held \in [Own!Parts -> Own!Generations]
        BY <1>1, <4>1, ClaimTypes DEF Own!Claims
      <4>3. /\ holder[<<"dir", proc[q].held["dir"]>>] = q /\ holder[<<"db", proc[q].held["db"]>>] = q
            /\ \A x \in Own!Parts : proc[q].held[x] <= at[x]
          BY <1>1, <4>1 DEF Own!ClaimsHold, Own!Alive
      <4>4. q # Own!Nothing BY DEF Own!OwnershipAssumption
      <4> QED BY <1>2, <1>4, <4>1, <4>2, <4>3, <4>4
    <3> QED BY <3>1, <3>2
  <2>3. Own!ConnectionsFit' BY <1>1, <1>2, <1>5, <1>6, <2>1 DEF Own!ConnectionsFit
  <2>4. Own!WritesFenced' BY <1>1, <1>2, <1>5, <2>1 DEF Own!WritesFenced, Own!Alive,
      Own!OwnershipAssumption
  <2> QED BY <2>1, <2>2, <2>3, <2>4
<1>7. Own!HistoryIsWhole' BY <1>1, <1>2 DEF Own!HistoryIsWhole
<1>8. CASE marker.text = Own!Absent
  <2> DEFINE c == [pc |-> "creating", held |-> at, id |-> fileIds + 1, fenced |-> FALSE]
  <2>1. /\ marker' = [marker EXCEPT !.text = Own!Partial] /\ fileIds' = fileIds + 1 /\ fileIds < MaxIds
        /\ proc' = [proc EXCEPT ![p] = c] /\ content[at["db"]].id = 0
      BY <1>1, <1>8 DEF Own!Acquire, Own!MarkerUsable
  <2>2. fileIds + 1 \in 1..MaxIds BY <1>1, <2>1 DEF Own!TypeOK, Own!OwnershipAssumption
  <2>3. c \in Own!Claims /\ c.pc = "creating" /\ c.held = at
    BY <1>1, <2>2 DEF Own!Claims, Own!TypeOK
  <2> HIDE DEF c
  <2>4. /\ marker' \in [text: {Own!Absent, Own!Partial} \cup 1..MaxIds, disk: {Own!Absent, Own!Partial} \cup 1..MaxIds]
        /\ marker'.text = Own!Partial
      BY <1>1, <2>1 DEF Own!TypeOK
  <2>5. /\ proc' \in [Processes -> Own!Claims \cup {Own!NoClaim}] /\ proc'[p] = c
        /\ \A q \in Processes \ {p} : proc'[q] = proc[q]
        /\ Own!ClaimsHold' /\ Own!ConnectionsFit' /\ Own!WritesFenced'
      BY <1>6, <2>1, <2>3
  <2>6. ASSUME NEW q \in Processes PROVE ~Own!Alive(q)
    <3>1. Own!Alive(q) => proc[q] \in Own!Claims BY <1>1, ClaimTypes DEF Own!Alive
    <3> QED BY <1>1, <1>8, <3>1 DEF Own!MarkerNamesClaims, Own!Claims
  <2>7. Own!MarkerNamesClaims' BY <2>3, <2>4, <2>5, <2>6 DEF Own!MarkerNamesClaims, Own!Alive
  <2>8. Own!OriginalNamed'
    <3>1. at = [q \in Own!Parts |-> 1] => content[1].id = 0 BY <2>1
    <3> QED BY <1>2, <3>1 DEF Own!OriginalNamed
  <2>9. fileIds' \in 0..MaxIds BY <2>1, <2>2
  <2>10. Own!TypeOK' BY <1>1, <1>2, <1>4, <2>4, <2>5, <2>9 DEF Own!TypeOK
  <2> QED BY <1>7, <2>5, <2>7, <2>8, <2>10 DEF Own!OwnershipInv
<1>9. CASE marker.text # Own!Absent
  <2> DEFINE c == [pc |-> "reading", held |-> at, id |-> marker.text, fenced |-> FALSE]
  <2>1. /\ UNCHANGED <<marker, fileIds>> /\ marker.text \in 1..MaxIds
        /\ proc' = [proc EXCEPT ![p] = c]
      BY <1>1, <1>9 DEF Own!Acquire, Own!MarkerUsable
  <2>3. c \in Own!Claims /\ c.pc = "reading" /\ c.held = at /\ c.id = marker.text
      BY <1>1, <2>1 DEF Own!Claims, Own!TypeOK
  <2> HIDE DEF c
  <2>5. /\ proc' \in [Processes -> Own!Claims \cup {Own!NoClaim}] /\ proc'[p] = c
        /\ \A q \in Processes \ {p} : proc'[q] = proc[q]
        /\ Own!ClaimsHold' /\ Own!ConnectionsFit' /\ Own!WritesFenced'
      BY <1>6, <2>1, <2>3
  <2>6. \A q \in Processes : Own!Alive(q) => proc[q].pc # "creating"
      BY <1>1, <2>1 DEF Own!MarkerNamesClaims, Own!OwnershipAssumption
  <2>7. Own!MarkerNamesClaims' BY <1>1, <2>1, <2>3, <2>5, <2>6 DEF Own!MarkerNamesClaims,
      Own!Alive
  <2>8. Own!OriginalNamed' BY <1>1, <1>2, <2>1 DEF Own!OriginalNamed
  <2>10. Own!TypeOK' BY <1>1, <1>2, <1>4, <2>1, <2>5 DEF Own!TypeOK
  <2> QED BY <1>7, <2>5, <2>7, <2>8, <2>10 DEF Own!OwnershipInv
<1> QED BY <1>8, <1>9

\* The step of a claim.
LEMMA ClaimStep ==
  ASSUME Own!OwnershipAssumption, Own!OwnershipInv, NEW p \in Processes, Own!Alive(p),
         NEW x \in {"creating", "reading", "writing", "claimed", "open", "ready", "closed"},
         proc' = [proc EXCEPT ![p].pc = x]
  PROVE  /\ proc' \in [Processes -> Own!Claims \cup {Own!NoClaim}]
         /\ proc'[p].pc = x /\ proc'[p].held = proc[p].held /\ proc'[p].id = proc[p].id
         /\ proc'[p].fenced = proc[p].fenced
         /\ \A q \in Processes \ {p} : proc'[q] = proc[q]
<1>1. Own!TypeOK BY DEF Own!OwnershipInv
<1>2. proc[p] \in Own!Claims BY <1>1, ClaimTypes DEF Own!Alive
<1> DEFINE c == [proc[p] EXCEPT !.pc = x]
<1>3. /\ c \in Own!Claims /\ c.pc = x /\ c.held = proc[p].held /\ c.id = proc[p].id
      /\ c.fenced = proc[p].fenced
    BY <1>2 DEF Own!Claims
<1>4. proc' = [proc EXCEPT ![p] = c] OBVIOUS
<1> HIDE DEF c
<1> QED BY <1>1, <1>3, <1>4 DEF Own!TypeOK

\* The new identity is written to the marker file.
LEMMA WriteMarkerKeeps ==
  ASSUME Own!OwnershipAssumption, Own!OwnershipInv, NEW p \in Processes, Own!WriteMarker(p) PROVE Own!OwnershipInv'
<1>1. /\ Own!TypeOK /\ Own!ClaimsHold /\ Own!MarkerNamesClaims /\ Own!ConnectionsFit /\ Own!OriginalNamed
      /\ Own!HistoryIsWhole /\ Own!WritesFenced
    BY DEF Own!OwnershipInv
<1>2. /\ proc[p].pc = "creating" /\ UNCHANGED <<at, content, holder, conn, tx, late, fileIds>>
      /\ marker' = [marker EXCEPT !.text = proc[p].id] /\ proc' = [proc EXCEPT ![p].pc = "writing"]
    BY DEF Own!WriteMarker
<1>3. Own!Alive(p) BY <1>2 DEF Own!Alive
<1>4. /\ proc' \in [Processes -> Own!Claims \cup {Own!NoClaim}]
      /\ proc'[p].pc = "writing" /\ proc'[p].held = proc[p].held /\ proc'[p].id = proc[p].id
      /\ \A q \in Processes \ {p} : proc'[q] = proc[q]
    BY <1>2, <1>3, ClaimStep
<1>5. marker.text = Own!Partial /\ \A q \in Processes \ {p} : ~Own!Alive(q)
    BY <1>1, <1>2, <1>3 DEF Own!MarkerNamesClaims
<1>6. proc[p].id \in 1..MaxIds BY <1>1, <1>2, ClaimTypes DEF Own!Claims
<1>7. /\ marker' \in [text: {Own!Absent, Own!Partial} \cup 1..MaxIds, disk: {Own!Absent, Own!Partial} \cup 1..MaxIds]
      /\ marker'.text = proc[p].id
    BY <1>1, <1>2, <1>6 DEF Own!TypeOK
<1>8. Own!TypeOK' BY <1>1, <1>2, <1>4, <1>7 DEF Own!TypeOK
<1>9. Own!ClaimsHold' BY <1>1, <1>2, <1>3, <1>4 DEF Own!ClaimsHold, Own!Alive
<1>10. Own!MarkerNamesClaims' BY <1>4, <1>5, <1>7 DEF Own!MarkerNamesClaims, Own!Alive
<1>11. Own!ConnectionsFit' BY <1>1, <1>2, <1>4 DEF Own!ConnectionsFit
<1>12. Own!OriginalNamed'
  <2>1. 1 \in Own!Generations BY DEF Own!Generations, Own!OwnershipAssumption
  <2>2. content[1].id \in Nat BY <1>1, <2>1 DEF Own!TypeOK, Own!Databases, Own!Foreign,
      Own!OwnershipAssumption
  <2>3. ~(at = [q \in Own!Parts |-> 1] /\ content[1].id # 0)
    BY <1>1, <1>5, <2>2 DEF Own!OriginalNamed
  <2> QED BY <1>2, <2>3 DEF Own!OriginalNamed
<1>13. Own!HistoryIsWhole' BY <1>1, <1>2 DEF Own!HistoryIsWhole
<1>14. Own!WritesFenced' BY <1>1, <1>2, <1>3, <1>4 DEF Own!WritesFenced, Own!Alive,
    Own!OwnershipAssumption
<1> QED BY <1>8, <1>9, <1>10, <1>11, <1>12, <1>13, <1>14 DEF Own!OwnershipInv

\* The marker is synced before the claim is used.
LEMMA SyncMarkerKeeps ==
  ASSUME Own!OwnershipAssumption, Own!OwnershipInv, NEW p \in Processes, Own!SyncMarker(p) PROVE Own!OwnershipInv'
<1>1. /\ Own!TypeOK /\ Own!ClaimsHold /\ Own!MarkerNamesClaims /\ Own!ConnectionsFit /\ Own!OriginalNamed
      /\ Own!HistoryIsWhole /\ Own!WritesFenced
    BY DEF Own!OwnershipInv
<1>2. /\ proc[p].pc \in {"reading", "writing"} /\ UNCHANGED <<at, content, fileIds>>
      /\ marker' = [marker EXCEPT !.disk = marker.text]
    BY DEF Own!SyncMarker, Own!Synced
<1>3. Own!Alive(p) BY <1>2 DEF Own!Alive
<1>4. /\ marker' \in [text: {Own!Absent, Own!Partial} \cup 1..MaxIds, disk: {Own!Absent, Own!Partial} \cup 1..MaxIds]
      /\ marker'.text = marker.text /\ marker'.disk = marker.text
    BY <1>1, <1>2 DEF Own!TypeOK
<1>5. CASE ~Own!PathsIntact(p) BY <1>2, <1>4, <1>5, ExitKeeps DEF Own!SyncMarker
<1>6. CASE Own!PathsIntact(p)
  <2>1. proc' = [proc EXCEPT ![p].pc = "claimed"] /\ UNCHANGED <<holder, conn, tx, late>>
      BY <1>6 DEF Own!SyncMarker
  <2>2. /\ proc' \in [Processes -> Own!Claims \cup {Own!NoClaim}]
        /\ proc'[p].pc = "claimed" /\ proc'[p].held = proc[p].held /\ proc'[p].id = proc[p].id
        /\ \A q \in Processes \ {p} : proc'[q] = proc[q]
      BY <1>3, <2>1, ClaimStep
  <2>3. Own!TypeOK' BY <1>1, <1>2, <1>4, <2>1, <2>2 DEF Own!TypeOK
  <2>4. Own!ClaimsHold' BY <1>1, <1>2, <1>3, <2>1, <2>2 DEF Own!ClaimsHold, Own!Alive
  <2>5. Own!MarkerNamesClaims' BY <1>1, <1>2, <1>3, <1>4, <2>2 DEF Own!MarkerNamesClaims,
      Own!Alive
  <2>6. Own!ConnectionsFit' BY <1>1, <1>2, <2>1, <2>2 DEF Own!ConnectionsFit
  <2>7. Own!OriginalNamed' /\ Own!HistoryIsWhole'
    BY <1>1, <1>2, <1>4 DEF Own!OriginalNamed, Own!HistoryIsWhole
  <2>8. Own!WritesFenced' BY <1>1, <1>2, <1>3, <2>1, <2>2 DEF Own!WritesFenced, Own!Alive,
      Own!OwnershipAssumption
  <2> QED BY <2>3, <2>4, <2>5, <2>6, <2>7, <2>8 DEF Own!OwnershipInv
<1> QED BY <1>5, <1>6

\* A generation is an integer, and so is every connection's.
LEMMA GenerationsAreNumbers ==
  ASSUME Own!OwnershipAssumption, Own!TypeOK, NEW p \in Processes
  PROVE  /\ 1 \in Own!Generations /\ Own!Generations \subseteq Nat /\ 0 \notin Own!Generations
         /\ at["db"] \in Own!Generations /\ conn[p] \in Nat
         /\ Own!Alive(p) =>
              /\ proc[p] \in Own!Claims /\ proc[p].held \in [Own!Parts -> Own!Generations]
              /\ proc[p].id \in 1..MaxIds
<1>1. 1 \in Own!Generations /\ Own!Generations \subseteq Nat /\ 0 \notin Own!Generations
    BY DEF Own!Generations, Own!OwnershipAssumption
<1>4. conn[p] \in {0} \cup Own!Generations BY DEF Own!TypeOK
<1>6. at \in [Own!Parts -> Own!Generations] BY DEF Own!TypeOK
<1>2. at["db"] \in Own!Generations BY <1>6
<1>5. conn[p] \in Nat
  <2>1. CASE conn[p] = 0 BY <2>1
  <2>2. CASE conn[p] \in Own!Generations BY <1>1, <2>2
  <2> QED BY <1>4, <2>1, <2>2
<1>3. Own!Alive(p) => proc[p] \in Own!Claims BY ClaimTypes DEF Own!Alive
<1> QED BY <1>1, <1>2, <1>3, <1>5 DEF Own!Claims

\* The pool opens whatever file is at the path.
LEMMA ConnectKeeps ==
  ASSUME Own!OwnershipAssumption, Own!OwnershipInv, NEW p \in Processes, Own!Connect(p) PROVE Own!OwnershipInv'
<1>1. /\ Own!TypeOK /\ Own!ClaimsHold /\ Own!MarkerNamesClaims /\ Own!ConnectionsFit /\ Own!OriginalNamed
      /\ Own!HistoryIsWhole /\ Own!WritesFenced
    BY DEF Own!OwnershipInv
<1>2. /\ proc[p].pc = "claimed" /\ conn' = [conn EXCEPT ![p] = at["db"]]
      /\ UNCHANGED <<at, content, marker, holder, proc, tx, late, fileIds>>
    BY DEF Own!Connect
<1>3. Own!Alive(p) BY <1>2 DEF Own!Alive
<1>4. at["db"] \in Own!Generations /\ at["db"] \in Nat BY <1>1, GenerationsAreNumbers
<1>5. /\ conn' \in [Processes -> {0} \cup Own!Generations] /\ conn'[p] = at["db"]
      /\ \A q \in Processes \ {p} : conn'[q] = conn[q]
    BY <1>1, <1>2, <1>4 DEF Own!TypeOK
<1>6. proc[p].held["db"] <= at["db"] BY <1>1, <1>3 DEF Own!ClaimsHold
<1>7. Own!TypeOK' BY <1>1, <1>2, <1>5 DEF Own!TypeOK
<1>8. Own!ClaimsHold' /\ Own!MarkerNamesClaims'
  BY <1>1, <1>2 DEF Own!ClaimsHold, Own!MarkerNamesClaims, Own!Alive
<1>9. Own!ConnectionsFit' BY <1>1, <1>2, <1>4, <1>5, <1>6 DEF Own!ConnectionsFit
<1>10. Own!OriginalNamed' /\ Own!HistoryIsWhole'
  BY <1>1, <1>2 DEF Own!OriginalNamed, Own!HistoryIsWhole
<1>11. Own!WritesFenced' BY <1>1, <1>2 DEF Own!WritesFenced, Own!Alive
<1> QED BY <1>7, <1>8, <1>9, <1>10, <1>11 DEF Own!OwnershipInv

\* The claim's own database is changed, which no other claim is about.
LEMMA OwnFileStep ==
  ASSUME Own!OwnershipAssumption, Own!OwnershipInv, NEW p \in Processes, Own!Alive(p),
         conn[p] # 0, conn[p] = proc[p].held["db"], NEW d \in Own!Databases,
         content' = [content EXCEPT ![conn[p]] = d],
         NEW x \in {"open", "ready"}, proc' = [proc EXCEPT ![p].pc = x],
         proc[p].pc \in {"claimed", "open"},
         d.id = proc[p].id, x = "ready" => d.history = Migrations[p],
         d.history \in {0} \cup {Migrations[q] : q \in Processes},
         Own!OriginalNamed',
         UNCHANGED <<at, marker, fileIds, holder, conn, tx, late>>
  PROVE  Own!OwnershipInv'
<1>1. /\ Own!TypeOK /\ Own!ClaimsHold /\ Own!MarkerNamesClaims /\ Own!ConnectionsFit /\ Own!OriginalNamed
      /\ Own!HistoryIsWhole /\ Own!WritesFenced
    BY DEF Own!OwnershipInv
<1>2. /\ proc' \in [Processes -> Own!Claims \cup {Own!NoClaim}]
      /\ proc'[p].pc = x /\ proc'[p].held = proc[p].held /\ proc'[p].id = proc[p].id
      /\ \A q \in Processes \ {p} : proc'[q] = proc[q]
    BY ClaimStep
<1>3. conn[p] \in Own!Generations BY <1>1 DEF Own!TypeOK
<1>4. /\ content' \in [Own!Generations -> Own!Databases] /\ content'[conn[p]] = d
      /\ \A g \in Own!Generations \ {conn[p]} : content'[g] = content[g]
    BY <1>1, <1>3 DEF Own!TypeOK
<1>5. ASSUME NEW q \in Processes, q # p, proc[q].pc \in {"open", "ready"}
      PROVE  conn[q] # conn[p] /\ conn[q] \in Own!Generations
  <2>1. conn[q] # 0 /\ conn[q] = proc[q].held["db"] BY <1>1, <1>5 DEF Own!ConnectionsFit
  <2>2. Own!Alive(q) BY <1>5 DEF Own!Alive
  <2> QED BY <1>1, <1>5, <2>1, <2>2, OneOwner DEF Own!TypeOK
<1>6. Own!TypeOK' BY <1>1, <1>2, <1>4 DEF Own!TypeOK
<1>7. Own!ClaimsHold' BY <1>1, <1>2 DEF Own!ClaimsHold, Own!Alive
<1>8. Own!MarkerNamesClaims' BY <1>1, <1>2 DEF Own!MarkerNamesClaims, Own!Alive
<1>9. Own!ConnectionsFit'
  <2> SUFFICES ASSUME NEW q \in Processes
               PROVE  /\ proc'[q].pc \in {"dead", "creating", "reading", "writing"} => conn[q] = 0
                      /\ conn[q] # 0 => proc'[q].held["db"] <= conn[q] /\ conn[q] <= at["db"]
                      /\ proc'[q].pc \in {"open", "ready", "closed"} /\ conn[q] # 0
                           => conn[q] = proc'[q].held["db"]
                      /\ proc'[q].pc \in {"open", "ready"}
                           => conn[q] # 0 /\ content'[conn[q]].id = proc'[q].id
                      /\ proc'[q].pc = "ready" => content'[conn[q]].history = Migrations[q]
      BY DEF Own!ConnectionsFit
  <2>1. CASE q = p BY <1>1, <1>2, <1>4, <2>1 DEF Own!ConnectionsFit
  <2>2. CASE q # p BY <1>1, <1>2, <1>4, <1>5, <2>2 DEF Own!ConnectionsFit
  <2> QED BY <2>1, <2>2
<1>10. Own!HistoryIsWhole' BY <1>1, <1>3, <1>4 DEF Own!HistoryIsWhole
<1>11. Own!WritesFenced' BY <1>1, <1>2 DEF Own!WritesFenced, Own!Alive, Own!OwnershipAssumption
<1> QED BY <1>6, <1>7, <1>8, <1>9, <1>10, <1>11 DEF Own!OwnershipInv

\* A fresh database gets the identity of the claim.
LEMMA InitializeKeeps ==
  ASSUME Own!OwnershipAssumption, Own!OwnershipInv, NEW p \in Processes, Own!Initialize(p) PROVE Own!OwnershipInv'
<1>1. /\ Own!TypeOK /\ Own!ClaimsHold /\ Own!MarkerNamesClaims /\ Own!ConnectionsFit /\ Own!OriginalNamed
      /\ Own!HistoryIsWhole /\ Own!WritesFenced
    BY DEF Own!OwnershipInv
<1>2. /\ proc[p].pc = "claimed" /\ conn[p] # 0 /\ UNCHANGED <<at, marker, fileIds>>
    BY DEF Own!Initialize
<1>3. Own!Alive(p) BY <1>2 DEF Own!Alive
<1>4. CASE ~(Own!ConnectionVerified(p) /\ Own!IdentityAccepted(p))
    BY <1>1, <1>2, <1>4, ExitKeeps DEF Own!Initialize, Own!TypeOK
<1>5. CASE Own!ConnectionVerified(p) /\ Own!IdentityAccepted(p)
  <2>1. /\ proc[p] \in Own!Claims /\ proc[p].held \in [Own!Parts -> Own!Generations] /\ proc[p].id \in 1..MaxIds
        /\ Own!Generations \subseteq Nat /\ conn[p] \in Nat
      BY <1>1, <1>3, GenerationsAreNumbers
  <2>2. at = proc[p].held /\ marker.text = proc[p].id
      BY <1>5 DEF Own!ConnectionVerified, Own!PathsIntact
  <2>3. conn[p] = proc[p].held["db"]
    <3>1. proc[p].held["db"] <= conn[p] /\ conn[p] <= proc[p].held["db"]
        BY <1>1, <1>2, <2>2 DEF Own!ConnectionsFit
    <3>2. proc[p].held["db"] \in Nat BY <2>1
    <3> QED BY <2>1, <3>1, <3>2
  <2>4. Own!Identified(p) = proc[p].id BY <1>5 DEF Own!Identified, Own!IdentityAccepted
  <2> DEFINE d == [content[conn[p]] EXCEPT !.id = proc[p].id]
  <2>5. conn[p] \in Own!Generations /\ content[conn[p]] \in Own!Databases
    BY <1>1, <1>2 DEF Own!TypeOK
  <2>6. d \in Own!Databases /\ d.id = proc[p].id /\ d.history = content[conn[p]].history
      BY <2>1, <2>5 DEF Own!Databases, Own!OwnershipAssumption
  <2>7. /\ content' = [content EXCEPT ![conn[p]] = d] /\ proc' = [proc EXCEPT ![p].pc = "open"]
        /\ UNCHANGED <<holder, conn, tx, late>>
      BY <1>5, <2>4 DEF Own!Initialize
  <2> HIDE DEF d
  <2>8. d.history \in {0} \cup {Migrations[q] : q \in Processes}
    BY <1>1, <2>5, <2>6 DEF Own!HistoryIsWhole
  <2>9. Own!OriginalNamed'
    <3>1. marker.disk = marker.text BY <1>1, <1>2, <1>3 DEF Own!MarkerNamesClaims
    <3>2. at = [q \in Own!Parts |-> 1] => conn[p] = 1 BY <2>2, <2>3
    <3>3. content'[conn[p]].id = proc[p].id BY <1>1, <2>5, <2>6, <2>7 DEF Own!TypeOK
    <3> QED BY <1>2, <2>2, <3>1, <3>2, <3>3 DEF Own!OriginalNamed
  <2> QED BY <1>2, <1>3, <2>3, <2>6, <2>7, <2>8, <2>9, OwnFileStep
<1> QED BY <1>4, <1>5

\* The migrations run in the database that was opened.
LEMMA InstallKeeps ==
  ASSUME Own!OwnershipAssumption, Own!OwnershipInv, NEW p \in Processes, Own!Install(p) \/ Own!InstallFails(p)
  PROVE  Own!OwnershipInv'
<1>1. /\ Own!TypeOK /\ Own!ClaimsHold /\ Own!MarkerNamesClaims /\ Own!ConnectionsFit /\ Own!OriginalNamed
      /\ Own!HistoryIsWhole /\ Own!WritesFenced
    BY DEF Own!OwnershipInv
<1>2. proc[p].pc = "open" /\ UNCHANGED <<at, marker, fileIds>>
  BY DEF Own!Install, Own!InstallFails
<1>3. Own!Alive(p) BY <1>2 DEF Own!Alive
<1>4. CASE UNCHANGED content /\ Own!Exited(p) BY <1>1, <1>2, <1>4, ExitKeeps DEF Own!TypeOK
<1>5. CASE Own!Install(p) /\ Own!HistoryAccepted(p)
  <2>1. /\ conn[p] # 0 /\ conn[p] = proc[p].held["db"] /\ content[conn[p]].id = proc[p].id
        /\ conn[p] \in Own!Generations /\ content[conn[p]] \in Own!Databases
      BY <1>1, <1>2 DEF Own!ConnectionsFit, Own!TypeOK
  <2>2. PICK n \in Own!Installed(p) :
              /\ content' = [content EXCEPT ![conn[p]].history = n]
              /\ IF n >= Migrations[p]
                 THEN proc' = [proc EXCEPT ![p].pc = "ready"] /\ UNCHANGED <<holder, conn, tx, late>>
                 ELSE Own!Exited(p)
      BY <1>5 DEF Own!Install
  <2>3. n = Migrations[p] /\ Migrations[p] \in Nat
      BY <1>5, <2>2 DEF Own!Installed, Own!HistoryAccepted, Own!OwnershipAssumption
  <2> DEFINE d == [content[conn[p]] EXCEPT !.history = n]
  <2>4. d \in Own!Databases /\ d.id = proc[p].id /\ d.history = Migrations[p]
      BY <2>1, <2>3 DEF Own!Databases
  <2>5. content' = [content EXCEPT ![conn[p]] = d] BY <2>2
  <2>6. proc' = [proc EXCEPT ![p].pc = "ready"] /\ UNCHANGED <<holder, conn, tx, late>>
      BY <2>2, <2>3
  <2> HIDE DEF d
  <2>7. Own!OriginalNamed'
    <3>1. \A g \in Own!Generations : content'[g].id = content[g].id
      BY <1>1, <2>1, <2>4, <2>5 DEF Own!TypeOK
    <3>2. 1 \in Own!Generations BY <1>1, GenerationsAreNumbers
    <3> QED BY <1>1, <1>2, <3>1, <3>2 DEF Own!OriginalNamed
  <2> QED BY <1>2, <1>3, <2>1, <2>4, <2>5, <2>6, <2>7, OwnFileStep
<1> QED BY <1>4, <1>5 DEF Own!Install, Own!InstallFails

\* What serving, closing and reopening leave alone.
LEMMA ServingKeeps ==
  ASSUME Own!OwnershipAssumption, Own!OwnershipInv, NEW p \in Processes, Own!Alive(p), NEW c \in Own!Claims,
         proc' = [proc EXCEPT ![p] = c], c.held = proc[p].held, c.id = proc[p].id,
         c.pc = proc[p].pc \/ (c.pc = "closed" /\ proc[p].pc = "ready")
                           \/ (c.pc = "claimed" /\ proc[p].pc = "closed" /\ conn[p] = 0),
         UNCHANGED <<at, content, marker, holder, conn, fileIds>>,
         tx' \in [Tasks -> {"idle", "verified", "begun"}], late' \in [Processes -> Nat],
         Own!WritesFenced'
  PROVE  Own!OwnershipInv'
<1>1. /\ Own!TypeOK /\ Own!ClaimsHold /\ Own!MarkerNamesClaims /\ Own!ConnectionsFit /\ Own!OriginalNamed
      /\ Own!HistoryIsWhole /\ Own!WritesFenced
    BY DEF Own!OwnershipInv
<1>2. /\ proc' \in [Processes -> Own!Claims \cup {Own!NoClaim}] /\ proc'[p] = c
      /\ \A q \in Processes \ {p} : proc'[q] = proc[q]
    BY <1>1 DEF Own!TypeOK
<1>3. c.pc # "dead" /\ (c.pc = "creating" <=> proc[p].pc = "creating") BY DEF Own!Claims
<1>4. Own!TypeOK' BY <1>1, <1>2 DEF Own!TypeOK
<1>5. Own!ClaimsHold' BY <1>1, <1>2 DEF Own!ClaimsHold, Own!Alive
<1>6. Own!MarkerNamesClaims' BY <1>1, <1>2, <1>3 DEF Own!MarkerNamesClaims, Own!Alive
<1>7. Own!ConnectionsFit' BY <1>1, <1>2 DEF Own!ConnectionsFit
<1>8. Own!OriginalNamed' /\ Own!HistoryIsWhole' BY <1>1 DEF Own!OriginalNamed, Own!HistoryIsWhole
<1> QED BY <1>4, <1>5, <1>6, <1>7, <1>8 DEF Own!OwnershipInv

\* A claim that was fenced is of a process that runs.
LEMMA FencedClaim ==
  ASSUME Own!OwnershipAssumption, Own!TypeOK, NEW p \in Processes, Own!Alive(p), NEW b \in BOOLEAN
  PROVE  LET c == [proc[p] EXCEPT !.fenced = b] IN
           c \in Own!Claims /\ c.held = proc[p].held /\ c.id = proc[p].id /\ c.pc = proc[p].pc
BY ClaimTypes DEF Own!Alive, Own!Claims

\* A writer borrows a connection after the identity was verified.
LEMMA BorrowKeeps ==
  ASSUME Own!OwnershipAssumption, Own!OwnershipInv, NEW t \in Tasks, Own!Borrow(t) \/ Own!Begin(t)
  PROVE  Own!OwnershipInv'
<1> DEFINE p == ProcessOf[t]
<1>0. p \in Processes BY DEF Own!OwnershipAssumption
<1>1. /\ Own!TypeOK /\ Own!ClaimsHold /\ Own!MarkerNamesClaims /\ Own!ConnectionsFit /\ Own!OriginalNamed
      /\ Own!HistoryIsWhole /\ Own!WritesFenced
    BY DEF Own!OwnershipInv
<1>2. /\ Own!Fence(p) /\ UNCHANGED <<at, content, marker, holder, conn, late, fileIds>>
      /\ proc[p].pc = "ready"
    BY <1>1 DEF Own!Borrow, Own!Begin, Own!WritesFenced
<1>3. Own!Alive(p) BY <1>2 DEF Own!Alive
<1> HIDE DEF p
<1> DEFINE b == ~Own!Usable(p)
           c == [proc[p] EXCEPT !.fenced = b]
<1>4. b \in BOOLEAN OBVIOUS
<1>5. proc' = [proc EXCEPT ![p] = c] BY <1>2 DEF Own!Fence
<1> HIDE DEF b
<1>6. c \in Own!Claims /\ c.held = proc[p].held /\ c.id = proc[p].id /\ c.pc = proc[p].pc
    BY <1>0, <1>1, <1>3, <1>4, FencedClaim
<1> HIDE DEF c
<1>7. proc'[p] = c /\ \A q \in Processes \ {p} : proc'[q] = proc[q]
  BY <1>0, <1>1, <1>5 DEF Own!TypeOK
<1>8. \A q \in Processes : proc'[q].pc = proc[q].pc /\ proc'[q].held = proc[q].held BY <1>6, <1>7
<1>9. PICK y \in {"idle", "verified", "begun"} :
        /\ tx' = [tx EXCEPT ![t] = y]
        /\ y = "begun" => /\ at = proc[p].held
                          /\ \A u \in Tasks : ProcessOf[u] = p => tx[u] # "begun"
  <2>1. CASE Own!Borrow(t) BY <2>1 DEF Own!Borrow
  <2>2. CASE Own!Begin(t) BY <2>2 DEF Own!Begin, Own!BeginAccepted, Own!Usable, Own!PathsIntact, p
  <2> QED BY <2>1, <2>2
<1>10. /\ tx' \in [Tasks -> {"idle", "verified", "begun"}] /\ tx'[t] = y
       /\ \A u \in Tasks \ {t} : tx'[u] = tx[u]
    BY <1>1, <1>9 DEF Own!TypeOK
<1>11. Own!WritesFenced'
  <2>1. ASSUME NEW u \in Tasks, tx'[u] # "idle" PROVE proc'[ProcessOf[u]].pc = "ready"
    <3>1. ProcessOf[u] \in Processes BY DEF Own!OwnershipAssumption
    <3> QED BY <1>1, <1>2, <1>8, <1>10, <2>1, <3>1 DEF Own!WritesFenced, p
  <2>2. ASSUME NEW u \in Tasks, NEW v \in Tasks, tx'[u] = "begun", tx'[v] = "begun",
               ProcessOf[u] = ProcessOf[v]
        PROVE  u = v
    <3>1. CASE u # t /\ v # t BY <1>1, <1>10, <2>2, <3>1 DEF Own!WritesFenced
    <3>2. CASE u = t \/ v = t BY <1>9, <1>10, <2>2, <3>2 DEF p
    <3> QED BY <3>1, <3>2
  <2>3. ASSUME NEW q \in Processes
        PROVE  /\ late'[q] <= 1
               /\ late'[q] = 1 => /\ proc'[q].pc # "dead" /\ at' # proc'[q].held
                                  /\ \A u \in Tasks : ProcessOf[u] = q => tx'[u] # "begun"
    <3>1. late[q] <= 1 /\ (late[q] = 1 => /\ proc[q].pc # "dead" /\ at # proc[q].held
                                  /\ \A u \in Tasks : ProcessOf[u] = q => tx[u] # "begun")
        BY <1>1 DEF Own!WritesFenced, Own!Alive
    <3>2. late[q] = 1 /\ ProcessOf[t] = q => tx'[t] # "begun" BY <1>9, <1>10, <3>1 DEF p
    <3> QED BY <1>2, <1>8, <1>10, <3>1, <3>2
  <2> QED BY <2>1, <2>2, <2>3 DEF Own!WritesFenced, Own!Alive
<1> QED BY <1>0, <1>1, <1>2, <1>3, <1>5, <1>6, <1>10, <1>11, ServingKeeps DEF Own!TypeOK

\* A transaction commits, in the file its connection is open on.
LEMMA CommitKeeps ==
  ASSUME Own!OwnershipAssumption, Own!OwnershipInv, NEW t \in Tasks, Own!Commit(t) PROVE Own!OwnershipInv'
<1> DEFINE p == ProcessOf[t]
<1>0. p \in Processes BY DEF Own!OwnershipAssumption
<1>1. /\ Own!TypeOK /\ Own!ClaimsHold /\ Own!MarkerNamesClaims /\ Own!ConnectionsFit /\ Own!OriginalNamed
      /\ Own!HistoryIsWhole /\ Own!WritesFenced
    BY DEF Own!OwnershipInv
<1>2. /\ tx[t] = "begun" /\ UNCHANGED <<at, content, marker, holder, proc, conn, fileIds>>
      /\ tx' = [tx EXCEPT ![t] = "idle"]
      /\ late' = [late EXCEPT ![p] = IF at = proc[p].held THEN late[p] ELSE late[p] + 1]
    BY DEF Own!Commit
<1>3. proc[p].pc = "ready" BY <1>1, <1>2 DEF Own!WritesFenced
<1>4. late[p] = 0
  <2>1. late[p] \in Nat /\ late[p] <= 1 BY <1>0, <1>1 DEF Own!WritesFenced, Own!TypeOK
  <2>2. late[p] # 1 BY <1>0, <1>1, <1>2 DEF Own!WritesFenced
  <2> QED BY <2>1, <2>2
<1>5. \A u \in Tasks : u # t /\ ProcessOf[u] = p => tx[u] # "begun"
  BY <1>1, <1>2 DEF Own!WritesFenced
<1> HIDE DEF p
<1>6. /\ tx' \in [Tasks -> {"idle", "verified", "begun"}] /\ tx'[t] = "idle"
      /\ \A u \in Tasks \ {t} : tx'[u] = tx[u]
    BY <1>1, <1>2 DEF Own!TypeOK
<1>7. /\ late' \in [Processes -> Nat] /\ late'[p] = (IF at = proc[p].held THEN 0 ELSE 1)
      /\ \A q \in Processes \ {p} : late'[q] = late[q]
    BY <1>0, <1>1, <1>2, <1>4 DEF Own!TypeOK
<1>8. Own!WritesFenced'
  <2>1. ASSUME NEW u \in Tasks, tx'[u] # "idle" PROVE proc'[ProcessOf[u]].pc = "ready"
      BY <1>1, <1>2, <1>6, <2>1 DEF Own!WritesFenced
  <2>2. ASSUME NEW u \in Tasks, NEW v \in Tasks, tx'[u] = "begun", tx'[v] = "begun",
               ProcessOf[u] = ProcessOf[v]
        PROVE  u = v
      BY <1>1, <1>6, <2>2 DEF Own!WritesFenced
  <2>3. ASSUME NEW q \in Processes
        PROVE  /\ late'[q] <= 1
               /\ late'[q] = 1 => /\ proc'[q].pc # "dead" /\ at' # proc'[q].held
                                  /\ \A u \in Tasks : ProcessOf[u] = q => tx'[u] # "begun"
    <3>1. CASE q = p BY <1>2, <1>3, <1>5, <1>6, <1>7, <3>1
    <3>2. CASE q # p BY <1>1, <1>2, <1>6, <1>7, <3>2 DEF Own!WritesFenced, Own!Alive, p
    <3> QED BY <3>1, <3>2
  <2> QED BY <2>1, <2>2, <2>3 DEF Own!WritesFenced, Own!Alive
<1>9. Own!TypeOK' BY <1>1, <1>2, <1>6, <1>7 DEF Own!TypeOK
<1>10. Own!ClaimsHold' /\ Own!MarkerNamesClaims'
  BY <1>1, <1>2 DEF Own!ClaimsHold, Own!MarkerNamesClaims, Own!Alive
<1>11. Own!ConnectionsFit' /\ Own!OriginalNamed' /\ Own!HistoryIsWhole'
    BY <1>1, <1>2 DEF Own!ConnectionsFit, Own!OriginalNamed, Own!HistoryIsWhole
<1> QED BY <1>8, <1>9, <1>10, <1>11 DEF Own!OwnershipInv

\* The process closes its pool.
LEMMA CloseKeeps ==
  ASSUME Own!OwnershipAssumption, Own!OwnershipInv, NEW p \in Processes, Own!Close(p) PROVE Own!OwnershipInv'
<1>1. /\ Own!TypeOK /\ Own!ClaimsHold /\ Own!MarkerNamesClaims /\ Own!ConnectionsFit /\ Own!OriginalNamed
      /\ Own!HistoryIsWhole /\ Own!WritesFenced
    BY DEF Own!OwnershipInv
<1> DEFINE c == [proc[p] EXCEPT !.pc = "closed"]
<1>2. /\ proc[p].pc = "ready" /\ proc' = [proc EXCEPT ![p] = c]
      /\ UNCHANGED <<at, content, marker, conn, late, fileIds>>
      /\ tx' = [t \in Tasks |-> IF ProcessOf[t] = p THEN "idle" ELSE tx[t]]
    BY DEF Own!Close
<1>3. holder' = holder BY <1>1 DEF Own!Close, Own!CloseReleases, Own!TypeOK
<1>4. Own!Alive(p) BY <1>2 DEF Own!Alive
<1>5. c \in Own!Claims /\ c.held = proc[p].held /\ c.id = proc[p].id /\ c.pc = "closed"
    BY <1>1, <1>4, ClaimTypes DEF Own!Alive, Own!Claims
<1> HIDE DEF c
<1>6. proc'[p] = c /\ \A q \in Processes \ {p} : proc'[q] = proc[q] BY <1>1, <1>2 DEF Own!TypeOK
<1>7. /\ tx' \in [Tasks -> {"idle", "verified", "begun"}]
      /\ \A t \in Tasks : IF ProcessOf[t] = p THEN tx'[t] = "idle" ELSE tx'[t] = tx[t]
    BY <1>1, <1>2 DEF Own!TypeOK
<1>8. Own!WritesFenced'
    BY <1>1, <1>2, <1>5, <1>6, <1>7 DEF Own!WritesFenced, Own!Alive, Own!OwnershipAssumption
<1> QED BY <1>1, <1>2, <1>3, <1>4, <1>5, <1>7, <1>8, ServingKeeps DEF Own!TypeOK

\* The last handles go and the locks with them.
LEMMA HandlesGoneKeeps ==
  ASSUME Own!OwnershipAssumption, Own!OwnershipInv, NEW p \in Processes, Own!HandlesGone(p) PROVE Own!OwnershipInv'
<1>1. /\ Own!TypeOK /\ Own!ClaimsHold /\ Own!MarkerNamesClaims /\ Own!ConnectionsFit /\ Own!OriginalNamed
      /\ Own!HistoryIsWhole /\ Own!WritesFenced
    BY DEF Own!OwnershipInv
<1>2. /\ proc[p].pc = "closed" /\ conn' = [conn EXCEPT ![p] = 0]
      /\ UNCHANGED <<at, content, marker, holder, proc, tx, late, fileIds>>
    BY DEF Own!HandlesGone
<1>3. /\ conn' \in [Processes -> {0} \cup Own!Generations] /\ conn'[p] = 0
      /\ \A q \in Processes \ {p} : conn'[q] = conn[q]
    BY <1>1, <1>2 DEF Own!TypeOK
<1>4. Own!TypeOK' BY <1>1, <1>2, <1>3 DEF Own!TypeOK
<1>5. Own!ClaimsHold' /\ Own!MarkerNamesClaims'
  BY <1>1, <1>2 DEF Own!ClaimsHold, Own!MarkerNamesClaims, Own!Alive
<1>6. Own!ConnectionsFit' BY <1>1, <1>2, <1>3 DEF Own!ConnectionsFit
<1>7. Own!OriginalNamed' /\ Own!HistoryIsWhole'
  BY <1>1, <1>2 DEF Own!OriginalNamed, Own!HistoryIsWhole
<1>8. Own!WritesFenced' BY <1>1, <1>2 DEF Own!WritesFenced, Own!Alive
<1> QED BY <1>4, <1>5, <1>6, <1>7, <1>8 DEF Own!OwnershipInv

\* A closed process opens the path again.
LEMMA ReopenKeeps ==
  ASSUME Own!OwnershipAssumption, Own!OwnershipInv, NEW p \in Processes, Own!Reopen(p) PROVE Own!OwnershipInv'
<1>1. /\ Own!TypeOK /\ Own!ClaimsHold /\ Own!MarkerNamesClaims /\ Own!ConnectionsFit /\ Own!OriginalNamed
      /\ Own!HistoryIsWhole /\ Own!WritesFenced
    BY DEF Own!OwnershipInv
<1>2. /\ proc[p].pc = "closed" /\ conn[p] = 0
      /\ UNCHANGED <<at, content, marker, holder, conn, tx, late, fileIds>>
    BY DEF Own!Reopen
<1>3. Own!Alive(p) BY <1>2 DEF Own!Alive
<1>4. ASSUME NEW c \in Own!Claims, proc' = [proc EXCEPT ![p] = c], c.held = proc[p].held,
             c.id = proc[p].id, c.pc \in {"closed", "claimed"}
      PROVE  Own!OwnershipInv'
  <2>1. proc'[p] = c /\ \A q \in Processes \ {p} : proc'[q] = proc[q] BY <1>1, <1>4 DEF Own!TypeOK
  <2>2. \A t \in Tasks : tx[t] # "idle" => ProcessOf[t] # p BY <1>1, <1>2 DEF Own!WritesFenced
  <2>3. Own!WritesFenced'
      BY <1>1, <1>2, <1>3, <1>4, <2>1, <2>2 DEF Own!WritesFenced, Own!Alive,
        Own!OwnershipAssumption
  <2> QED BY <1>1, <1>2, <1>3, <1>4, <2>3, ServingKeeps DEF Own!TypeOK
<1>5. CASE Own!Usable(p)
  <2> DEFINE c == [proc[p] EXCEPT !.pc = "claimed"]
  <2>1. proc' = [proc EXCEPT ![p] = c] BY <1>5 DEF Own!Reopen
  <2>2. c \in Own!Claims /\ c.held = proc[p].held /\ c.id = proc[p].id /\ c.pc = "claimed"
      BY <1>1, <1>3, ClaimTypes DEF Own!Alive, Own!Claims
  <2> HIDE DEF c
  <2> QED BY <1>4, <2>1, <2>2
<1>6. CASE ~Own!Usable(p)
  <2> DEFINE c == [proc[p] EXCEPT !.fenced = TRUE]
  <2>1. proc' = [proc EXCEPT ![p] = c] BY <1>6 DEF Own!Reopen
  <2>2. c \in Own!Claims /\ c.held = proc[p].held /\ c.id = proc[p].id /\ c.pc = proc[p].pc
      BY <1>1, <1>3, FencedClaim
  <2> HIDE DEF c
  <2> QED BY <1>2, <1>4, <2>1, <2>2
<1> QED BY <1>5, <1>6

\* A process dies and its locks go.
LEMMA CrashKeeps ==
  ASSUME Own!OwnershipAssumption, Own!OwnershipInv, NEW p \in Processes, Own!Crash(p) PROVE Own!OwnershipInv'
BY ExitKeeps DEF Own!Crash, Own!OwnershipInv, Own!TypeOK

\* All processes die and an unsynced marker is lost.
LEMMA PowerCutKeeps == ASSUME Own!OwnershipAssumption, Own!OwnershipInv, Own!PowerCut PROVE Own!OwnershipInv'
<1>1. /\ Own!TypeOK /\ Own!ClaimsHold /\ Own!MarkerNamesClaims /\ Own!ConnectionsFit /\ Own!OriginalNamed
      /\ Own!HistoryIsWhole /\ Own!WritesFenced
    BY DEF Own!OwnershipInv
<1>2. PICK text \in Own!Survivors : marker' = [text |-> text, disk |-> text] BY DEF Own!PowerCut
<1>3. /\ text \in {Own!Absent, Own!Partial} \cup 1..MaxIds
      /\ marker.disk = marker.text => text = marker.text
    BY <1>1, <1>2 DEF Own!Survivors, Own!TypeOK
<1>4. /\ marker' \in [text: {Own!Absent, Own!Partial} \cup 1..MaxIds, disk: {Own!Absent, Own!Partial} \cup 1..MaxIds]
      /\ marker'.text = text /\ marker'.disk = text
    BY <1>2, <1>3
<1>5. \A p \in Processes : proc'[p].pc = "dead" /\ conn'[p] = 0 /\ late'[p] = 0
    BY DEF Own!PowerCut, Own!NoClaim
<1>6. UNCHANGED <<at, content, fileIds>> BY DEF Own!PowerCut
<1>7. Own!TypeOK'
  <2>1. proc' \in [Processes -> {Own!NoClaim}] BY DEF Own!PowerCut
  <2>2. conn' \in [Processes -> {0}] /\ late' \in [Processes -> Nat] BY DEF Own!PowerCut
  <2>3. holder' \in [{"dir", "db"} \X Own!Generations -> {Own!Nothing}]
    BY <1>1 DEF Own!PowerCut, Own!TypeOK
  <2>4. tx' \in [Tasks -> {"idle"}] BY DEF Own!PowerCut
  <2> QED BY <1>1, <1>4, <1>6, <2>1, <2>2, <2>3, <2>4 DEF Own!TypeOK
<1>8. Own!ClaimsHold' /\ Own!MarkerNamesClaims'
  BY <1>5 DEF Own!ClaimsHold, Own!MarkerNamesClaims, Own!Alive
<1>9. Own!ConnectionsFit' BY <1>5 DEF Own!ConnectionsFit
<1>10. Own!OriginalNamed' BY <1>1, <1>3, <1>4, <1>6 DEF Own!OriginalNamed
<1>11. Own!HistoryIsWhole' BY <1>1, <1>6 DEF Own!HistoryIsWhole
<1>12. Own!WritesFenced' BY <1>5 DEF Own!WritesFenced, Own!PowerCut
<1> QED BY <1>7, <1>8, <1>9, <1>10, <1>11, <1>12 DEF Own!OwnershipInv

\* An operator puts another file or directory at the path.
LEMMA ReplaceKeeps ==
  ASSUME Own!OwnershipAssumption, Own!OwnershipInv, NEW part \in Own!Parts, Own!Replace(part) PROVE Own!OwnershipInv'
<1>1. /\ Own!TypeOK /\ Own!ClaimsHold /\ Own!MarkerNamesClaims /\ Own!ConnectionsFit /\ Own!OriginalNamed
      /\ Own!HistoryIsWhole /\ Own!WritesFenced
    BY DEF Own!OwnershipInv
<1>2. UNCHANGED <<marker, holder, proc, conn, tx, late, fileIds>> BY DEF Own!Replace
<1>3. /\ at' \in [Own!Parts -> Own!Generations]
      /\ \A q \in Own!Parts : at'[q] = (IF part \in {q, "dir"} THEN at[q] + 1 ELSE at[q])
    BY DEF Own!Replace
<1>4. \A q \in Own!Parts : at[q] \in Nat /\ at[q] >= 1
  BY <1>1 DEF Own!TypeOK, Own!Generations, Own!OwnershipAssumption
<1>5. \A q \in Own!Parts : at[q] <= at'[q] BY <1>3, <1>4
<1>6. at[part] < at'[part] BY <1>3, <1>4
<1>7. /\ content' \in [Own!Generations -> Own!Databases]
      /\ \A g \in Own!Generations : g <= at["db"] => content'[g] = content[g]
      /\ \A g \in Own!Generations : \/ content'[g].history = 0
                                 \/ \E h \in Own!Generations : content'[g].history = content[h].history
  <2>1. CASE part = "marker" BY <1>1, <2>1 DEF Own!Replace, Own!TypeOK
  <2>2. CASE part # "marker"
    <3>1. PICK c \in {content[at["db"]], [id |-> Own!Foreign, history |-> 0]} :
            content' = [content EXCEPT ![at["db"] + 1] = c]
        BY <2>2 DEF Own!Replace
    <3>2. at["db"] \in Own!Generations BY <1>1 DEF Own!TypeOK
    <3>3. c \in Own!Databases /\ (c.history = 0 \/ c.history = content[at["db"]].history)
        BY <1>1, <3>1, <3>2 DEF Own!TypeOK, Own!Databases
    <3>4. at'["db"] = at["db"] + 1 BY <1>3, <2>2
    <3>5. at["db"] + 1 \in Own!Generations BY <1>3, <3>4
    <3>6. /\ content' \in [Own!Generations -> Own!Databases] /\ content'[at["db"] + 1] = c
          /\ \A g \in Own!Generations \ {at["db"] + 1} : content'[g] = content[g]
        BY <1>1, <3>1, <3>3, <3>5 DEF Own!TypeOK
    <3>7. \A g \in Own!Generations : g <= at["db"] => g # at["db"] + 1
        BY <1>4 DEF Own!Generations, Own!OwnershipAssumption
    <3> QED BY <3>2, <3>3, <3>6, <3>7
  <2> QED BY <2>1, <2>2
<1>8. Own!TypeOK' BY <1>1, <1>2, <1>3, <1>7 DEF Own!TypeOK
<1>9. ASSUME NEW p \in Processes, Own!Alive(p)
      PROVE  /\ \A q \in Own!Parts : proc[p].held[q] <= at'[q]
             /\ at' # proc[p].held
  <2>1. proc[p].held \in [Own!Parts -> Own!Generations] /\ Own!Generations \subseteq Nat
      BY <1>1, <1>9, GenerationsAreNumbers
  <2>2. \A q \in Own!Parts : proc[p].held[q] <= at[q] BY <1>1, <1>9 DEF Own!ClaimsHold
  <2>3. \A q \in Own!Parts : at'[q] \in Nat /\ proc[p].held[q] \in Nat BY <1>3, <2>1
  <2>4. \A q \in Own!Parts : proc[p].held[q] <= at'[q] BY <1>4, <1>5, <2>2, <2>3
  <2>5. proc[p].held[part] < at'[part] BY <1>4, <1>6, <2>2, <2>3
  <2> QED BY <2>3, <2>4, <2>5
<1>10. Own!ClaimsHold' BY <1>1, <1>2, <1>9 DEF Own!ClaimsHold, Own!Alive
<1>11. Own!MarkerNamesClaims' BY <1>1, <1>2 DEF Own!MarkerNamesClaims, Own!Alive
<1>12. Own!ConnectionsFit'
  <2>1. ASSUME NEW p \in Processes, conn[p] # 0
        PROVE  conn[p] <= at'["db"] /\ content'[conn[p]] = content[conn[p]]
    <3>1. conn[p] \in Own!Generations /\ conn[p] <= at["db"]
      BY <1>1, <2>1 DEF Own!ConnectionsFit, Own!TypeOK
    <3>2. at["db"] <= at'["db"] /\ conn[p] \in Nat /\ at["db"] \in Nat /\ at'["db"] \in Nat
        BY <1>1, <1>3, <1>4, <1>5, GenerationsAreNumbers
    <3> QED BY <1>7, <3>1, <3>2
  <2> QED BY <1>1, <1>2, <2>1 DEF Own!ConnectionsFit
<1>13. Own!OriginalNamed'
  <2>1. at'[part] # 1 BY <1>3, <1>4
  <2>2. at' # [q \in Own!Parts |-> 1] BY <2>1
  <2> QED BY <2>2 DEF Own!OriginalNamed
<1>14. Own!HistoryIsWhole' BY <1>1, <1>7 DEF Own!HistoryIsWhole
<1>15. Own!WritesFenced' BY <1>1, <1>2, <1>9 DEF Own!WritesFenced, Own!Alive
<1> QED BY <1>8, <1>10, <1>11, <1>12, <1>13, <1>14, <1>15 DEF Own!OwnershipInv

\* Every step of the processes, the operator and the machine keeps the invariant.
LEMMA OwnerStep == ASSUME Own!OwnershipAssumption, Own!OwnershipInv, [Own!Next]_(Own!vars) PROVE Own!OwnershipInv'
<1>1. CASE Own!PowerCut BY <1>1, PowerCutKeeps
<1>2. ASSUME NEW part \in Own!Parts, Own!Replace(part) PROVE Own!OwnershipInv'
  BY <1>2, ReplaceKeeps
<1>3. ASSUME NEW p \in Processes, Own!Acquire(p) \/ Own!WriteMarker(p) \/ Own!SyncMarker(p) PROVE Own!OwnershipInv'
    BY <1>3, AcquireKeeps, WriteMarkerKeeps, SyncMarkerKeeps
<1>4. ASSUME NEW p \in Processes, Own!Connect(p) \/ Own!Initialize(p) \/ Own!Install(p) \/ Own!InstallFails(p)
      PROVE  Own!OwnershipInv'
    BY <1>4, ConnectKeeps, InitializeKeeps, InstallKeeps
<1>5. ASSUME NEW p \in Processes, Own!Close(p) \/ Own!HandlesGone(p) \/ Own!Reopen(p) \/ Own!Crash(p)
      PROVE  Own!OwnershipInv'
    BY <1>5, CloseKeeps, HandlesGoneKeeps, ReopenKeeps, CrashKeeps
<1>6. ASSUME NEW t \in Tasks, Own!Borrow(t) \/ Own!Begin(t) \/ Own!Commit(t) PROVE Own!OwnershipInv'
    BY <1>6, BorrowKeeps, CommitKeeps
<1>7. CASE UNCHANGED Own!vars
  <2>1. Own!TypeOK' BY <1>7 DEF Own!OwnershipInv, Own!TypeOK, Own!vars
  <2>2. Own!ClaimsHold' /\ Own!MarkerNamesClaims' /\ Own!WritesFenced'
      BY <1>7 DEF Own!OwnershipInv, Own!ClaimsHold, Own!MarkerNamesClaims, Own!WritesFenced,
        Own!Alive, Own!vars
  <2>3. Own!ConnectionsFit' /\ Own!OriginalNamed' /\ Own!HistoryIsWhole'
      BY <1>7 DEF Own!OwnershipInv, Own!ConnectionsFit, Own!OriginalNamed, Own!HistoryIsWhole,
        Own!vars
  <2> QED BY <2>1, <2>2, <2>3 DEF Own!OwnershipInv
<1> QED BY <1>1, <1>2, <1>3, <1>4, <1>5, <1>6, <1>7 DEF Own!Next

\* The locks, the marker and the identity in the database name one owner, whatever
\* the operator puts at the path and whenever processes die.
THEOREM OwnershipInvariant == Own!OwnershipAssumption /\ Own!Spec => []Own!OwnershipInv
<1> SUFFICES ASSUME Own!OwnershipAssumption PROVE Own!Spec => []Own!OwnershipInv OBVIOUS
<1>1. Own!Init => Own!OwnershipInv BY OwnerInitial
<1>2. Own!OwnershipInv /\ [Own!Next]_(Own!vars) => Own!OwnershipInv' BY OwnerStep
<1> QED BY <1>1, <1>2, PTL DEF Own!Spec

\* For any number of processes, writers and replacements: whoever writes a SQLite
\* file owns it, the identity a process serves under is on stable storage and in
\* the database it opened, migrations are never half applied, and each process
\* commits at most one transaction per writer to a file that was moved away
\* (DatabaseLifetime::acquire, verify_identity).
THEOREM OwnershipAlwaysSound == Own!OwnershipAssumption /\ Own!Spec => []Own!OwnershipSound
<1> SUFFICES ASSUME Own!OwnershipAssumption PROVE Own!Spec => []Own!OwnershipSound OBVIOUS
<1>1. Own!OwnershipInv => Own!OwnershipSound
  <2> SUFFICES ASSUME Own!OwnershipInv PROVE Own!OwnershipSound OBVIOUS
  <2>1. /\ Own!TypeOK /\ Own!ClaimsHold /\ Own!MarkerNamesClaims /\ Own!ConnectionsFit /\ Own!OriginalNamed
        /\ Own!HistoryIsWhole /\ Own!WritesFenced
      BY DEF Own!OwnershipInv
  <2>2. Own!WritersOwnTheirFile
      BY <2>1 DEF Own!WritersOwnTheirFile, Own!ConnectionsFit, Own!ClaimsHold, Own!Alive
  <2>3. Own!IdentityIsDurable BY <2>1 DEF Own!IdentityIsDurable, Own!OriginalNamed
  <2>4. Own!ServesItsOwn
    <3> SUFFICES ASSUME NEW p \in Processes, proc[p].pc = "ready"
                 PROVE  content[conn[p]] = [id |-> proc[p].id, history |-> Migrations[p]]
        BY DEF Own!ServesItsOwn
    <3>1. /\ conn[p] \in Own!Generations /\ content[conn[p]].id = proc[p].id
          /\ content[conn[p]].history = Migrations[p]
        BY <2>1 DEF Own!ConnectionsFit, Own!TypeOK
    <3>2. content[conn[p]] \in Own!Databases BY <2>1, <3>1 DEF Own!TypeOK
    <3> QED BY <3>1, <3>2 DEF Own!Databases
  <2>5. Own!OneLateCommit BY <2>1 DEF Own!OneLateCommit, Own!WritesFenced
  <2> QED BY <2>1, <2>2, <2>3, <2>4, <2>5 DEF Own!OwnershipSound
<1>2. Own!Spec => []Own!OwnershipInv BY OwnershipInvariant
<1> QED BY <1>1, <1>2, PTL

HIDE DEF Own!Parts, Own!Absent, Own!Partial

--------------------
\* What the death of a process may not break: the spool of a request log and
\* the ownership of the database it is ingested into.
CrashSound == SpoolSound /\ Own!OwnershipSound

\* A gateway with a spool and a SQLite database, either of whose processes may
\* die at any step: no saved event is lost, recovery opens the directory again,
\* and the file is written by its owner only (open_with_limits,
\* DatabaseLifetime::acquire).
THEOREM CrashAlwaysSound ==
  Own!OwnershipAssumption /\ Spec /\ Own!Spec => []CrashSound
<1> SUFFICES ASSUME Own!OwnershipAssumption PROVE Spec /\ Own!Spec => []CrashSound OBVIOUS
<1>1. Own!Spec => []Own!OwnershipSound BY OwnershipAlwaysSound
<1>2. SpoolSound /\ Own!OwnershipSound => CrashSound BY DEF CrashSound
<1> QED BY <1>1, <1>2, SpoolAlwaysSound, PTL

--------------------
\* Hosted: UpstreamTopology, the upstream half of the control-plane store.
\* The theorems are about the specification of UpstreamTopology with its own
\* constants; it shares no state with the components above.

CONSTANTS
  Groups, Accesses, Credentials, Channels, Capabilities, Models, Rules, Proxies,
  Templates, Operations, Connectors, Urls, UpstreamModels, Priorities, Names,
  None, Managed, Probed, StartStore, MaxWrites

VARIABLES store, opened

Up == INSTANCE UpstreamTopology WITH db <- store, view <- opened

\* The columns of a store.
Fields == {"clock", "settings", "held", "group", "access", "cred", "chan", "cap",
           "model", "rule", "proxy", "template"}

\* A store that differs from d in the tables T only.
Elsewhere(d, e, T) == e \in Up!Stores /\ \A u \in Fields \ T : e[u] = d[u]

\* What a write does to the stamps: a row stays, is stamped, or is one of
\* the two exceptions.
Moves(d, e) ==
  /\ \A t \in DOMAIN Up!Tables \ {"model", "rule"} : \A x \in Up!Tables[t] :
       e[t][x] = d[t][x] \/ e[t][x].ver = d.clock + 1
  /\ \A m \in Models :
       /\ \/ e.model[m] = d.model[m] \/ e.model[m].ver = d.clock + 1
          \/ e.model[m] = [d.model[m] EXCEPT !.profile = TRUE]
       /\ d.model[m].st = "dead" => e.model[m].st = "dead"
  /\ \A r \in Rules :
       \/ e.rule[r] = d.rule[r] \/ e.rule[r].ver = d.clock + 1
       \/ e.rule[r].ver = d.rule[r].ver /\ e.model[d.rule[r].model].st = "dead"

\* A written routing group is stamped, and no other table changes.
LEMMA Put_group ==
  ASSUME NEW d \in Up!Stores, NEW x \in Groups, NEW row \in Up!GroupRow,
         NEW e, e = Up!Put(d, "group", x, row)
  PROVE  /\ Elsewhere(d, e, {"group"})
         /\ e.group = [d.group EXCEPT ![x] = [row EXCEPT !.ver = d.clock + 1]]
<1> DEFINE n == [row EXCEPT !.ver = d.clock + 1]
<1>0. n \in Up!GroupRow BY DEF Up!Stores, Up!GroupRow
<1> DEFINE f == [d.group EXCEPT ![x] = n]
<1>1. f \in [Groups -> Up!GroupRow] BY <1>0 DEF Up!Stores
<1>2. e = [d EXCEPT !["group"] = f] BY DEF Up!Put, Up!Stores
<1> HIDE DEF f
<1>3. e \in Up!Stores BY <1>1, <1>2 DEF Up!Stores
<1>4. e.group = f BY <1>2 DEF Up!Stores
<1>5. \A u \in Fields \ {"group"} : e[u] = d[u] BY <1>2 DEF Up!Stores, Fields
<1> QED BY <1>3, <1>4, <1>5 DEF f, Elsewhere

\* A written upstream access is stamped, and no other table changes.
LEMMA Put_access ==
  ASSUME NEW d \in Up!Stores, NEW x \in Accesses, NEW row \in Up!AccessRow,
         NEW e, e = Up!Put(d, "access", x, row)
  PROVE  /\ Elsewhere(d, e, {"access"})
         /\ e.access = [d.access EXCEPT ![x] = [row EXCEPT !.ver = d.clock + 1]]
<1> DEFINE n == [row EXCEPT !.ver = d.clock + 1]
<1>0. n \in Up!AccessRow BY DEF Up!Stores, Up!AccessRow
<1> DEFINE f == [d.access EXCEPT ![x] = n]
<1>1. f \in [Accesses -> Up!AccessRow] BY <1>0 DEF Up!Stores
<1>2. e = [d EXCEPT !["access"] = f] BY DEF Up!Put, Up!Stores
<1> HIDE DEF f
<1>3. e \in Up!Stores BY <1>1, <1>2 DEF Up!Stores
<1>4. e.access = f BY <1>2 DEF Up!Stores
<1>5. \A u \in Fields \ {"access"} : e[u] = d[u] BY <1>2 DEF Up!Stores, Fields
<1> QED BY <1>3, <1>4, <1>5 DEF f, Elsewhere

\* A written credential is stamped, and no other table changes.
LEMMA Put_cred ==
  ASSUME NEW d \in Up!Stores, NEW x \in Credentials, NEW row \in Up!CredentialRow,
         NEW e, e = Up!Put(d, "cred", x, row)
  PROVE  /\ Elsewhere(d, e, {"cred"})
         /\ e.cred = [d.cred EXCEPT ![x] = [row EXCEPT !.ver = d.clock + 1]]
<1> DEFINE n == [row EXCEPT !.ver = d.clock + 1]
<1>0. n \in Up!CredentialRow BY DEF Up!Stores, Up!CredentialRow
<1> DEFINE f == [d.cred EXCEPT ![x] = n]
<1>1. f \in [Credentials -> Up!CredentialRow] BY <1>0 DEF Up!Stores
<1>2. e = [d EXCEPT !["cred"] = f] BY DEF Up!Put, Up!Stores
<1> HIDE DEF f
<1>3. e \in Up!Stores BY <1>1, <1>2 DEF Up!Stores
<1>4. e.cred = f BY <1>2 DEF Up!Stores
<1>5. \A u \in Fields \ {"cred"} : e[u] = d[u] BY <1>2 DEF Up!Stores, Fields
<1> QED BY <1>3, <1>4, <1>5 DEF f, Elsewhere

\* A written logical channel is stamped, and no other table changes.
LEMMA Put_chan ==
  ASSUME NEW d \in Up!Stores, NEW x \in Channels, NEW row \in Up!ChannelRow,
         NEW e, e = Up!Put(d, "chan", x, row)
  PROVE  /\ Elsewhere(d, e, {"chan"})
         /\ e.chan = [d.chan EXCEPT ![x] = [row EXCEPT !.ver = d.clock + 1]]
<1> DEFINE n == [row EXCEPT !.ver = d.clock + 1]
<1>0. n \in Up!ChannelRow BY DEF Up!Stores, Up!ChannelRow
<1> DEFINE f == [d.chan EXCEPT ![x] = n]
<1>1. f \in [Channels -> Up!ChannelRow] BY <1>0 DEF Up!Stores
<1>2. e = [d EXCEPT !["chan"] = f] BY DEF Up!Put, Up!Stores
<1> HIDE DEF f
<1>3. e \in Up!Stores BY <1>1, <1>2 DEF Up!Stores
<1>4. e.chan = f BY <1>2 DEF Up!Stores
<1>5. \A u \in Fields \ {"chan"} : e[u] = d[u] BY <1>2 DEF Up!Stores, Fields
<1> QED BY <1>3, <1>4, <1>5 DEF f, Elsewhere

\* A written channel capability is stamped, and no other table changes.
LEMMA Put_cap ==
  ASSUME NEW d \in Up!Stores, NEW x \in Capabilities, NEW row \in Up!CapabilityRow,
         NEW e, e = Up!Put(d, "cap", x, row)
  PROVE  /\ Elsewhere(d, e, {"cap"})
         /\ e.cap = [d.cap EXCEPT ![x] = [row EXCEPT !.ver = d.clock + 1]]
<1> DEFINE n == [row EXCEPT !.ver = d.clock + 1]
<1>0. n \in Up!CapabilityRow BY DEF Up!Stores, Up!CapabilityRow
<1> DEFINE f == [d.cap EXCEPT ![x] = n]
<1>1. f \in [Capabilities -> Up!CapabilityRow] BY <1>0 DEF Up!Stores
<1>2. e = [d EXCEPT !["cap"] = f] BY DEF Up!Put, Up!Stores
<1> HIDE DEF f
<1>3. e \in Up!Stores BY <1>1, <1>2 DEF Up!Stores
<1>4. e.cap = f BY <1>2 DEF Up!Stores
<1>5. \A u \in Fields \ {"cap"} : e[u] = d[u] BY <1>2 DEF Up!Stores, Fields
<1> QED BY <1>3, <1>4, <1>5 DEF f, Elsewhere

\* A written model is stamped, and no other table changes.
LEMMA Put_model ==
  ASSUME NEW d \in Up!Stores, NEW x \in Models, NEW row \in Up!ModelRow,
         NEW e, e = Up!Put(d, "model", x, row)
  PROVE  /\ Elsewhere(d, e, {"model"})
         /\ e.model = [d.model EXCEPT ![x] = [row EXCEPT !.ver = d.clock + 1]]
<1> DEFINE n == [row EXCEPT !.ver = d.clock + 1]
<1>0. n \in Up!ModelRow BY DEF Up!Stores, Up!ModelRow
<1> DEFINE f == [d.model EXCEPT ![x] = n]
<1>1. f \in [Models -> Up!ModelRow] BY <1>0 DEF Up!Stores
<1>2. e = [d EXCEPT !["model"] = f] BY DEF Up!Put, Up!Stores
<1> HIDE DEF f
<1>3. e \in Up!Stores BY <1>1, <1>2 DEF Up!Stores
<1>4. e.model = f BY <1>2 DEF Up!Stores
<1>5. \A u \in Fields \ {"model"} : e[u] = d[u] BY <1>2 DEF Up!Stores, Fields
<1> QED BY <1>3, <1>4, <1>5 DEF f, Elsewhere

\* A written operation rule is stamped, and no other table changes.
LEMMA Put_rule ==
  ASSUME NEW d \in Up!Stores, NEW x \in Rules, NEW row \in Up!RuleRow,
         NEW e, e = Up!Put(d, "rule", x, row)
  PROVE  /\ Elsewhere(d, e, {"rule"})
         /\ e.rule = [d.rule EXCEPT ![x] = [row EXCEPT !.ver = d.clock + 1]]
<1> DEFINE n == [row EXCEPT !.ver = d.clock + 1]
<1>0. n \in Up!RuleRow BY DEF Up!Stores, Up!RuleRow
<1> DEFINE f == [d.rule EXCEPT ![x] = n]
<1>1. f \in [Rules -> Up!RuleRow] BY <1>0 DEF Up!Stores
<1>2. e = [d EXCEPT !["rule"] = f] BY DEF Up!Put, Up!Stores
<1> HIDE DEF f
<1>3. e \in Up!Stores BY <1>1, <1>2 DEF Up!Stores
<1>4. e.rule = f BY <1>2 DEF Up!Stores
<1>5. \A u \in Fields \ {"rule"} : e[u] = d[u] BY <1>2 DEF Up!Stores, Fields
<1> QED BY <1>3, <1>4, <1>5 DEF f, Elsewhere

\* A written proxy is stamped, and no other table changes.
LEMMA Put_proxy ==
  ASSUME NEW d \in Up!Stores, NEW x \in Proxies, NEW row \in Up!SwitchRow,
         NEW e, e = Up!Put(d, "proxy", x, row)
  PROVE  /\ Elsewhere(d, e, {"proxy"})
         /\ e.proxy = [d.proxy EXCEPT ![x] = [row EXCEPT !.ver = d.clock + 1]]
<1> DEFINE n == [row EXCEPT !.ver = d.clock + 1]
<1>0. n \in Up!SwitchRow BY DEF Up!Stores, Up!SwitchRow
<1> DEFINE f == [d.proxy EXCEPT ![x] = n]
<1>1. f \in [Proxies -> Up!SwitchRow] BY <1>0 DEF Up!Stores
<1>2. e = [d EXCEPT !["proxy"] = f] BY DEF Up!Put, Up!Stores
<1> HIDE DEF f
<1>3. e \in Up!Stores BY <1>1, <1>2 DEF Up!Stores
<1>4. e.proxy = f BY <1>2 DEF Up!Stores
<1>5. \A u \in Fields \ {"proxy"} : e[u] = d[u] BY <1>2 DEF Up!Stores, Fields
<1> QED BY <1>3, <1>4, <1>5 DEF f, Elsewhere

\* A written template is stamped, and no other table changes.
LEMMA Put_template ==
  ASSUME NEW d \in Up!Stores, NEW x \in Templates, NEW row \in Up!SwitchRow,
         NEW e, e = Up!Put(d, "template", x, row)
  PROVE  /\ Elsewhere(d, e, {"template"})
         /\ e.template = [d.template EXCEPT ![x] = [row EXCEPT !.ver = d.clock + 1]]
<1> DEFINE n == [row EXCEPT !.ver = d.clock + 1]
<1>0. n \in Up!SwitchRow BY DEF Up!Stores, Up!SwitchRow
<1> DEFINE f == [d.template EXCEPT ![x] = n]
<1>1. f \in [Templates -> Up!SwitchRow] BY <1>0 DEF Up!Stores
<1>2. e = [d EXCEPT !["template"] = f] BY DEF Up!Put, Up!Stores
<1> HIDE DEF f
<1>3. e \in Up!Stores BY <1>1, <1>2 DEF Up!Stores
<1>4. e.template = f BY <1>2 DEF Up!Stores
<1>5. \A u \in Fields \ {"template"} : e[u] = d[u] BY <1>2 DEF Up!Stores, Fields
<1> QED BY <1>3, <1>4, <1>5 DEF f, Elsewhere

\* The tables by name.
LEMMA TableNames ==
  /\ DOMAIN Up!Tables = {"group", "access", "cred", "chan", "cap", "model", "rule", "proxy",
                      "template"}
  /\ Up!Tables["group"] = Groups /\ Up!Tables["access"] = Accesses
  /\ Up!Tables["cred"] = Credentials /\ Up!Tables["chan"] = Channels
  /\ Up!Tables["cap"] = Capabilities /\ Up!Tables["model"] = Models /\ Up!Tables["rule"] = Rules
  /\ Up!Tables["proxy"] = Proxies /\ Up!Tables["template"] = Templates
BY DEF Up!Tables

\* The tables of a store are functions from ids to rows.
LEMMA StoreType ==
  ASSUME NEW d \in Up!Stores
  PROVE  /\ d.clock \in 0..MaxWrites /\ d.settings \in Up!SettingsRow /\ d.held \subseteq Proxies
         /\ d.group \in [Groups -> Up!GroupRow] /\ d.access \in [Accesses -> Up!AccessRow]
         /\ d.cred \in [Credentials -> Up!CredentialRow] /\ d.chan \in [Channels -> Up!ChannelRow]
         /\ d.cap \in [Capabilities -> Up!CapabilityRow] /\ d.model \in [Models -> Up!ModelRow]
         /\ d.rule \in [Rules -> Up!RuleRow] /\ d.proxy \in [Proxies -> Up!SwitchRow]
         /\ d.template \in [Templates -> Up!SwitchRow]
BY DEF Up!Stores

\* Writing one routing group moves no other stamp.
LEMMA Moves_group ==
  ASSUME NEW d \in Up!Stores, NEW x \in Groups, NEW row \in Up!GroupRow,
         NEW e, e = Up!Put(d, "group", x, row)
  PROVE  Moves(d, e)
<1>1. /\ Elsewhere(d, e, {"group"})
      /\ e.group = [d.group EXCEPT ![x] = [row EXCEPT !.ver = d.clock + 1]]
  BY Put_group
<1>2. \A y \in Groups : e.group[y] = d.group[y] \/ e.group[y].ver = d.clock + 1
  BY <1>1, StoreType DEF Up!GroupRow
<1> QED BY <1>1, <1>2, TableNames DEF Moves, Elsewhere, Fields

\* Writing one upstream access moves no other stamp.
LEMMA Moves_access ==
  ASSUME NEW d \in Up!Stores, NEW x \in Accesses, NEW row \in Up!AccessRow,
         NEW e, e = Up!Put(d, "access", x, row)
  PROVE  Moves(d, e)
<1>1. /\ Elsewhere(d, e, {"access"})
      /\ e.access = [d.access EXCEPT ![x] = [row EXCEPT !.ver = d.clock + 1]]
  BY Put_access
<1>2. \A y \in Accesses : e.access[y] = d.access[y] \/ e.access[y].ver = d.clock + 1
  BY <1>1, StoreType DEF Up!AccessRow
<1> QED BY <1>1, <1>2, TableNames DEF Moves, Elsewhere, Fields

\* Writing one credential moves no other stamp.
LEMMA Moves_cred ==
  ASSUME NEW d \in Up!Stores, NEW x \in Credentials, NEW row \in Up!CredentialRow,
         NEW e, e = Up!Put(d, "cred", x, row)
  PROVE  Moves(d, e)
<1>1. /\ Elsewhere(d, e, {"cred"})
      /\ e.cred = [d.cred EXCEPT ![x] = [row EXCEPT !.ver = d.clock + 1]]
  BY Put_cred
<1>2. \A y \in Credentials : e.cred[y] = d.cred[y] \/ e.cred[y].ver = d.clock + 1
  BY <1>1, StoreType DEF Up!CredentialRow
<1> QED BY <1>1, <1>2, TableNames DEF Moves, Elsewhere, Fields

\* Writing one logical channel moves no other stamp.
LEMMA Moves_chan ==
  ASSUME NEW d \in Up!Stores, NEW x \in Channels, NEW row \in Up!ChannelRow,
         NEW e, e = Up!Put(d, "chan", x, row)
  PROVE  Moves(d, e)
<1>1. /\ Elsewhere(d, e, {"chan"})
      /\ e.chan = [d.chan EXCEPT ![x] = [row EXCEPT !.ver = d.clock + 1]]
  BY Put_chan
<1>2. \A y \in Channels : e.chan[y] = d.chan[y] \/ e.chan[y].ver = d.clock + 1
  BY <1>1, StoreType DEF Up!ChannelRow
<1> QED BY <1>1, <1>2, TableNames DEF Moves, Elsewhere, Fields

\* Writing one channel capability moves no other stamp.
LEMMA Moves_cap ==
  ASSUME NEW d \in Up!Stores, NEW x \in Capabilities, NEW row \in Up!CapabilityRow,
         NEW e, e = Up!Put(d, "cap", x, row)
  PROVE  Moves(d, e)
<1>1. /\ Elsewhere(d, e, {"cap"})
      /\ e.cap = [d.cap EXCEPT ![x] = [row EXCEPT !.ver = d.clock + 1]]
  BY Put_cap
<1>2. \A y \in Capabilities : e.cap[y] = d.cap[y] \/ e.cap[y].ver = d.clock + 1
  BY <1>1, StoreType DEF Up!CapabilityRow
<1> QED BY <1>1, <1>2, TableNames DEF Moves, Elsewhere, Fields

\* Writing one model moves no other stamp.
LEMMA Moves_model ==
  ASSUME NEW d \in Up!Stores, NEW x \in Models, NEW row \in Up!ModelRow,
         row.st = "dead" \/ d.model[x].st # "dead",
         NEW e, e = Up!Put(d, "model", x, row)
  PROVE  Moves(d, e)
<1>1. /\ Elsewhere(d, e, {"model"})
      /\ e.model = [d.model EXCEPT ![x] = [row EXCEPT !.ver = d.clock + 1]]
  BY Put_model
<1>2. \A y \in Models : e.model[y] = d.model[y] \/ e.model[y].ver = d.clock + 1
  BY <1>1, StoreType DEF Up!ModelRow
<1>3. \A y \in Models : d.model[y].st = "dead" => e.model[y].st = "dead"
  BY <1>1, StoreType DEF Up!ModelRow
<1> QED BY <1>1, <1>2, <1>3, TableNames DEF Moves, Elsewhere, Fields

\* Writing one operation rule moves no other stamp.
LEMMA Moves_rule ==
  ASSUME NEW d \in Up!Stores, NEW x \in Rules, NEW row \in Up!RuleRow,
         NEW e, e = Up!Put(d, "rule", x, row)
  PROVE  Moves(d, e)
<1>1. /\ Elsewhere(d, e, {"rule"})
      /\ e.rule = [d.rule EXCEPT ![x] = [row EXCEPT !.ver = d.clock + 1]]
  BY Put_rule
<1>2. \A y \in Rules : e.rule[y] = d.rule[y] \/ e.rule[y].ver = d.clock + 1
  BY <1>1, StoreType DEF Up!RuleRow
<1> QED BY <1>1, <1>2, TableNames DEF Moves, Elsewhere, Fields

\* Writing one proxy moves no other stamp.
LEMMA Moves_proxy ==
  ASSUME NEW d \in Up!Stores, NEW x \in Proxies, NEW row \in Up!SwitchRow,
         NEW e, e = Up!Put(d, "proxy", x, row)
  PROVE  Moves(d, e)
<1>1. /\ Elsewhere(d, e, {"proxy"})
      /\ e.proxy = [d.proxy EXCEPT ![x] = [row EXCEPT !.ver = d.clock + 1]]
  BY Put_proxy
<1>2. \A y \in Proxies : e.proxy[y] = d.proxy[y] \/ e.proxy[y].ver = d.clock + 1
  BY <1>1, StoreType DEF Up!SwitchRow
<1> QED BY <1>1, <1>2, TableNames DEF Moves, Elsewhere, Fields

\* Writing one template moves no other stamp.
LEMMA Moves_template ==
  ASSUME NEW d \in Up!Stores, NEW x \in Templates, NEW row \in Up!SwitchRow,
         NEW e, e = Up!Put(d, "template", x, row)
  PROVE  Moves(d, e)
<1>1. /\ Elsewhere(d, e, {"template"})
      /\ e.template = [d.template EXCEPT ![x] = [row EXCEPT !.ver = d.clock + 1]]
  BY Put_template
<1>2. \A y \in Templates : e.template[y] = d.template[y] \/ e.template[y].ver = d.clock + 1
  BY <1>1, StoreType DEF Up!SwitchRow
<1> QED BY <1>1, <1>2, TableNames DEF Moves, Elsewhere, Fields

\* A store with the same rows resolves and compiles alike.
LEMMA SameTables ==
  ASSUME NEW d \in Up!Stores, NEW e \in Up!Stores,
         \A t \in DOMAIN Up!Tables : e[t] = d[t], Up!Compiles(d)
  PROVE  Up!Compiles(e)
<1>1. \A t \in DOMAIN Up!Tables : \A x : Up!Live(e, t, x) <=> Up!Live(d, t, x) BY DEF Up!Live
<1>2. \A t \in DOMAIN Up!Tables : \A x : Up!Enabled(e, t, x) <=> Up!Enabled(d, t, x)
  BY <1>1 DEF Up!Enabled
<1>3. \A t \in DOMAIN Up!Tables : Up!LiveOf(e, t) = Up!LiveOf(d, t) BY DEF Up!LiveOf
<1>4. /\ e.group = d.group /\ e.access = d.access /\ e.cred = d.cred /\ e.chan = d.chan
      /\ e.cap = d.cap /\ e.model = d.model /\ e.rule = d.rule /\ e.proxy = d.proxy
      /\ e.template = d.template
  BY TableNames
<1>5. \A a : Up!AccessValid(e, a) <=> Up!AccessValid(d, a)
  BY <1>2, <1>4, TableNames DEF Up!AccessValid
<1>6. \A a, k : Up!CredentialResolves(e, a, k) <=> Up!CredentialResolves(d, a, k)
  BY <1>1, <1>4, TableNames DEF Up!CredentialResolves
<1>7. \A c : Up!ChannelValid(e, c) <=> Up!ChannelValid(d, c)
  BY <1>1, <1>4, <1>6, TableNames DEF Up!ChannelValid
<1>8. \A p : Up!CapabilityValid(e, p) <=> Up!CapabilityValid(d, p)
  BY <1>1, <1>4, <1>7, TableNames DEF Up!CapabilityValid
<1>9. \A r : Up!RuleResolves(e, r) <=> Up!RuleResolves(d, r)
  BY <1>1, <1>4, TableNames DEF Up!RuleResolves
<1>10. \A p : /\ Up!ResourcesValid(e, p) <=> Up!ResourcesValid(d, p)
              /\ Up!TestModelValid(e, p) <=> Up!TestModelValid(d, p)
  BY <1>1, <1>2, <1>4, TableNames DEF Up!ResourcesValid, Up!TestModelValid
<1>11. \A r : Up!RuleValid(e, r) <=> Up!RuleValid(d, r) BY <1>1, <1>4, TableNames DEF Up!RuleValid
<1> QED
  BY <1>3, <1>5, <1>7, <1>8, <1>9, <1>10, <1>11, TableNames DEF Up!Compiles, Up!ResolveRuntime

\* The coordinator's commit: a store that compiles, whose rows were stamped or left,
\* whose deleted models pin nothing and whose names are distinct, keeps the invariant, and a
\* form still held shows the stored row if its stamp is the stored one.
LEMMA CommitSound ==
  ASSUME Up!TopologyInv, MaxWrites \in Nat, NEW new \in Up!Stores, new.clock = store.clock,
         Moves(store, new), Up!Unpinned(new), Up!NamesApart(new), Up!Commit(new)
  PROVE  Up!TopologyInv'
<1> DEFINE e == [new EXCEPT !.clock = @ + 1]
<1>1. store' = e /\ opened' = opened /\ store.clock < MaxWrites /\ Up!Compiles(new)
  BY DEF Up!Commit
<1>2. store \in Up!Stores /\ store.clock \in Nat BY StoreType DEF Up!TopologyInv, Up!SoundStore
<1>3. e \in Up!Stores /\ e.clock = store.clock + 1 BY <1>1, <1>2 DEF Up!Stores
<1>4. \A u \in Fields \ {"clock"} : e[u] = new[u] BY DEF Fields, Up!Stores
<1> HIDE DEF e
<1>5. \A t \in DOMAIN Up!Tables : e[t] = new[t] BY <1>4, TableNames DEF Fields
<1>6. e.group = new.group /\ e.chan = new.chan /\ e.model = new.model /\ e.rule = new.rule
  BY <1>4 DEF Fields
<1>7. Up!Compiles(e) BY <1>1, <1>3, <1>5, SameTables
<1>8. Up!Unpinned(e) /\ Up!NamesApart(e)
  <2>1. /\ Up!LiveOf(e, "rule") = Up!LiveOf(new, "rule")
        /\ Up!LiveOf(e, "group") = Up!LiveOf(new, "group")
        /\ Up!LiveOf(e, "chan") = Up!LiveOf(new, "chan")
    BY <1>6 DEF Up!LiveOf
  <2>2. Up!Unpinned(e) BY <1>6, <2>1 DEF Up!Unpinned
  <2>3. Up!NamesApart(e) BY <1>6, <2>1 DEF Up!NamesApart
  <2> QED BY <2>2, <2>3
<1>9. Moves(store, e) BY <1>5, <1>6, TableNames DEF Moves
<1>10. Up!StampsPast(e)
  <2> SUFFICES ASSUME NEW t \in DOMAIN Up!Tables, NEW x \in Up!Tables[t]
               PROVE  e[t][x].ver <= e.clock
    BY DEF Up!StampsPast
  <2>1. store[t][x].ver <= store.clock BY DEF Up!TopologyInv, Up!SoundStore, Up!StampsPast
  <2>2. CASE t \notin {"model", "rule"}
    <3>1. e[t][x] = store[t][x] \/ e[t][x].ver = store.clock + 1 BY <1>9, <2>2 DEF Moves
    <3>2. e[t][x].ver \in Nat /\ store[t][x].ver \in Nat
      BY <1>2, <1>3, TableNames DEF Up!Stores, Up!GroupRow, Up!AccessRow, Up!CredentialRow,
        Up!ChannelRow, Up!CapabilityRow, Up!SwitchRow, Up!ModelRow, Up!RuleRow
    <3> QED BY <1>2, <1>3, <2>1, <3>1, <3>2
  <2>3. CASE t = "model"
    <3>1. x \in Models BY <2>3, TableNames
    <3>2. \/ e.model[x] = store.model[x] \/ e.model[x].ver = store.clock + 1
          \/ e.model[x] = [store.model[x] EXCEPT !.profile = TRUE]
      BY <1>9, <3>1 DEF Moves
    <3>3. e.model[x] \in Up!ModelRow /\ store.model[x] \in Up!ModelRow
      BY <1>2, <1>3, <3>1, StoreType
    <3> QED BY <1>2, <1>3, <2>1, <2>3, <3>2, <3>3 DEF Up!ModelRow
  <2>4. CASE t = "rule"
    <3>1. x \in Rules BY <2>4, TableNames
    <3>2. \/ e.rule[x] = store.rule[x] \/ e.rule[x].ver = store.clock + 1
          \/ e.rule[x].ver = store.rule[x].ver
      BY <1>9, <3>1 DEF Moves
    <3>3. e.rule[x] \in Up!RuleRow /\ store.rule[x] \in Up!RuleRow BY <1>2, <1>3, <3>1, StoreType
    <3> QED BY <1>2, <1>3, <2>1, <2>4, <3>2, <3>3 DEF Up!RuleRow
  <2> QED BY <2>2, <2>3, <2>4
<1>11. Up!FormFits'
  <2> SUFFICES ASSUME opened # None PROVE Up!FormFits' BY <1>1 DEF Up!FormFits
  <2>1. PICK v : v = opened OBVIOUS
  <2>2. /\ v.table \in DOMAIN Up!Tables /\ v.id \in Up!Tables[v.table]
        /\ v.table = "model" => v.row \in Up!ModelRow
        /\ v.table = "rule" => v.row \in Up!RuleRow
        /\ v.row.ver \in Nat /\ v.row.ver <= store.clock
        /\ store[v.table][v.id].ver = v.row.ver => Up!Shown(store, v)
    BY <2>1 DEF Up!TopologyInv, Up!FormFits
  <2>3. v.row.ver <= e.clock /\ v.row.ver # store.clock + 1 BY <1>2, <1>3, <2>2
  <2>4. ASSUME e[v.table][v.id].ver = v.row.ver PROVE Up!Shown(e, v)
    <3>1. CASE v.table \notin {"model", "rule"}
      <4>1. e[v.table][v.id] = store[v.table][v.id] BY <1>9, <2>2, <2>3, <2>4, <3>1 DEF Moves
      <4> QED BY <2>2, <2>4, <3>1, <4>1 DEF Up!Shown
    <3>2. CASE v.table = "model"
      <4>1. v.id \in Models BY <2>2, <3>2, TableNames
      <4>2. \/ e.model[v.id] = store.model[v.id]
            \/ e.model[v.id] = [store.model[v.id] EXCEPT !.profile = TRUE]
        BY <1>9, <2>3, <2>4, <3>2, <4>1 DEF Moves
      <4>3. e.model[v.id] \in Up!ModelRow /\ store.model[v.id] \in Up!ModelRow /\ v.row \in Up!ModelRow
        BY <1>2, <1>3, <2>2, <3>2, <4>1, StoreType
      <4>4. store.model[v.id].ver = v.row.ver BY <2>4, <3>2, <4>2, <4>3 DEF Up!ModelRow
      <4>5. store.model[v.id] = [v.row EXCEPT !.profile = store.model[v.id].profile]
        BY <2>2, <3>2, <4>4 DEF Up!Shown
      <4>6. e.model[v.id] = [v.row EXCEPT !.profile = e.model[v.id].profile]
        BY <4>2, <4>3, <4>5 DEF Up!ModelRow
      <4> QED BY <3>2, <4>6 DEF Up!Shown
    <3>3. CASE v.table = "rule"
      <4>1. v.id \in Rules /\ v.row \in Up!RuleRow /\ v.row.model \in Models
        BY <2>2, <3>3, TableNames DEF Up!RuleRow
      <4>2. \/ e.rule[v.id] = store.rule[v.id]
            \/ /\ e.rule[v.id].ver = store.rule[v.id].ver
               /\ e.model[store.rule[v.id].model].st = "dead"
        BY <1>9, <2>3, <2>4, <3>3, <4>1 DEF Moves
      <4>3. store.rule[v.id] = v.row \/ store.model[v.row.model].st = "dead"
        BY <2>2, <2>4, <3>3, <4>2 DEF Up!Shown
      <4>4. store.model[v.row.model].st = "dead" => e.model[v.row.model].st = "dead"
        BY <1>9, <4>1 DEF Moves
      <4> QED BY <3>3, <4>2, <4>3, <4>4 DEF Up!Shown
    <3> QED BY <2>2, <3>1, <3>2, <3>3
  <2> QED BY <1>1, <2>1, <2>2, <2>3, <2>4 DEF Up!FormFits
<1> QED BY <1>1, <1>3, <1>7, <1>8, <1>10, <1>11 DEF Up!TopologyInv, Up!SoundStore

\* The row an update starts from is the stored row, whether it was just read or is
\* the one a form still shows.
LEMMA BaseIs ==
  ASSUME Up!TopologyInv, NEW t \in DOMAIN Up!Tables, NEW x \in Up!Tables[t],
         NEW b \in Up!Bases(t, x), Up!Current(t, x, b)
  PROVE  /\ store[t][x].st = "live"
         /\ t \notin {"model", "rule"} => b = store[t][x]
         /\ t = "model" => /\ b \in Up!ModelRow
                           /\ store.model[x] = [b EXCEPT !.profile = store.model[x].profile]
         /\ t = "rule" => /\ b \in Up!RuleRow
                          /\ b = store.rule[x] \/ store.model[b.model].st = "dead"
<1>1. store[t][x].st = "live" /\ store[t][x].ver = b.ver BY DEF Up!Current, Up!Live
<1>2. store \in Up!Stores BY DEF Up!TopologyInv, Up!SoundStore
<1>3. t = "model" => store.model[x] \in Up!ModelRow BY <1>2, StoreType, TableNames
<1>4. t = "rule" => store.rule[x] \in Up!RuleRow BY <1>2, StoreType, TableNames
<1>5. CASE b = store[t][x]
  <2>1. t = "model" => store.model[x] = [b EXCEPT !.profile = store.model[x].profile]
    BY <1>3, <1>5 DEF Up!ModelRow
  <2> QED BY <1>1, <1>3, <1>4, <1>5, <2>1
<1>6. CASE opened # None /\ opened.table = t /\ opened.id = x /\ b = opened.row
  <2>1. /\ opened.table = "model" => opened.row \in Up!ModelRow
        /\ opened.table = "rule" => opened.row \in Up!RuleRow
        /\ Up!Shown(store, opened)
    BY <1>1, <1>6 DEF Up!TopologyInv, Up!FormFits
  <2> QED BY <1>1, <1>6, <2>1 DEF Up!Shown
<1> QED BY <1>5, <1>6 DEF Up!Bases

\* Without a change of models and capabilities no pin appears.
LEMMA SamePins ==
  ASSUME NEW d, NEW e, e.rule = d.rule, e.model = d.model, Up!Unpinned(d) PROVE Up!Unpinned(e)
BY DEF Up!Unpinned, Up!LiveOf

\* Without a change of groups and channels names stay distinct.
LEMMA SameNames ==
  ASSUME NEW d, NEW e, e.group = d.group, e.chan = d.chan, Up!NamesApart(d) PROVE Up!NamesApart(e)
BY DEF Up!NamesApart, Up!LiveOf

\* What the invariant says of the store.
LEMMA InvFacts ==
  ASSUME Up!TopologyInv
  PROVE  store \in Up!Stores /\ Up!Compiles(store) /\ Up!StampsPast(store) /\ Up!Unpinned(store) /\ Up!NamesApart(store)
BY DEF Up!TopologyInv, Up!SoundStore

\* A committed write of one upstream access keeps the invariant.
LEMMA Commit_access ==
  ASSUME Up!TopologyInv, MaxWrites \in Nat, NEW x \in Accesses, NEW row \in Up!AccessRow,
         Up!Commit(Up!Put(store, "access", x, row))
  PROVE  Up!TopologyInv'
<1>1. PICK new : new = Up!Put(store, "access", x, row) OBVIOUS
<1>2. Elsewhere(store, new, {"access"}) /\ Moves(store, new)
  BY <1>1, InvFacts, Put_access, Moves_access
<1>3. /\ new \in Up!Stores /\ new.clock = store.clock /\ new.rule = store.rule /\ new.model = store.model
      /\ new.group = store.group /\ new.chan = store.chan
  BY <1>2 DEF Elsewhere, Fields
<1>4. Up!Unpinned(new) /\ Up!NamesApart(new) BY <1>3, InvFacts, SamePins, SameNames
<1> QED BY <1>1, <1>2, <1>3, <1>4, CommitSound

\* A committed write of one credential keeps the invariant.
LEMMA Commit_cred ==
  ASSUME Up!TopologyInv, MaxWrites \in Nat, NEW x \in Credentials, NEW row \in Up!CredentialRow,
         Up!Commit(Up!Put(store, "cred", x, row))
  PROVE  Up!TopologyInv'
<1>1. PICK new : new = Up!Put(store, "cred", x, row) OBVIOUS
<1>2. Elsewhere(store, new, {"cred"}) /\ Moves(store, new) BY <1>1, InvFacts, Put_cred, Moves_cred
<1>3. /\ new \in Up!Stores /\ new.clock = store.clock /\ new.rule = store.rule /\ new.model = store.model
      /\ new.group = store.group /\ new.chan = store.chan
  BY <1>2 DEF Elsewhere, Fields
<1>4. Up!Unpinned(new) /\ Up!NamesApart(new) BY <1>3, InvFacts, SamePins, SameNames
<1> QED BY <1>1, <1>2, <1>3, <1>4, CommitSound

\* A committed write of one channel capability keeps the invariant.
LEMMA Commit_cap ==
  ASSUME Up!TopologyInv, MaxWrites \in Nat, NEW x \in Capabilities, NEW row \in Up!CapabilityRow,
         Up!Commit(Up!Put(store, "cap", x, row))
  PROVE  Up!TopologyInv'
<1>1. PICK new : new = Up!Put(store, "cap", x, row) OBVIOUS
<1>2. Elsewhere(store, new, {"cap"}) /\ Moves(store, new) BY <1>1, InvFacts, Put_cap, Moves_cap
<1>3. /\ new \in Up!Stores /\ new.clock = store.clock /\ new.rule = store.rule /\ new.model = store.model
      /\ new.group = store.group /\ new.chan = store.chan
  BY <1>2 DEF Elsewhere, Fields
<1>4. Up!Unpinned(new) /\ Up!NamesApart(new) BY <1>3, InvFacts, SamePins, SameNames
<1> QED BY <1>1, <1>2, <1>3, <1>4, CommitSound

\* A committed write of one proxy keeps the invariant.
LEMMA Commit_proxy ==
  ASSUME Up!TopologyInv, MaxWrites \in Nat, NEW x \in Proxies, NEW row \in Up!SwitchRow,
         Up!Commit(Up!Put(store, "proxy", x, row))
  PROVE  Up!TopologyInv'
<1>1. PICK new : new = Up!Put(store, "proxy", x, row) OBVIOUS
<1>2. Elsewhere(store, new, {"proxy"}) /\ Moves(store, new)
  BY <1>1, InvFacts, Put_proxy, Moves_proxy
<1>3. /\ new \in Up!Stores /\ new.clock = store.clock /\ new.rule = store.rule /\ new.model = store.model
      /\ new.group = store.group /\ new.chan = store.chan
  BY <1>2 DEF Elsewhere, Fields
<1>4. Up!Unpinned(new) /\ Up!NamesApart(new) BY <1>3, InvFacts, SamePins, SameNames
<1> QED BY <1>1, <1>2, <1>3, <1>4, CommitSound

\* A committed write of one template keeps the invariant.
LEMMA Commit_template ==
  ASSUME Up!TopologyInv, MaxWrites \in Nat, NEW x \in Templates, NEW row \in Up!SwitchRow,
         Up!Commit(Up!Put(store, "template", x, row))
  PROVE  Up!TopologyInv'
<1>1. PICK new : new = Up!Put(store, "template", x, row) OBVIOUS
<1>2. Elsewhere(store, new, {"template"}) /\ Moves(store, new)
  BY <1>1, InvFacts, Put_template, Moves_template
<1>3. /\ new \in Up!Stores /\ new.clock = store.clock /\ new.rule = store.rule /\ new.model = store.model
      /\ new.group = store.group /\ new.chan = store.chan
  BY <1>2 DEF Elsewhere, Fields
<1>4. Up!Unpinned(new) /\ Up!NamesApart(new) BY <1>3, InvFacts, SamePins, SameNames
<1> QED BY <1>1, <1>2, <1>3, <1>4, CommitSound

\* A committed write of one routing group keeps the invariant.
LEMMA Commit_group ==
  ASSUME Up!TopologyInv, MaxWrites \in Nat, NEW x \in Groups, NEW row \in Up!GroupRow,
         row.st # "live" \/ Up!NameFree(store, "group", x, row), Up!Commit(Up!Put(store, "group", x, row))
  PROVE  Up!TopologyInv'
<1>1. PICK new : new = Up!Put(store, "group", x, row) OBVIOUS
<1>2. /\ Elsewhere(store, new, {"group"}) /\ Moves(store, new)
      /\ new.group = [store.group EXCEPT ![x] = [row EXCEPT !.ver = store.clock + 1]]
  BY <1>1, InvFacts, Put_group, Moves_group
<1>3. /\ new \in Up!Stores /\ new.clock = store.clock /\ new.rule = store.rule /\ new.model = store.model
      /\ new.chan = store.chan
  BY <1>2 DEF Elsewhere, Fields
<1>4. Up!Unpinned(new) BY <1>3, InvFacts, SamePins
<1>5. store.group \in [Groups -> Up!GroupRow] BY InvFacts, StoreType
<1>6. /\ new.group[x].st = row.st /\ new.group[x].name = row.name
      /\ \A y \in Groups : y # x => new.group[y] = store.group[y]
  BY <1>2, <1>5 DEF Up!GroupRow
<1>7. Up!LiveOf(new, "chan") = Up!LiveOf(store, "chan") BY <1>3 DEF Up!LiveOf
<1>8. \A y \in Up!LiveOf(new, "group") :
        y \in Groups /\ (y # x => y \in Up!LiveOf(store, "group")) /\ (y = x => Up!NameFree(store, "group", x, row))
  BY <1>6, TableNames DEF Up!LiveOf
<1>9. ASSUME NEW g \in Up!LiveOf(new, "group"), NEW h \in Up!LiveOf(new, "group"), g # h
      PROVE  new.group[g].name # new.group[h].name
  <2>1. CASE g # x /\ h # x BY <1>6, <1>8, <1>9, <2>1, InvFacts DEF Up!NamesApart
  <2>2. CASE g = x
    <3>1. Up!NameFree(store, "group", x, row) /\ h \in Up!LiveOf(store, "group") \ {x}
      BY <1>8, <1>9, <2>2
    <3> QED BY <1>6, <1>8, <1>9, <2>2, <3>1 DEF Up!NameFree
  <2>3. CASE h = x
    <3>1. Up!NameFree(store, "group", x, row) /\ g \in Up!LiveOf(store, "group") \ {x}
      BY <1>8, <1>9, <2>3
    <3> QED BY <1>6, <1>8, <1>9, <2>3, <3>1 DEF Up!NameFree
  <2> QED BY <2>1, <2>2, <2>3
<1>10. Up!NamesApart(new) BY <1>3, <1>7, <1>9, InvFacts DEF Up!NamesApart
<1> QED BY <1>1, <1>2, <1>3, <1>4, <1>10, CommitSound

\* A committed write of one logical channel keeps the invariant.
LEMMA Commit_chan ==
  ASSUME Up!TopologyInv, MaxWrites \in Nat, NEW x \in Channels, NEW row \in Up!ChannelRow,
         row.st # "live" \/ Up!NameFree(store, "chan", x, row), Up!Commit(Up!Put(store, "chan", x, row))
  PROVE  Up!TopologyInv'
<1>1. PICK new : new = Up!Put(store, "chan", x, row) OBVIOUS
<1>2. /\ Elsewhere(store, new, {"chan"}) /\ Moves(store, new)
      /\ new.chan = [store.chan EXCEPT ![x] = [row EXCEPT !.ver = store.clock + 1]]
  BY <1>1, InvFacts, Put_chan, Moves_chan
<1>3. /\ new \in Up!Stores /\ new.clock = store.clock /\ new.rule = store.rule /\ new.model = store.model
      /\ new.group = store.group
  BY <1>2 DEF Elsewhere, Fields
<1>4. Up!Unpinned(new) BY <1>3, InvFacts, SamePins
<1>5. store.chan \in [Channels -> Up!ChannelRow] BY InvFacts, StoreType
<1>6. /\ new.chan[x].st = row.st /\ new.chan[x].name = row.name /\ new.chan[x].group = row.group
      /\ \A y \in Channels : y # x => new.chan[y] = store.chan[y]
  BY <1>2, <1>5 DEF Up!ChannelRow
<1>7. Up!LiveOf(new, "group") = Up!LiveOf(store, "group") BY <1>3 DEF Up!LiveOf
<1>8. \A y \in Up!LiveOf(new, "chan") :
        y \in Channels /\ (y # x => y \in Up!LiveOf(store, "chan")) /\ (y = x => Up!NameFree(store, "chan", x, row))
  BY <1>6, TableNames DEF Up!LiveOf
<1>9. ASSUME NEW g \in Up!LiveOf(new, "chan"), NEW h \in Up!LiveOf(new, "chan"), g # h,
             new.chan[g].group = new.chan[h].group
      PROVE  new.chan[g].name # new.chan[h].name
  <2>1. CASE g # x /\ h # x BY <1>6, <1>8, <1>9, <2>1, InvFacts DEF Up!NamesApart
  <2>2. CASE g = x
    <3>1. Up!NameFree(store, "chan", x, row) /\ h \in Up!LiveOf(store, "chan") \ {x}
      BY <1>8, <1>9, <2>2
    <3> QED BY <1>6, <1>8, <1>9, <2>2, <3>1 DEF Up!NameFree
  <2>3. CASE h = x
    <3>1. Up!NameFree(store, "chan", x, row) /\ g \in Up!LiveOf(store, "chan") \ {x}
      BY <1>8, <1>9, <2>3
    <3> QED BY <1>6, <1>8, <1>9, <2>3, <3>1 DEF Up!NameFree
  <2> QED BY <2>1, <2>2, <2>3
<1>10. Up!NamesApart(new) BY <1>3, <1>7, <1>9, InvFacts DEF Up!NamesApart
<1> QED BY <1>1, <1>2, <1>3, <1>4, <1>10, CommitSound

\* A committed write of one model keeps the invariant.
LEMMA Commit_model ==
  ASSUME Up!TopologyInv, MaxWrites \in Nat, NEW x \in Models, NEW row \in Up!ModelRow,
         row.st # "dead", store.model[x].st # "dead", Up!Commit(Up!Put(store, "model", x, row))
  PROVE  Up!TopologyInv'
<1>1. PICK new : new = Up!Put(store, "model", x, row) OBVIOUS
<1>2. /\ Elsewhere(store, new, {"model"}) /\ Moves(store, new)
      /\ new.model = [store.model EXCEPT ![x] = [row EXCEPT !.ver = store.clock + 1]]
  BY <1>1, InvFacts, Put_model, Moves_model
<1>3. /\ new \in Up!Stores /\ new.clock = store.clock /\ new.rule = store.rule /\ new.group = store.group
      /\ new.chan = store.chan
  BY <1>2 DEF Elsewhere, Fields
<1>4. \A m \in Models : new.model[m].st = "dead" => store.model[m].st = "dead"
  BY <1>2, InvFacts, StoreType DEF Up!ModelRow
<1>5. \A r \in Up!LiveOf(new, "rule") : r \in Up!LiveOf(store, "rule") /\ store.rule[r].model \in Models
  BY <1>3, InvFacts, StoreType, TableNames DEF Up!LiveOf, Up!RuleRow
<1>6. Up!Unpinned(new) BY <1>3, <1>4, <1>5, InvFacts DEF Up!Unpinned
<1>7. Up!NamesApart(new) BY <1>3, InvFacts, SameNames
<1> QED BY <1>1, <1>2, <1>3, <1>6, <1>7, CommitSound

\* A committed write of one operation rule keeps the invariant.
LEMMA Commit_rule ==
  ASSUME Up!TopologyInv, MaxWrites \in Nat, NEW x \in Rules, NEW row \in Up!RuleRow,
         store.model[row.model].st = "live", Up!Commit(Up!Put(store, "rule", x, row))
  PROVE  Up!TopologyInv'
<1>1. PICK new : new = Up!Put(store, "rule", x, row) OBVIOUS
<1>2. /\ Elsewhere(store, new, {"rule"}) /\ Moves(store, new)
      /\ new.rule = [store.rule EXCEPT ![x] = [row EXCEPT !.ver = store.clock + 1]]
  BY <1>1, InvFacts, Put_rule, Moves_rule
<1>3. /\ new \in Up!Stores /\ new.clock = store.clock /\ new.model = store.model /\ new.group = store.group
      /\ new.chan = store.chan
  BY <1>2 DEF Elsewhere, Fields
<1>4. /\ new.rule[x].model = row.model
      /\ \A r \in Rules : r # x => new.rule[r] = store.rule[r]
  BY <1>2, InvFacts, StoreType DEF Up!RuleRow
<1>5. \A r \in Up!LiveOf(new, "rule") : r \in Rules /\ (r # x => r \in Up!LiveOf(store, "rule"))
  BY <1>4, TableNames DEF Up!LiveOf
<1>6. Up!Unpinned(new) BY <1>3, <1>4, <1>5, InvFacts DEF Up!Unpinned
<1>7. Up!NamesApart(new) BY <1>3, InvFacts, SameNames
<1> QED BY <1>1, <1>2, <1>3, <1>6, <1>7, CommitSound

\* Creating and updating a routing group.
LEMMA GroupSteps ==
  ASSUME Up!TopologyInv, MaxWrites \in Nat, NEW g \in Groups,
         Up!CreateGroup(g) \/ Up!UpdateGroup(g) \/ Up!DeleteGroup(g)
  PROVE  Up!TopologyInv'
<1>0. store.group[g] \in Up!GroupRow BY InvFacts, StoreType
<1>1. CASE Up!CreateGroup(g)
  <2>1. PICK n \in Names :
          LET row == [st |-> "live", name |-> n, on |-> TRUE, ver |-> 0] IN
          Up!NameFree(store, "group", g, row) /\ Up!Commit(Up!Put(store, "group", g, row))
    BY <1>1 DEF Up!CreateGroup
  <2>2. [st |-> "live", name |-> n, on |-> TRUE, ver |-> 0] \in Up!GroupRow
    BY DEF Up!GroupRow, Up!States
  <2> QED BY <2>1, <2>2, Commit_group
<1>2. ASSUME NEW b \in Up!Bases("group", g), Up!Current("group", g, b) PROVE b = store.group[g]
  BY <1>2, BaseIs, TableNames
<1>3. CASE Up!UpdateGroup(g)
  <2>1. PICK b \in Up!Bases("group", g) : Up!Current("group", g, b) /\
          \E row \in Up!GroupForms(b) \ {b} :
             Up!NameFree(store, "group", g, row) /\ Up!Commit(Up!Put(store, "group", g, row))
    BY <1>3 DEF Up!UpdateGroup
  <2>2. b = store.group[g] BY <1>2, <2>1
  <2>3. PICK row \in Up!GroupForms(b) :
          Up!NameFree(store, "group", g, row) /\ Up!Commit(Up!Put(store, "group", g, row))
    BY <2>1
  <2>4. row \in Up!GroupRow BY <1>0, <2>2, <2>3 DEF Up!GroupForms, Up!GroupRow
  <2> QED BY <2>3, <2>4, Commit_group
<1>4. CASE Up!DeleteGroup(g)
  <2>1. Up!Commit(Up!Put(store, "group", g, [store.group[g] EXCEPT !.st = "dead", !.on = FALSE]))
    BY <1>4 DEF Up!DeleteGroup, Up!Tombstone
  <2>2. /\ [store.group[g] EXCEPT !.st = "dead", !.on = FALSE] \in Up!GroupRow
        /\ [store.group[g] EXCEPT !.st = "dead", !.on = FALSE].st = "dead"
    BY <1>0 DEF Up!GroupRow, Up!States
  <2> QED BY <2>1, <2>2, Commit_group
<1> QED BY <1>1, <1>3, <1>4

\* Creating and updating an upstream access.
LEMMA AccessSteps ==
  ASSUME Up!TopologyInv, MaxWrites \in Nat, NEW a \in Accesses, Up!CreateAccess(a) \/ Up!UpdateAccess(a)
  PROVE  Up!TopologyInv'
<1>0. store.access[a] \in Up!AccessRow BY InvFacts, StoreType
<1>1. CASE Up!CreateAccess(a)
  <2>1. PICK kind \in Connectors, u \in Urls, p \in Proxies \cup {None} :
          Up!Commit(Up!Put(store, "access", a,
                     [st |-> "live", conn |-> kind, url |-> u, proxy |-> p,
                      on |-> TRUE, ver |-> 0]))
    BY <1>1 DEF Up!CreateAccess
  <2>2. [st |-> "live", conn |-> kind, url |-> u, proxy |-> p, on |-> TRUE, ver |-> 0]
          \in Up!AccessRow
    BY DEF Up!AccessRow, Up!States
  <2> QED BY <2>1, <2>2, Commit_access
<1>2. CASE Up!UpdateAccess(a)
  <2>1. PICK b \in Up!Bases("access", a) : Up!Current("access", a, b) /\
          \E row \in Up!AccessForms(b) \ {b} : Up!Commit(Up!Put(store, "access", a, row))
    BY <1>2 DEF Up!UpdateAccess
  <2>2. b = store.access[a] BY <2>1, BaseIs, TableNames
  <2>3. PICK row \in Up!AccessForms(b) : Up!Commit(Up!Put(store, "access", a, row)) BY <2>1
  <2>4. row \in Up!AccessRow BY <1>0, <2>2, <2>3 DEF Up!AccessForms, Up!AccessRow
  <2> QED BY <2>3, <2>4, Commit_access
<1> QED BY <1>1, <1>2

\* Creating and updating a credential.
LEMMA CredentialSteps ==
  ASSUME Up!TopologyInv, MaxWrites \in Nat, NEW k \in Credentials,
         Up!CreateCredential(k) \/ Up!UpdateCredential(k) \/ Up!DeleteCredential(k)
  PROVE  Up!TopologyInv'
<1>0. store.cred[k] \in Up!CredentialRow BY InvFacts, StoreType
<1>1. CASE Up!CreateCredential(k)
  <2>1. PICK kind \in Connectors, s \in SUBSET Urls :
          Up!Commit(Up!Put(store, "cred", k,
                     [st |-> "live", conn |-> kind, scope |-> s, on |-> TRUE, ver |-> 0]))
    BY <1>1 DEF Up!CreateCredential
  <2>2. [st |-> "live", conn |-> kind, scope |-> s, on |-> TRUE, ver |-> 0] \in Up!CredentialRow
    BY DEF Up!CredentialRow, Up!States
  <2> QED BY <2>1, <2>2, Commit_cred
<1>2. CASE Up!UpdateCredential(k)
  <2>1. PICK b \in Up!Bases("cred", k) : Up!Current("cred", k, b) /\
          \E row \in Up!CredentialForms(b) \ {b} : Up!Commit(Up!Put(store, "cred", k, row))
    BY <1>2 DEF Up!UpdateCredential
  <2>2. b = store.cred[k] BY <2>1, BaseIs, TableNames
  <2>3. PICK row \in Up!CredentialForms(b) : Up!Commit(Up!Put(store, "cred", k, row)) BY <2>1
  <2>4. row \in Up!CredentialRow BY <1>0, <2>2, <2>3 DEF Up!CredentialForms, Up!CredentialRow
  <2> QED BY <2>3, <2>4, Commit_cred
<1>3. CASE Up!DeleteCredential(k)
  <2>1. Up!Commit(Up!Put(store, "cred", k, [store.cred[k] EXCEPT !.st = "dead", !.on = FALSE]))
    BY <1>3 DEF Up!DeleteCredential, Up!Tombstone
  <2>2. [store.cred[k] EXCEPT !.st = "dead", !.on = FALSE] \in Up!CredentialRow
    BY <1>0 DEF Up!CredentialRow, Up!States
  <2> QED BY <2>1, <2>2, Commit_cred
<1> QED BY <1>1, <1>2, <1>3

\* Creating and updating a logical channel.
LEMMA ChannelSteps ==
  ASSUME Up!TopologyInv, MaxWrites \in Nat, NEW c \in Channels,
         Up!CreateChannel(c) \/ Up!UpdateChannel(c) \/ Up!DeleteChannel(c)
  PROVE  Up!TopologyInv'
<1>0. store.chan[c] \in Up!ChannelRow BY InvFacts, StoreType
<1>1. CASE Up!CreateChannel(c)
  <2>1. PICK g \in Groups, a \in Accesses, k \in Credentials \cup {None}, n \in Names :
          LET row == [st |-> "live", group |-> g, access |-> a, cred |-> k,
                      name |-> n, on |-> TRUE, ver |-> 0] IN
          Up!ChannelAccepts(store, c, row) /\ Up!Commit(Up!Put(store, "chan", c, row))
    BY <1>1 DEF Up!CreateChannel
  <2> DEFINE row == [st |-> "live", group |-> g, access |-> a, cred |-> k,
                     name |-> n, on |-> TRUE, ver |-> 0]
  <2>2. row \in Up!ChannelRow BY DEF Up!ChannelRow, Up!States
  <2>3. Up!NameFree(store, "chan", c, row) /\ Up!Commit(Up!Put(store, "chan", c, row))
    BY <2>1 DEF Up!ChannelAccepts
  <2> HIDE DEF row
  <2> QED BY <2>2, <2>3, Commit_chan
<1>2. CASE Up!UpdateChannel(c)
  <2>1. PICK b \in Up!Bases("chan", c) : Up!Current("chan", c, b) /\
          \E row \in Up!ChannelForms(b) \ {b} :
             Up!ChannelAccepts(store, c, row) /\ Up!Commit(Up!Put(store, "chan", c, row))
    BY <1>2 DEF Up!UpdateChannel
  <2>2. b = store.chan[c] BY <2>1, BaseIs, TableNames
  <2>3. PICK row \in Up!ChannelForms(b) :
          Up!NameFree(store, "chan", c, row) /\ Up!Commit(Up!Put(store, "chan", c, row))
    BY <2>1 DEF Up!ChannelAccepts
  <2>4. row \in Up!ChannelRow BY <1>0, <2>2, <2>3 DEF Up!ChannelForms, Up!ChannelRow
  <2> QED BY <2>3, <2>4, Commit_chan
<1>3. CASE Up!DeleteChannel(c)
  <2>1. Up!Commit(Up!Put(store, "chan", c, [store.chan[c] EXCEPT !.st = "dead", !.on = FALSE]))
    BY <1>3 DEF Up!DeleteChannel, Up!Tombstone
  <2>2. /\ [store.chan[c] EXCEPT !.st = "dead", !.on = FALSE] \in Up!ChannelRow
        /\ [store.chan[c] EXCEPT !.st = "dead", !.on = FALSE].st = "dead"
    BY <1>0 DEF Up!ChannelRow, Up!States
  <2> QED BY <2>1, <2>2, Commit_chan
<1> QED BY <1>1, <1>2, <1>3

\* Enabling and disabling a row in place.
LEMMA SwitchSteps ==
  ASSUME Up!TopologyInv, MaxWrites \in Nat,
         \/ \E x \in Proxies : Up!CreateProxy(x) \/ Up!UpdateProxy(x) \/ Up!DeleteProxy(x)
         \/ \E t \in Templates : Up!CreateTemplate(t) \/ Up!UpdateTemplate(t)
  PROVE  Up!TopologyInv'
<1>0. /\ store.proxy \in [Proxies -> Up!SwitchRow] /\ store.template \in [Templates -> Up!SwitchRow]
      /\ [st |-> "live", on |-> TRUE, ver |-> 0] \in Up!SwitchRow
      /\ \A row \in Up!SwitchRow : /\ [row EXCEPT !.on = ~@] \in Up!SwitchRow
                                /\ [row EXCEPT !.st = "dead", !.on = FALSE] \in Up!SwitchRow
  BY InvFacts, StoreType DEF Up!SwitchRow, Up!States
<1>1. ASSUME NEW x \in Proxies, Up!CreateProxy(x) PROVE Up!TopologyInv'
  BY <1>0, <1>1, Commit_proxy DEF Up!CreateProxy
<1>2. ASSUME NEW x \in Proxies, Up!UpdateProxy(x) PROVE Up!TopologyInv'
  <2>1. PICK b \in Up!Bases("proxy", x) :
          Up!Current("proxy", x, b) /\ Up!Commit(Up!Put(store, "proxy", x, [b EXCEPT !.on = ~@]))
    BY <1>2 DEF Up!UpdateProxy
  <2>2. b = store.proxy[x] BY <2>1, BaseIs, TableNames
  <2>3. [b EXCEPT !.on = ~@] \in Up!SwitchRow BY <1>0, <2>2
  <2> QED BY <2>1, <2>3, Commit_proxy
<1>3. ASSUME NEW x \in Proxies, Up!DeleteProxy(x) PROVE Up!TopologyInv'
  <2>1. Up!Commit(Up!Put(store, "proxy", x, [store.proxy[x] EXCEPT !.st = "dead", !.on = FALSE]))
    BY <1>3 DEF Up!DeleteProxy, Up!Tombstone
  <2>2. [store.proxy[x] EXCEPT !.st = "dead", !.on = FALSE] \in Up!SwitchRow BY <1>0
  <2> QED BY <2>1, <2>2, Commit_proxy
<1>4. ASSUME NEW t \in Templates, Up!CreateTemplate(t) PROVE Up!TopologyInv'
  BY <1>0, <1>4, Commit_template DEF Up!CreateTemplate
<1>5. ASSUME NEW t \in Templates, Up!UpdateTemplate(t) PROVE Up!TopologyInv'
  <2>1. PICK b \in Up!Bases("template", t) :
          Up!Current("template", t, b) /\ Up!Commit(Up!Put(store, "template", t, [b EXCEPT !.on = ~@]))
    BY <1>5 DEF Up!UpdateTemplate
  <2>2. b = store.template[t] BY <2>1, BaseIs, TableNames
  <2>3. [b EXCEPT !.on = ~@] \in Up!SwitchRow BY <1>0, <2>2
  <2> QED BY <2>1, <2>3, Commit_template
<1> QED BY <1>1, <1>2, <1>3, <1>4, <1>5

\* Detaching a capability from the rules: each rule that listed it is stamped, and
\* no rule lists it afterwards.
LEMMA DetachFacts ==
  ASSUME NEW d \in Up!Stores, NEW p \in Capabilities, NEW e, e = Up!Detach(d, p)
  PROVE  /\ Elsewhere(d, e, {"rule"})
         /\ \A r \in Rules \ Up!Affected(d, p) : e.rule[r] = d.rule[r]
         /\ \A r \in Up!Affected(d, p) :
              /\ r \in Rules /\ e.rule[r].ver = d.clock + 1
              /\ e.rule[r].st = d.rule[r].st /\ e.rule[r].model = d.rule[r].model
              /\ e.rule[r].op = d.rule[r].op
              /\ e.rule[r].tiers = Up!Without(d.rule[r].tiers, p)
              /\ e.rule[r].on <=> (d.rule[r].on /\ \E q \in Priorities :
                                     Up!Without(d.rule[r].tiers, p)[q] # {})
<1> DEFINE row(r) == [d.rule[r] EXCEPT
                        !.on = @ /\ \E q \in Priorities : Up!Without(d.rule[r].tiers, p)[q] # {},
                        !.tiers = Up!Without(d.rule[r].tiers, p), !.ver = d.clock + 1]
           f == [r \in Rules |-> IF r \notin Up!Affected(d, p) THEN d.rule[r] ELSE row(r)]
<1>1. e = [d EXCEPT !["rule"] = f] BY DEF Up!Detach
<1>2. d.rule \in [Rules -> Up!RuleRow] /\ d.clock \in Nat BY StoreType
<1>3. ASSUME NEW r \in Rules
      PROVE  /\ row(r) \in Up!RuleRow /\ row(r).ver = d.clock + 1
             /\ row(r).st = d.rule[r].st /\ row(r).model = d.rule[r].model
             /\ row(r).op = d.rule[r].op /\ row(r).tiers = Up!Without(d.rule[r].tiers, p)
             /\ row(r).on <=> (d.rule[r].on /\ \E q \in Priorities :
                                 Up!Without(d.rule[r].tiers, p)[q] # {})
  <2>1. Up!Without(d.rule[r].tiers, p) \in [Priorities -> SUBSET Up!Candidates]
    BY <1>2 DEF Up!Without, Up!RuleRow
  <2>2. PICK w : w = Up!Without(d.rule[r].tiers, p) OBVIOUS
  <2>4. d.rule[r] \in Up!RuleRow BY <1>2
  <2>5. d.rule[r].on \in BOOLEAN BY <2>4 DEF Up!RuleRow
  <2>6. PICK z \in BOOLEAN :
          z = (d.rule[r].on /\ \E q \in Priorities : Up!Without(d.rule[r].tiers, p)[q] # {})
    OBVIOUS
  <2>7. row(r) = [d.rule[r] EXCEPT !.on = z, !.tiers = w, !.ver = d.clock + 1]
    BY <2>2, <2>6, Zenon
  <2> HIDE DEF row
  <2>8. /\ row(r) \in Up!RuleRow /\ row(r).ver = d.clock + 1
        /\ row(r).st = d.rule[r].st /\ row(r).model = d.rule[r].model
        /\ row(r).op = d.rule[r].op /\ row(r).tiers = w
        /\ row(r).on = z
    <3>1. w \in [Priorities -> SUBSET Up!Candidates] /\ d.clock + 1 \in Nat BY <1>2, <2>1, <2>2
    <3>2. PICK old \in Up!RuleRow : old = d.rule[r] BY <2>4
    <3>3. PICK n \in Nat : n = d.clock + 1 BY <3>1
    <3>4. row(r) = [old EXCEPT !.on = z, !.tiers = w, !.ver = n] BY <2>7, <3>2, <3>3
    <3>5. /\ row(r) \in Up!RuleRow /\ row(r).ver = n /\ row(r).st = old.st
          /\ row(r).model = old.model /\ row(r).op = old.op /\ row(r).tiers = w
          /\ row(r).on = z
      BY <3>1, <3>4 DEF Up!RuleRow
    <3> QED BY <3>2, <3>3, <3>5
  <2> QED BY <2>2, <2>5, <2>6, <2>8
<1> HIDE DEF row
<1>4. f \in [Rules -> Up!RuleRow] BY <1>2, <1>3
<1>5. Up!Affected(d, p) \subseteq Rules BY TableNames DEF Up!Affected, Up!LiveOf
<1>6. \A r \in Up!Affected(d, p) : r \in Rules /\ f[r] = row(r) BY <1>5
<1>7. \A r \in Rules \ Up!Affected(d, p) : f[r] = d.rule[r] OBVIOUS
<1> HIDE DEF f
<1>8. e \in Up!Stores BY <1>1, <1>4 DEF Up!Stores
<1>9. e.rule = f BY <1>1 DEF Up!Stores
<1>10. \A u \in Fields \ {"rule"} : e[u] = d[u] BY <1>1 DEF Up!Stores, Fields
<1>11. Elsewhere(d, e, {"rule"}) BY <1>8, <1>10 DEF Elsewhere
<1> QED BY <1>3, <1>6, <1>7, <1>9, <1>11

\* What deleting a capability leaves: its tombstone and the rules without it.
LEMMA RemovedCapability ==
  ASSUME NEW d \in Up!Stores, NEW p \in Capabilities, NEW e, e = Up!CapabilityRemoved(d, p)
  PROVE  /\ Elsewhere(d, e, {"rule", "cap"})
         /\ e.rule = Up!Detach(d, p).rule
         /\ e.cap[p].st = "dead" /\ e.cap[p].ver = d.clock + 1
         /\ \A q \in Capabilities \ {p} : e.cap[q] = d.cap[q]
<1>1. PICK d1 : d1 = Up!Detach(d, p) OBVIOUS
<1>2. Elsewhere(d, d1, {"rule"}) BY <1>1, DetachFacts
<1>3. PICK d2 : d2 = [d1 EXCEPT !.cap[p].down = FALSE] OBVIOUS
<1>4. d1 \in Up!Stores /\ d1.cap = d.cap /\ d1.clock = d.clock BY <1>2 DEF Elsewhere, Fields
<1>5. d.cap \in [Capabilities -> Up!CapabilityRow] BY StoreType
<1>6. PICK g : g = [d.cap EXCEPT ![p].down = FALSE] OBVIOUS
<1>7. g \in [Capabilities -> Up!CapabilityRow] /\ \A q \in Capabilities \ {p} : g[q] = d.cap[q]
  <2>1. PICK row : row = [d.cap[p] EXCEPT !.down = FALSE] OBVIOUS
  <2>2. row \in Up!CapabilityRow BY <1>5, <2>1 DEF Up!CapabilityRow
  <2>3. g = [d.cap EXCEPT ![p] = row] BY <1>5, <1>6, <2>1
  <2> QED BY <1>5, <2>2, <2>3
<1>8. d2 = [d1 EXCEPT !["cap"] = g] BY <1>3, <1>4, <1>6 DEF Up!Stores
<1>9. d2 \in Up!Stores BY <1>4, <1>7, <1>8 DEF Up!Stores
<1>10. d2.cap = g /\ \A u \in Fields \ {"cap"} : d2[u] = d1[u] BY <1>4, <1>8 DEF Up!Stores, Fields
<1>11. PICK row : row = [g[p] EXCEPT !.st = "dead", !.on = FALSE] OBVIOUS
<1>12. row \in Up!CapabilityRow /\ row.st = "dead" BY <1>7, <1>11 DEF Up!CapabilityRow, Up!States
<1>13. e = Up!Put(d2, "cap", p, row)
  BY <1>1, <1>3, <1>10, <1>11 DEF Up!CapabilityRemoved, Up!Tombstone
<1>14. /\ Elsewhere(d2, e, {"cap"})
       /\ e.cap = [d2.cap EXCEPT ![p] = [row EXCEPT !.ver = d2.clock + 1]]
  BY <1>9, <1>12, <1>13, Put_cap
<1>15. d2.clock = d.clock BY <1>4, <1>10 DEF Fields
<1>16. e.cap[p].st = "dead" /\ e.cap[p].ver = d.clock + 1
  BY <1>7, <1>10, <1>12, <1>14, <1>15 DEF Up!CapabilityRow
<1>17. \A q \in Capabilities \ {p} : e.cap[q] = d.cap[q] BY <1>7, <1>10, <1>14
<1>18. e.rule = d1.rule BY <1>10, <1>14 DEF Elsewhere, Fields
<1>19. Elsewhere(d, e, {"rule", "cap"}) BY <1>2, <1>10, <1>14 DEF Elsewhere
<1> QED BY <1>1, <1>16, <1>17, <1>18, <1>19

\* Creating, updating, disabling and recovering a capability.
LEMMA CapabilitySteps ==
  ASSUME Up!TopologyInv, MaxWrites \in Nat, NEW p \in Capabilities,
         \/ Up!CreateCapability(p) \/ Up!UpdateCapability(p)
         \/ Up!AutoDisable(p) \/ Up!AutoRecover(p) \/ Up!RecoverCapability(p)
  PROVE  Up!TopologyInv'
<1>0. store.cap[p] \in Up!CapabilityRow BY InvFacts, StoreType
<1>1. CASE Up!CreateCapability(p)
  <2>1. PICK c \in Channels, op \in Operations, ms \in SUBSET UpstreamModels :
          Up!Commit(Up!Put(store, "cap", p,
                     [st |-> "live", chan |-> c, op |-> op, on |-> TRUE,
                      models |-> ms, test |-> None, template |-> None,
                      allowed |-> FALSE, down |-> FALSE, ver |-> 0]))
    BY <1>1 DEF Up!CreateCapability
  <2>2. [st |-> "live", chan |-> c, op |-> op, on |-> TRUE, models |-> ms, test |-> None,
         template |-> None, allowed |-> FALSE, down |-> FALSE, ver |-> 0] \in Up!CapabilityRow
    BY DEF Up!CapabilityRow, Up!States
  <2> QED BY <2>1, <2>2, Commit_cap
<1>2. CASE Up!UpdateCapability(p)
  <2>1. PICK b \in Up!Bases("cap", p) : Up!Current("cap", p, b) /\
          \E row \in Up!CapabilityForms(b) \ {b} :
             Up!Commit(Up!Put(store, "cap", p, [row EXCEPT !.down = store.cap[p].down]))
    BY <1>2 DEF Up!UpdateCapability
  <2>2. b = store.cap[p] BY <2>1, BaseIs, TableNames
  <2>3. PICK row \in Up!CapabilityForms(b) :
          Up!Commit(Up!Put(store, "cap", p, [row EXCEPT !.down = store.cap[p].down]))
    BY <2>1
  <2>4. row \in Up!CapabilityRow
    <3>1. CASE \E ms \in SUBSET UpstreamModels : row = [store.cap[p] EXCEPT !.models = ms]
      BY <1>0, <3>1 DEF Up!CapabilityRow
    <3>2. CASE \E t \in (UpstreamModels \X Models) \cup {None} : row = [store.cap[p] EXCEPT !.test = t]
      BY <1>0, <3>2 DEF Up!CapabilityRow
    <3>3. CASE \E t \in Templates \cup {None} : row = [store.cap[p] EXCEPT !.template = t]
      BY <1>0, <3>3 DEF Up!CapabilityRow
    <3>4. CASE row = [store.cap[p] EXCEPT !.on = ~@] BY <1>0, <3>4 DEF Up!CapabilityRow
    <3>5. CASE row = [store.cap[p] EXCEPT !.allowed = ~@] BY <1>0, <3>5 DEF Up!CapabilityRow
    <3> QED BY <2>2, <2>3, <3>1, <3>2, <3>3, <3>4, <3>5 DEF Up!CapabilityForms
  <2>5. [row EXCEPT !.down = store.cap[p].down] \in Up!CapabilityRow
    BY <1>0, <2>4 DEF Up!CapabilityRow
  <2> QED BY <2>3, <2>5, Commit_cap
<1>3. \A b \in BOOLEAN : [store.cap[p] EXCEPT !.down = b] \in Up!CapabilityRow
  BY <1>0 DEF Up!CapabilityRow
<1>4. CASE Up!AutoDisable(p) BY <1>3, <1>4, Commit_cap DEF Up!AutoDisable
<1>5. CASE Up!AutoRecover(p) BY <1>3, <1>5, Commit_cap DEF Up!AutoRecover
<1>6. CASE Up!RecoverCapability(p) BY <1>3, <1>6, Commit_cap DEF Up!RecoverCapability
<1> QED BY <1>1, <1>2, <1>4, <1>5, <1>6

\* Deleting a capability keeps the invariant.
LEMMA CapabilityDeletion ==
  ASSUME Up!TopologyInv, MaxWrites \in Nat, NEW p \in Capabilities, Up!DeleteCapability(p)
  PROVE  Up!TopologyInv'
<1>1. PICK e : e = Up!CapabilityRemoved(store, p) OBVIOUS
<1>2. Up!Commit(e) BY <1>1 DEF Up!DeleteCapability
<1>3. store \in Up!Stores BY InvFacts
<1>4. /\ Elsewhere(store, e, {"rule", "cap"}) /\ e.cap[p].ver = store.clock + 1
      /\ \A q \in Capabilities \ {p} : e.cap[q] = store.cap[q]
      /\ e.rule = Up!Detach(store, p).rule
  BY <1>1, <1>3, RemovedCapability
<1>5. /\ \A r \in Rules \ Up!Affected(store, p) : e.rule[r] = store.rule[r]
      /\ \A r \in Up!Affected(store, p) :
           /\ r \in Rules /\ e.rule[r].ver = store.clock + 1
           /\ e.rule[r].st = store.rule[r].st /\ e.rule[r].model = store.rule[r].model
           /\ e.rule[r].tiers = Up!Without(store.rule[r].tiers, p)
           /\ e.rule[r].on => store.rule[r].on
  BY <1>3, <1>4, DetachFacts
<1>6. /\ e \in Up!Stores /\ e.clock = store.clock /\ e.model = store.model /\ e.group = store.group
      /\ e.chan = store.chan
  BY <1>4 DEF Elsewhere, Fields
<1>7. Moves(store, e)
  <2>1. \A q \in Capabilities : e.cap[q] = store.cap[q] \/ e.cap[q].ver = store.clock + 1 BY <1>4
  <2>2. \A r \in Rules : e.rule[r] = store.rule[r] \/ e.rule[r].ver = store.clock + 1 BY <1>5
  <2> QED BY <1>4, <1>6, <2>1, <2>2, TableNames DEF Moves, Elsewhere, Fields
<1>8. Up!Unpinned(e)
  <2> SUFFICES ASSUME NEW r \in Up!LiveOf(e, "rule"), e.model[e.rule[r].model].st = "dead"
               PROVE  ~e.rule[r].on /\ Up!CandidatesOf(e.rule[r]) = {}
    BY DEF Up!Unpinned
  <2>1. r \in Rules /\ e.rule[r].st = "live" BY TableNames DEF Up!LiveOf
  <2>2. CASE r \in Up!Affected(store, p)
    <3>1. r \in Up!LiveOf(store, "rule") /\ store.model[store.rule[r].model].st = "dead"
      BY <1>5, <1>6, <2>1, <2>2, TableNames DEF Up!LiveOf
    <3>2. ~store.rule[r].on /\ Up!CandidatesOf(store.rule[r]) = {}
      BY <3>1, InvFacts DEF Up!Unpinned
    <3>3. Up!CandidatesOf(e.rule[r]) \subseteq Up!CandidatesOf(store.rule[r])
      <4>1. \A q \in Priorities : e.rule[r].tiers[q] \subseteq store.rule[r].tiers[q]
        BY <1>5, <2>2 DEF Up!Without
      <4> QED BY <4>1 DEF Up!CandidatesOf
    <3> QED BY <1>5, <2>2, <3>2, <3>3
  <2>3. CASE r \notin Up!Affected(store, p)
    <3>1. e.rule[r] = store.rule[r] BY <1>5, <2>1, <2>3
    <3>2. r \in Up!LiveOf(store, "rule") /\ store.model[store.rule[r].model].st = "dead"
      BY <1>6, <2>1, <3>1, TableNames DEF Up!LiveOf
    <3> QED BY <3>1, <3>2, InvFacts DEF Up!Unpinned
  <2> QED BY <2>2, <2>3
<1>9. Up!NamesApart(e) BY <1>6, InvFacts, SameNames
<1> QED BY <1>2, <1>6, <1>7, <1>8, <1>9, CommitSound

\* A batch switches several capabilities in one transaction.
LEMMA BatchSteps ==
  ASSUME Up!TopologyInv, MaxWrites \in Nat, NEW ps \in SUBSET Capabilities, Up!BatchCapabilities(ps)
  PROVE  Up!TopologyInv'
<1>1. PICK form \in [{"on", "allowed"} -> BOOLEAN \cup {None}] :
        Up!Commit([store EXCEPT !.cap = [p \in Capabilities |->
          IF p \in ps
          THEN [store.cap[p] EXCEPT
                  !.on = IF form["on"] = None THEN @ ELSE form["on"],
                  !.allowed = IF form["allowed"] = None THEN @ ELSE form["allowed"],
                  !.ver = store.clock + 1]
          ELSE store.cap[p]]])
  BY DEF Up!BatchCapabilities
<1> DEFINE row(p) == [store.cap[p] EXCEPT
                  !.on = IF form["on"] = None THEN @ ELSE form["on"],
                  !.allowed = IF form["allowed"] = None THEN @ ELSE form["allowed"],
                  !.ver = store.clock + 1]
           f == [p \in Capabilities |-> IF p \in ps THEN row(p) ELSE store.cap[p]]
<1>2. PICK e : e = [store EXCEPT !["cap"] = f] OBVIOUS
<1>3. Up!Commit(e) BY <1>1, <1>2
<1>4. store \in Up!Stores /\ store.cap \in [Capabilities -> Up!CapabilityRow] /\ store.clock \in Nat
  BY InvFacts, StoreType
<1>5. ASSUME NEW p \in Capabilities
      PROVE  row(p) \in Up!CapabilityRow /\ row(p).ver = store.clock + 1
  <2>1. store.cap[p] \in Up!CapabilityRow BY <1>4
  <2>2. store.cap[p].on \in BOOLEAN /\ store.cap[p].allowed \in BOOLEAN
    BY <2>1 DEF Up!CapabilityRow
  <2>3. PICK y \in BOOLEAN : y = IF form["on"] = None THEN store.cap[p].on ELSE form["on"] BY <2>2
  <2>4. PICK z \in BOOLEAN :
          z = IF form["allowed"] = None THEN store.cap[p].allowed ELSE form["allowed"]
    BY <2>2
  <2>5. row(p) = [store.cap[p] EXCEPT !.on = y, !.allowed = z, !.ver = store.clock + 1]
    BY <2>3, <2>4
  <2> HIDE DEF row
  <2>6. store.clock + 1 \in Nat BY <1>4
  <2>7. row(p) \in Up!CapabilityRow BY <2>1, <2>5, <2>6 DEF Up!CapabilityRow
  <2>8. row(p).ver = store.clock + 1 BY <2>1, <2>5 DEF Up!CapabilityRow
  <2> QED BY <2>7, <2>8
<1> HIDE DEF row
<1>6. /\ f \in [Capabilities -> Up!CapabilityRow]
      /\ \A p \in Capabilities : f[p] = store.cap[p] \/ f[p].ver = store.clock + 1
  BY <1>4, <1>5
<1> HIDE DEF f
<1>7. e \in Up!Stores BY <1>2, <1>4, <1>6 DEF Up!Stores
<1>8. e.cap = f BY <1>2, <1>4 DEF Up!Stores
<1>9. \A u \in Fields \ {"cap"} : e[u] = store[u] BY <1>2, <1>4 DEF Up!Stores, Fields
<1>10. /\ e.clock = store.clock /\ e.model = store.model /\ e.group = store.group
       /\ e.chan = store.chan /\ e.rule = store.rule
  BY <1>9 DEF Fields
<1>11. Moves(store, e) BY <1>6, <1>8, <1>9, <1>10, TableNames DEF Moves, Fields
<1>12. Up!Unpinned(e) /\ Up!NamesApart(e) BY <1>10, InvFacts, SamePins, SameNames
<1> QED BY <1>3, <1>7, <1>10, <1>11, <1>12, CommitSound

\* Deleting a model withdraws its rules, which keep their stamps.
LEMMA WithdrawnFacts ==
  ASSUME NEW d \in Up!Stores, NEW m \in Models, None \notin Rules
  PROVE  /\ Up!Withdrawn(d, m) \in [Rules -> Up!RuleRow]
         /\ \A r \in Rules :
              /\ Up!Withdrawn(d, m)[r].st = d.rule[r].st
              /\ Up!Withdrawn(d, m)[r].model = d.rule[r].model
              /\ Up!Withdrawn(d, m)[r].op = d.rule[r].op
              /\ d.rule[r].model # m => Up!Withdrawn(d, m)[r] = d.rule[r]
              /\ \/ Up!Withdrawn(d, m)[r] = d.rule[r]
                 \/ Up!Withdrawn(d, m)[r].ver = d.clock + 1
                 \/ Up!Withdrawn(d, m)[r].ver = d.rule[r].ver /\ d.rule[r].model = m
              /\ d.rule[r].model = m /\ d.rule[r].st = "live" =>
                   ~Up!Withdrawn(d, m)[r].on /\ Up!CandidatesOf(Up!Withdrawn(d, m)[r]) = {}
<1> DEFINE none == [q \in Priorities |-> {}]
           W == Up!Withdrawn(d, m)
<1>1. d.rule \in [Rules -> Up!RuleRow] /\ d.clock + 1 \in Nat BY StoreType
<1>2. none \in [Priorities -> SUBSET Up!Candidates] OBVIOUS
<1>3. ASSUME NEW r \in Rules
      PROVE  /\ W[r] \in Up!RuleRow /\ W[r].st = d.rule[r].st /\ W[r].model = d.rule[r].model
             /\ W[r].op = d.rule[r].op
             /\ d.rule[r].model # m => W[r] = d.rule[r]
             /\ \/ W[r] = d.rule[r] \/ W[r].ver = d.clock + 1
                \/ W[r].ver = d.rule[r].ver /\ d.rule[r].model = m
             /\ d.rule[r].model = m /\ d.rule[r].st = "live" =>
                  ~W[r].on /\ Up!CandidatesOf(W[r]) = {}
  <2>0. PICK old \in Up!RuleRow : old = d.rule[r] BY <1>1
  <2>1. CASE old.model # m \/ ~Up!Live(d, "rule", r)
    <3>1. W[r] = old BY <2>0, <2>1 DEF Up!Withdrawn
    <3>2. CASE old.model # m BY <2>0, <3>1, <3>2
    <3>3. CASE old.st # "live" BY <2>0, <3>1, <3>3
    <3> QED BY <2>0, <2>1, <3>2, <3>3 DEF Up!Live
  <2>2. CASE ~(old.model # m \/ ~Up!Live(d, "rule", r))
    <3>1. PICK w \in [Priorities -> SUBSET Up!Candidates] : w = none BY <1>2
    <3>2. PICK n \in Nat : n = IF old.on THEN d.clock + 1 ELSE old.ver BY <1>1 DEF Up!RuleRow
    <3>3. W[r] = [old EXCEPT !.tiers = w, !.on = FALSE, !.ver = n]
      <4>1. W[r] = [old EXCEPT !.tiers = w, !.on = FALSE,
                              !.ver = IF old.on THEN d.clock + 1 ELSE @]
        BY <2>0, <2>2, <3>1 DEF Up!Withdrawn
      <4>2. [old EXCEPT !.tiers = w, !.on = FALSE].ver = old.ver BY DEF Up!RuleRow
      <4> QED BY <3>2, <4>1, <4>2
    <3> HIDE DEF W, none
    <3>4. /\ W[r] \in Up!RuleRow /\ W[r].st = old.st /\ W[r].model = old.model
          /\ W[r].op = old.op /\ W[r].tiers = w /\ ~W[r].on /\ W[r].ver = n
      BY <3>3 DEF Up!RuleRow
    <3>5. Up!CandidatesOf(W[r]) = {} BY <3>1, <3>4 DEF Up!CandidatesOf, none
    <3>6. n = d.clock + 1 \/ n = old.ver BY <3>2
    <3> QED BY <2>0, <2>2, <3>4, <3>5, <3>6
  <2> QED BY <2>1, <2>2
<1>4. W = [r \in Rules |-> W[r]] BY DEF Up!Withdrawn
<1> HIDE DEF W
<1>5. W \in [Rules -> Up!RuleRow] BY <1>3, <1>4
<1> QED BY <1>3, <1>5 DEF W

\* Deleting a model takes it out of every scheduled test, and stamps those it was in.
LEMMA UntestedFacts ==
  ASSUME NEW d \in Up!Stores, NEW m \in Models, None \notin Capabilities
  PROVE  /\ Up!Untested(d, m) \in [Capabilities -> Up!CapabilityRow]
         /\ \A p \in Capabilities :
              /\ Up!Untested(d, m)[p] = d.cap[p] \/ Up!Untested(d, m)[p].ver = d.clock + 1
              /\ Up!Untested(d, m)[p].st = d.cap[p].st /\ Up!Untested(d, m)[p].op = d.cap[p].op
              /\ Up!Untested(d, m)[p].chan = d.cap[p].chan
              /\ Up!Untested(d, m)[p].models = d.cap[p].models
              /\ Up!Untested(d, m)[p].template = d.cap[p].template
              /\ Up!Untested(d, m)[p].test # None =>
                   Up!Untested(d, m)[p].test = d.cap[p].test
              /\ Up!Untested(d, m)[p].test # None /\ d.cap[p].st = "live" =>
                   Up!Untested(d, m)[p].test[2] # m
<1> DEFINE U == Up!Untested(d, m)
<1>1. d.cap \in [Capabilities -> Up!CapabilityRow] /\ d.clock + 1 \in Nat BY StoreType
<1>2. ASSUME NEW p \in Capabilities
      PROVE  /\ U[p] \in Up!CapabilityRow /\ (U[p] = d.cap[p] \/ U[p].ver = d.clock + 1)
             /\ U[p].st = d.cap[p].st /\ U[p].op = d.cap[p].op /\ U[p].chan = d.cap[p].chan
             /\ U[p].models = d.cap[p].models /\ U[p].template = d.cap[p].template
             /\ U[p].test # None => U[p].test = d.cap[p].test
             /\ U[p].test # None /\ d.cap[p].st = "live" => U[p].test[2] # m
  <2>0. PICK old \in Up!CapabilityRow : old = d.cap[p] BY <1>1
  <2>1. CASE Up!Live(d, "cap", p) /\ old.test # None /\ old.test[2] = m
    <3>1. PICK n \in Nat : n = d.clock + 1 BY <1>1
    <3>2. U[p] = [old EXCEPT !.test = None, !.ver = n] BY <2>0, <2>1, <3>1 DEF Up!Untested
    <3> HIDE DEF U
    <3>3. /\ U[p] \in Up!CapabilityRow /\ U[p].ver = n /\ U[p].st = old.st /\ U[p].op = old.op
          /\ U[p].chan = old.chan /\ U[p].models = old.models /\ U[p].template = old.template
          /\ U[p].test = None
      BY <3>2 DEF Up!CapabilityRow
    <3> QED BY <2>0, <3>1, <3>3
  <2>2. CASE ~(Up!Live(d, "cap", p) /\ old.test # None /\ old.test[2] = m)
    <3>1. U[p] = old BY <2>0, <2>2 DEF Up!Untested
    <3> QED BY <2>0, <2>2, <3>1 DEF Up!Live
  <2> QED BY <2>1, <2>2
<1>3. U = [p \in Capabilities |-> U[p]] BY DEF Up!Untested
<1> HIDE DEF U
<1>4. U \in [Capabilities -> Up!CapabilityRow] BY <1>2, <1>3
<1> QED BY <1>2, <1>4 DEF U

\* What deleting a model leaves: its tombstone, its rules withdrawn, no pin on it.
LEMMA RemovedModel ==
  ASSUME NEW d \in Up!Stores, NEW m \in Models, NEW e, e = Up!ModelRemoved(d, m),
         None \notin Rules, None \notin Capabilities
  PROVE  /\ Elsewhere(d, e, {"rule", "cap", "model"})
         /\ e.rule = Up!Withdrawn(d, m) /\ e.cap = Up!Untested(d, m)
         /\ e.model[m].st = "dead" /\ e.model[m].ver = d.clock + 1
         /\ \A n \in Models \ {m} : e.model[n] = d.model[n]
<1>1. PICK W : W = Up!Withdrawn(d, m) OBVIOUS
<1>2. PICK U : U = Up!Untested(d, m) OBVIOUS
<1>3. W \in [Rules -> Up!RuleRow] /\ U \in [Capabilities -> Up!CapabilityRow]
  BY <1>1, <1>2, WithdrawnFacts, UntestedFacts
<1>4. PICK d1 : d1 = [d EXCEPT !.rule = W, !.cap = U] OBVIOUS
<1>5. d1 \in Up!Stores BY <1>3, <1>4 DEF Up!Stores
<1>6. /\ d1.rule = W /\ d1.cap = U /\ \A u \in Fields \ {"rule", "cap"} : d1[u] = d[u]
  BY <1>4 DEF Up!Stores, Fields
<1>7. d.model \in [Models -> Up!ModelRow] /\ d1.model = d.model /\ d1.clock = d.clock
  BY <1>6, StoreType DEF Fields
<1>8. PICK row : row = [d.model[m] EXCEPT !.st = "dead", !.on = FALSE] OBVIOUS
<1>9. row \in Up!ModelRow /\ row.st = "dead" BY <1>7, <1>8 DEF Up!ModelRow, Up!States
<1>10. e = Up!Put(d1, "model", m, row)
  BY <1>1, <1>2, <1>4, <1>7, <1>8 DEF Up!ModelRemoved, Up!Tombstone
<1>11. /\ Elsewhere(d1, e, {"model"})
       /\ e.model = [d1.model EXCEPT ![m] = [row EXCEPT !.ver = d1.clock + 1]]
  BY <1>5, <1>9, <1>10, Put_model
<1>12. /\ e.model[m].st = "dead" /\ e.model[m].ver = d.clock + 1
       /\ \A n \in Models \ {m} : e.model[n] = d.model[n]
  BY <1>7, <1>9, <1>11 DEF Up!ModelRow
<1>13. e.rule = W /\ e.cap = U BY <1>6, <1>11 DEF Elsewhere, Fields
<1>14. Elsewhere(d, e, {"rule", "cap", "model"}) BY <1>6, <1>11 DEF Elsewhere
<1> QED BY <1>1, <1>2, <1>12, <1>13, <1>14

\* Deleting a model keeps the invariant.
LEMMA ModelDeletion ==
  ASSUME Up!TopologyInv, MaxWrites \in Nat, None \notin Rules, None \notin Capabilities,
         NEW m \in Models, Up!DeleteModel(m)
  PROVE  Up!TopologyInv'
<1>1. PICK e : e = Up!ModelRemoved(store, m) OBVIOUS
<1>2. Up!Commit(e) BY <1>1 DEF Up!DeleteModel
<1>3. store \in Up!Stores BY InvFacts
<1>4. /\ Elsewhere(store, e, {"rule", "cap", "model"})
      /\ e.rule = Up!Withdrawn(store, m) /\ e.cap = Up!Untested(store, m)
      /\ e.model[m].st = "dead" /\ e.model[m].ver = store.clock + 1
      /\ \A n \in Models \ {m} : e.model[n] = store.model[n]
  BY <1>1, <1>3, RemovedModel
<1>5. /\ e \in Up!Stores /\ e.clock = store.clock /\ e.group = store.group /\ e.chan = store.chan
  BY <1>4 DEF Elsewhere, Fields
<1>6. \A r \in Rules :
        /\ e.rule[r].st = store.rule[r].st /\ e.rule[r].model = store.rule[r].model
        /\ store.rule[r].model # m => e.rule[r] = store.rule[r]
        /\ \/ e.rule[r] = store.rule[r] \/ e.rule[r].ver = store.clock + 1
           \/ e.rule[r].ver = store.rule[r].ver /\ store.rule[r].model = m
        /\ store.rule[r].model = m /\ store.rule[r].st = "live" =>
             ~e.rule[r].on /\ Up!CandidatesOf(e.rule[r]) = {}
  BY <1>3, <1>4, WithdrawnFacts
<1>7. \A p \in Capabilities : e.cap[p] = store.cap[p] \/ e.cap[p].ver = store.clock + 1
  BY <1>3, <1>4, UntestedFacts
<1>8. Moves(store, e)
  <2>1. \A n \in Models : e.model[n] = store.model[n] \/ e.model[n].ver = store.clock + 1 BY <1>4
  <2>2. \A n \in Models : store.model[n].st = "dead" => e.model[n].st = "dead" BY <1>4
  <2>3. \A r \in Rules :
          \/ e.rule[r] = store.rule[r] \/ e.rule[r].ver = store.clock + 1
          \/ e.rule[r].ver = store.rule[r].ver /\ e.model[store.rule[r].model].st = "dead"
    BY <1>4, <1>6
  <2> QED BY <1>4, <1>7, <2>1, <2>2, <2>3, TableNames DEF Moves, Elsewhere, Fields
<1>9. Up!Unpinned(e)
  <2> SUFFICES ASSUME NEW r \in Up!LiveOf(e, "rule"), e.model[e.rule[r].model].st = "dead"
               PROVE  ~e.rule[r].on /\ Up!CandidatesOf(e.rule[r]) = {}
    BY DEF Up!Unpinned
  <2>1. r \in Rules /\ e.rule[r].st = "live" BY TableNames DEF Up!LiveOf
  <2>2. CASE store.rule[r].model = m BY <1>6, <2>1, <2>2
  <2>3. CASE store.rule[r].model # m
    <3>1. e.rule[r] = store.rule[r] /\ store.rule[r].model \in Models
      BY <1>3, <1>6, <2>1, <2>3, StoreType DEF Up!RuleRow
    <3>2. r \in Up!LiveOf(store, "rule") /\ store.model[store.rule[r].model].st = "dead"
      BY <1>4, <2>1, <2>3, <3>1, TableNames DEF Up!LiveOf
    <3> QED BY <3>1, <3>2, InvFacts DEF Up!Unpinned
  <2> QED BY <2>2, <2>3
<1>10. Up!NamesApart(e) BY <1>5, InvFacts, SameNames
<1> QED BY <1>2, <1>5, <1>8, <1>9, <1>10, CommitSound

\* Creating, updating and repricing a model, and its routing profile.
LEMMA ModelSteps ==
  ASSUME Up!TopologyInv, MaxWrites \in Nat, NEW m \in Models,
         Up!CreateModel(m) \/ Up!UpdateModel(m) \/ Up!SyncModelPrice(m) \/ Up!CreateProfile(m)
  PROVE  Up!TopologyInv'
<1>0. store \in Up!Stores /\ store.model \in [Models -> Up!ModelRow] BY InvFacts, StoreType
<1>1. CASE Up!CreateModel(m)
  <2>1. Up!NewModel \in Up!ModelRow /\ Up!NewModel.st = "live"
    BY DEF Up!NewModel, Up!ModelRow, Up!States
  <2> QED BY <1>1, <2>1, Commit_model DEF Up!CreateModel
<1>2. CASE Up!UpdateModel(m)
  <2>1. PICK b \in Up!Bases("model", m) : Up!Current("model", m, b) /\
          Up!Commit(Up!Put(store, "model", m, [b EXCEPT !.on = ~@, !.profile = store.model[m].profile]))
    BY <1>2 DEF Up!UpdateModel
  <2>2. /\ b \in Up!ModelRow /\ store.model[m].st = "live"
        /\ store.model[m] = [b EXCEPT !.profile = store.model[m].profile]
    BY <2>1, BaseIs, TableNames
  <2>3. PICK row : row = [b EXCEPT !.on = ~@, !.profile = store.model[m].profile] OBVIOUS
  <2>4. row \in Up!ModelRow /\ row.st = "live" BY <1>0, <2>2, <2>3 DEF Up!ModelRow
  <2> QED BY <2>1, <2>2, <2>3, <2>4, Commit_model
<1>3. CASE Up!SyncModelPrice(m) BY <1>0, <1>3, Commit_model DEF Up!SyncModelPrice, Up!Live
<1>4. CASE Up!CreateProfile(m)
  <2>1. PICK f : f = [store.model EXCEPT ![m].profile = TRUE] OBVIOUS
  <2>2. /\ f \in [Models -> Up!ModelRow] /\ \A n \in Models : f[n].st = store.model[n].st
        /\ \A n \in Models : f[n] = store.model[n] \/ f[n] = [store.model[n] EXCEPT !.profile = TRUE]
    <3>1. PICK row : row = [store.model[m] EXCEPT !.profile = TRUE] OBVIOUS
    <3>2. row \in Up!ModelRow /\ row.st = store.model[m].st BY <1>0, <3>1 DEF Up!ModelRow
    <3>3. f = [store.model EXCEPT ![m] = row] BY <1>0, <2>1, <3>1
    <3> QED BY <1>0, <3>1, <3>2, <3>3
  <2>3. PICK e : e = [store EXCEPT !["model"] = f] OBVIOUS
  <2>4. Up!Commit(e) BY <1>0, <1>4, <2>1, <2>3 DEF Up!CreateProfile, Up!Stores
  <2>5. e \in Up!Stores BY <1>0, <2>2, <2>3 DEF Up!Stores
  <2>6. e.model = f BY <1>0, <2>3 DEF Up!Stores
  <2>7. \A u \in Fields \ {"model"} : e[u] = store[u] BY <1>0, <2>3 DEF Up!Stores, Fields
  <2>8. e.clock = store.clock /\ e.group = store.group /\ e.chan = store.chan /\ e.rule = store.rule
    BY <2>7 DEF Fields
  <2>9. Moves(store, e) BY <2>2, <2>6, <2>7, <2>8, TableNames DEF Moves, Fields
  <2>10. \A r \in Up!LiveOf(e, "rule") : r \in Up!LiveOf(store, "rule") /\ store.rule[r].model \in Models
    BY <1>0, <2>8, StoreType, TableNames DEF Up!LiveOf, Up!RuleRow
  <2>11. Up!Unpinned(e) BY <2>2, <2>6, <2>8, <2>10, InvFacts DEF Up!Unpinned
  <2>12. Up!NamesApart(e) BY <2>8, InvFacts, SameNames
  <2> QED BY <2>4, <2>5, <2>8, <2>9, <2>11, <2>12, CommitSound
<1> QED BY <1>1, <1>2, <1>3, <1>4

\* Creating and updating an operation rule.
LEMMA RuleSteps ==
  ASSUME Up!TopologyInv, MaxWrites \in Nat, NEW r \in Rules, Up!CreateRule(r) \/ Up!UpdateRule(r)
  PROVE  Up!TopologyInv'
<1>0. Up!RuleTiers \subseteq [Priorities -> SUBSET Up!Candidates] BY DEF Up!RuleTiers
<1>1. CASE Up!CreateRule(r)
  <2>1. PICK m \in Models, op \in Operations, tiers \in Up!RuleTiers :
          LET row == [st |-> "live", model |-> m, op |-> op,
                      on |-> \E q \in Priorities : tiers[q] # {},
                      tiers |-> tiers, ver |-> 0] IN
          Up!RuleAccepts(store, row) /\ Up!Commit(Up!Put(store, "rule", r, row))
    BY <1>1 DEF Up!CreateRule
  <2>2. PICK b \in BOOLEAN : b = (\E q \in Priorities : tiers[q] # {}) OBVIOUS
  <2>3. PICK row : row = [st |-> "live", model |-> m, op |-> op, on |-> b,
                          tiers |-> tiers, ver |-> 0]
    OBVIOUS
  <2>4. Up!RuleAccepts(store, row) /\ Up!Commit(Up!Put(store, "rule", r, row))
    BY <2>1, <2>2, <2>3, Zenon
  <2>5. row \in Up!RuleRow BY <1>0, <2>3 DEF Up!RuleRow, Up!States
  <2>6. store.model[row.model].st = "live" BY <2>4 DEF Up!RuleAccepts, Up!Live
  <2> QED BY <2>4, <2>5, <2>6, Commit_rule
<1>2. CASE Up!UpdateRule(r)
  <2>1. PICK b \in Up!Bases("rule", r) : Up!Current("rule", r, b) /\
          \E row \in Up!RuleForms(b) \ {b} :
             Up!RuleAccepts(store, row) /\ Up!Commit(Up!Put(store, "rule", r, row))
    BY <1>2 DEF Up!UpdateRule
  <2>2. b \in Up!RuleRow BY <2>1, BaseIs, TableNames
  <2>3. PICK row \in Up!RuleForms(b) : Up!RuleAccepts(store, row) /\ Up!Commit(Up!Put(store, "rule", r, row))
    BY <2>1
  <2>4. row \in Up!RuleRow BY <1>0, <2>2, <2>3 DEF Up!RuleForms, Up!RuleRow
  <2>5. store.model[row.model].st = "live" BY <2>3 DEF Up!RuleAccepts, Up!Live
  <2> QED BY <2>3, <2>4, <2>5, Commit_rule
<1> QED BY <1>1, <1>2

\* The settings have no stamp of their own.
LEMMA SettingsStep ==
  ASSUME Up!TopologyInv, MaxWrites \in Nat, Up!UpdateSettings PROVE Up!TopologyInv'
<1>0. store \in Up!Stores /\ store.clock + 1 \in Nat BY InvFacts, StoreType
<1>1. PICK x \in BOOLEAN, y \in BOOLEAN :
        Up!Commit([store EXCEPT !.settings = [disable |-> x, recover |-> y, ver |-> store.clock + 1]])
  BY DEF Up!UpdateSettings
<1>2. PICK row : row = [disable |-> x, recover |-> y, ver |-> store.clock + 1] OBVIOUS
<1>3. row \in Up!SettingsRow BY <1>0, <1>2 DEF Up!SettingsRow
<1>4. PICK e : e = [store EXCEPT !.settings = row] OBVIOUS
<1>5. Up!Commit(e) BY <1>1, <1>2, <1>4
<1>6. e \in Up!Stores BY <1>0, <1>3, <1>4 DEF Up!Stores
<1>7. \A u \in Fields \ {"settings"} : e[u] = store[u] BY <1>0, <1>4 DEF Up!Stores, Fields
<1>8. /\ e.clock = store.clock /\ e.group = store.group /\ e.chan = store.chan /\ e.rule = store.rule
      /\ e.model = store.model
  BY <1>7 DEF Fields
<1>9. Moves(store, e) BY <1>7, <1>8, TableNames DEF Moves, Fields
<1>10. Up!Unpinned(e) /\ Up!NamesApart(e) BY <1>8, InvFacts, SamePins, SameNames
<1> QED BY <1>5, <1>6, <1>8, <1>9, <1>10, CommitSound

\* A form is opened on the stored row.
LEMMA ReadStep ==
  ASSUME Up!TopologyInv, NEW t \in DOMAIN Up!Tables, NEW x \in Up!Tables[t], Up!Read(t, x)
  PROVE  Up!TopologyInv'
<1>1. store' = store /\ opened' = [table |-> t, id |-> x, row |-> store[t][x]] BY DEF Up!Read
<1>2. store \in Up!Stores /\ store[t][x].ver <= store.clock BY InvFacts DEF Up!StampsPast
<1>3. store[t][x].ver \in Nat
  BY <1>2, TableNames DEF Up!Stores, Up!GroupRow, Up!AccessRow, Up!CredentialRow, Up!ChannelRow,
    Up!CapabilityRow, Up!SwitchRow, Up!ModelRow, Up!RuleRow
<1>4. /\ t = "model" => store[t][x] \in Up!ModelRow
      /\ t = "rule" => store[t][x] \in Up!RuleRow
  BY <1>2, StoreType, TableNames
<1>5. t = "model" => store.model[x] = [store[t][x] EXCEPT !.profile = store.model[x].profile]
  BY <1>4 DEF Up!ModelRow
<1>6. Up!SoundStore(store)' BY <1>1, InvFacts DEF Up!SoundStore, Up!TopologyInv
<1>7. Up!FormFits' BY <1>1, <1>2, <1>3, <1>4, <1>5 DEF Up!FormFits, Up!Shown
<1> QED BY <1>6, <1>7 DEF Up!TopologyInv

\* A store compiles after a removal when every row that is still live resolved
\* before and refers to nothing that was removed.
LEMMA StillCompiles ==
  ASSUME NEW d \in Up!Stores, NEW e \in Up!Stores, Up!Compiles(d),
         e.access = d.access, e.template = d.template,
         \A a \in Up!LiveOf(d, "access") :
           Up!Enabled(d, "proxy", d.access[a].proxy) => Up!Enabled(e, "proxy", d.access[a].proxy),
         \A c \in Up!LiveOf(e, "chan") :
           /\ c \in Up!LiveOf(d, "chan") /\ e.chan[c] = d.chan[c]
           /\ Up!Live(d, "group", d.chan[c].group) => Up!Live(e, "group", d.chan[c].group)
           /\ d.chan[c].cred # None => e.cred[d.chan[c].cred] = d.cred[d.chan[c].cred],
         \A p \in Up!LiveOf(e, "cap") :
           /\ p \in Up!LiveOf(d, "cap") /\ e.cap[p].chan = d.cap[p].chan
           /\ e.cap[p].op = d.cap[p].op /\ e.cap[p].models = d.cap[p].models
           /\ e.cap[p].template = d.cap[p].template
           /\ e.cap[p].test # None => /\ e.cap[p].test = d.cap[p].test
                                      /\ Up!Live(d, "model", d.cap[p].test[2])
                                           => Up!Live(e, "model", d.cap[p].test[2])
           /\ d.cap[p].chan \in Up!LiveOf(d, "chan") => d.cap[p].chan \in Up!LiveOf(e, "chan"),
         \A r \in Up!LiveOf(e, "rule") :
           /\ r \in Up!LiveOf(d, "rule") /\ e.rule[r].model = d.rule[r].model
           /\ e.rule[r].op = d.rule[r].op
           /\ Up!Live(e, "model", d.rule[r].model) =>
                /\ Up!Live(d, "model", d.rule[r].model)
                /\ Up!CandidatesOf(e.rule[r]) \subseteq Up!CandidatesOf(d.rule[r])
                /\ \A c \in Up!CandidatesOf(e.rule[r]) :
                     Up!Live(d, "cap", c[1]) =>
                       Up!Live(e, "cap", c[1]) /\ e.cap[c[1]].op = d.cap[c[1]].op
                /\ e.rule[r].on => \/ Up!TiersUsed(e.rule[r]) # {}
                                   \/ e.rule[r] = d.rule[r]
  PROVE  Up!Compiles(e)
<1>1. \A a \in Up!LiveOf(e, "access") : Up!AccessValid(e, a)
  BY DEF Up!Compiles, Up!ResolveRuntime, Up!AccessValid, Up!LiveOf
<1>2. \A x : Up!Live(e, "access", x) <=> Up!Live(d, "access", x) BY DEF Up!Live
<1>3. ASSUME NEW c \in Up!LiveOf(e, "chan") PROVE Up!ChannelValid(e, c)
  <2>1. Up!ChannelValid(d, c) /\ e.chan[c] = d.chan[c] BY <1>3 DEF Up!Compiles, Up!ResolveRuntime
  <2>2. /\ Up!Live(d, "access", d.chan[c].access) /\ Up!Live(d, "group", d.chan[c].group)
        /\ Up!CredentialResolves(d, d.chan[c].access, d.chan[c].cred)
    BY <2>1 DEF Up!ChannelValid
  <2>3. Up!Live(e, "access", d.chan[c].access) /\ Up!Live(e, "group", d.chan[c].group)
    BY <1>2, <1>3, <2>2
  <2>4. Up!CredentialResolves(e, d.chan[c].access, d.chan[c].cred)
    <3>1. d.chan[c].cred # None => e.cred[d.chan[c].cred] = d.cred[d.chan[c].cred] BY <1>3
    <3> QED BY <2>2, <3>1 DEF Up!CredentialResolves, Up!Live
  <2> QED BY <2>1, <2>3, <2>4 DEF Up!ChannelValid
<1>4. ASSUME NEW p \in Up!LiveOf(e, "cap")
      PROVE  Up!CapabilityValid(e, p) /\ Up!ResourcesValid(e, p) /\ Up!TestModelValid(e, p)
  <2>1. /\ p \in Up!LiveOf(d, "cap") /\ e.cap[p].chan = d.cap[p].chan
        /\ e.cap[p].op = d.cap[p].op /\ e.cap[p].models = d.cap[p].models
        /\ e.cap[p].template = d.cap[p].template
        /\ e.cap[p].test # None => /\ e.cap[p].test = d.cap[p].test
                                   /\ Up!Live(d, "model", d.cap[p].test[2])
                                        => Up!Live(e, "model", d.cap[p].test[2])
    BY <1>4
  <2>2. Up!CapabilityValid(d, p) /\ Up!ResourcesValid(d, p) /\ Up!TestModelValid(d, p)
    BY <2>1 DEF Up!Compiles, Up!ResolveRuntime
  <2>3. /\ Up!Live(d, "chan", d.cap[p].chan)
        /\ Up!SettingsValid(d.cap[p], d.access[d.chan[d.cap[p].chan].access].conn)
    BY <2>2 DEF Up!CapabilityValid
  <2>4. p \in Capabilities /\ d.cap[p].chan \in Channels
    BY <2>1, StoreType, TableNames DEF Up!LiveOf, Up!CapabilityRow
  <2>5. d.cap[p].chan \in Up!LiveOf(d, "chan") BY <2>3, <2>4, TableNames DEF Up!Live, Up!LiveOf
  <2>6. d.cap[p].chan \in Up!LiveOf(e, "chan") BY <1>4, <2>5
  <2>7. Up!ChannelValid(e, d.cap[p].chan) /\ e.chan[d.cap[p].chan] = d.chan[d.cap[p].chan]
    BY <1>3, <2>6
  <2>8. Up!Live(e, "chan", d.cap[p].chan) BY <2>3, <2>6 DEF Up!Live, Up!LiveOf
  <2>9. Up!SettingsValid(e.cap[p], d.access[d.chan[d.cap[p].chan].access].conn)
    BY <2>1, <2>3 DEF Up!SettingsValid
  <2>10. Up!CapabilityValid(e, p) BY <2>1, <2>7, <2>8, <2>9 DEF Up!CapabilityValid
  <2>11. Up!ResourcesValid(e, p) BY <2>1, <2>2 DEF Up!ResourcesValid, Up!Enabled, Up!Live
  <2>12. Up!TestModelValid(e, p) BY <2>1, <2>2 DEF Up!TestModelValid
  <2> QED BY <2>10, <2>11, <2>12
<1>5. ASSUME NEW r \in Up!LiveOf(e, "rule") PROVE Up!RuleResolves(e, r) /\ Up!RuleValid(e, r)
  <2>1. Up!RuleResolves(d, r) /\ Up!RuleValid(d, r) BY <1>5 DEF Up!Compiles, Up!ResolveRuntime
  <2>2. e.rule[r].model = d.rule[r].model /\ e.rule[r].op = d.rule[r].op BY <1>5
  <2>3. ASSUME Up!Live(e, "model", d.rule[r].model)
        PROVE  /\ Up!Live(d, "model", d.rule[r].model)
               /\ Up!CandidatesOf(e.rule[r]) \subseteq Up!CandidatesOf(d.rule[r])
               /\ \A c \in Up!CandidatesOf(e.rule[r]) :
                    Up!Live(d, "cap", c[1]) =>
                      Up!Live(e, "cap", c[1]) /\ e.cap[c[1]].op = d.cap[c[1]].op
               /\ e.rule[r].on => Up!TiersUsed(e.rule[r]) # {} \/ e.rule[r] = d.rule[r]
    BY <1>5, <2>3
  <2>4. Up!RuleResolves(e, r) BY <2>1, <2>2, <2>3 DEF Up!RuleResolves
  <2>5. Up!RuleValid(e, r) BY <2>1, <2>2, <2>3 DEF Up!RuleValid
  <2> QED BY <2>4, <2>5
<1> QED BY <1>1, <1>3, <1>4, <1>5 DEF Up!Compiles, Up!ResolveRuntime

\* A group without live channels can go.
LEMMA GroupDeletes ==
  ASSUME NEW d \in Up!Stores, Up!Compiles(d), NEW g \in Groups, Up!GroupDeletable(d, g)
  PROVE  Up!Compiles(Up!Tombstone(d, "group", g))
<1>1. PICK row : row = [d.group[g] EXCEPT !.st = "dead", !.on = FALSE] OBVIOUS
<1>2. row \in Up!GroupRow /\ row.st = "dead"
  <2>1. d.group[g] \in Up!GroupRow BY StoreType
  <2> QED BY <1>1, <2>1 DEF Up!GroupRow, Up!States
<1>3. PICK e : e = Up!Put(d, "group", g, row) OBVIOUS
<1>4. /\ Elsewhere(d, e, {"group"})
      /\ e.group = [d.group EXCEPT ![g] = [row EXCEPT !.ver = d.clock + 1]]
  BY <1>2, <1>3, Put_group
<1>5. \A u \in Fields \ {"group"} : e[u] = d[u] BY <1>4 DEF Elsewhere
<1>6. /\ e.group[g].st = "dead" /\ \A y \in Groups \ {g} : e.group[y] = d.group[y]
  BY <1>2, <1>4, StoreType DEF Up!GroupRow
<1>7. /\ e \in Up!Stores /\ e.access = d.access /\ e.cred = d.cred /\ e.chan = d.chan /\ e.cap = d.cap
      /\ e.model = d.model /\ e.rule = d.rule /\ e.proxy = d.proxy /\ e.template = d.template
  BY <1>4, <1>5 DEF Elsewhere, Fields
<1>8. \A u \in Fields \ {"group"} : \A y :
        (Up!Live(e, u, y) <=> Up!Live(d, u, y)) /\ (Up!Enabled(e, u, y) <=> Up!Enabled(d, u, y))
  BY <1>5 DEF Up!Live, Up!Enabled
<1>9. \A u \in (DOMAIN Up!Tables) \ {"group"} : Up!LiveOf(e, u) = Up!LiveOf(d, u)
  BY <1>5, TableNames DEF Up!LiveOf, Fields
<1>10. \A c \in Up!LiveOf(d, "chan") :
         Up!Live(d, "group", d.chan[c].group) => Up!Live(e, "group", d.chan[c].group)
  <2> SUFFICES ASSUME NEW c \in Up!LiveOf(d, "chan"), Up!Live(d, "group", d.chan[c].group)
               PROVE  Up!Live(e, "group", d.chan[c].group)
    OBVIOUS
  <2>1. d.chan[c].group # g BY DEF Up!GroupDeletable
  <2>2. d.chan[c].group \in Groups BY StoreType, TableNames DEF Up!LiveOf, Up!ChannelRow
  <2> QED BY <1>6, <2>1, <2>2 DEF Up!Live
<1>20. Up!Compiles(e) BY <1>7, <1>8, <1>9, <1>10, TableNames, StillCompiles DEF Fields
<1> QED BY <1>1, <1>3, <1>20 DEF Up!Tombstone

\* A channel without live capabilities can go.
LEMMA ChannelDeletes ==
  ASSUME NEW d \in Up!Stores, Up!Compiles(d), NEW c \in Channels, Up!ChannelDeletable(d, c)
  PROVE  Up!Compiles(Up!Tombstone(d, "chan", c))
<1>1. PICK row : row = [d.chan[c] EXCEPT !.st = "dead", !.on = FALSE] OBVIOUS
<1>2. row \in Up!ChannelRow /\ row.st = "dead"
  <2>1. d.chan[c] \in Up!ChannelRow BY StoreType
  <2> QED BY <1>1, <2>1 DEF Up!ChannelRow, Up!States
<1>3. PICK e : e = Up!Put(d, "chan", c, row) OBVIOUS
<1>4. /\ Elsewhere(d, e, {"chan"})
      /\ e.chan = [d.chan EXCEPT ![c] = [row EXCEPT !.ver = d.clock + 1]]
  BY <1>2, <1>3, Put_chan
<1>5. \A u \in Fields \ {"chan"} : e[u] = d[u] BY <1>4 DEF Elsewhere
<1>6. /\ e.chan[c].st = "dead" /\ \A y \in Channels \ {c} : e.chan[y] = d.chan[y]
  BY <1>2, <1>4, StoreType DEF Up!ChannelRow
<1>7. /\ e \in Up!Stores /\ e.group = d.group /\ e.access = d.access /\ e.cred = d.cred /\ e.cap = d.cap
      /\ e.model = d.model /\ e.rule = d.rule /\ e.proxy = d.proxy /\ e.template = d.template
  BY <1>4, <1>5 DEF Elsewhere, Fields
<1>8. \A u \in Fields \ {"chan"} : \A y :
        (Up!Live(e, u, y) <=> Up!Live(d, u, y)) /\ (Up!Enabled(e, u, y) <=> Up!Enabled(d, u, y))
  BY <1>5 DEF Up!Live, Up!Enabled
<1>9. \A u \in (DOMAIN Up!Tables) \ {"chan"} : Up!LiveOf(e, u) = Up!LiveOf(d, u)
  BY <1>5, TableNames DEF Up!LiveOf, Fields
<1>10. /\ \A y \in Up!LiveOf(e, "chan") : y \in Up!LiveOf(d, "chan") /\ e.chan[y] = d.chan[y]
       /\ \A p \in Up!LiveOf(d, "cap") :
            d.cap[p].chan \in Up!LiveOf(d, "chan") => d.cap[p].chan \in Up!LiveOf(e, "chan")
  BY <1>6, TableNames DEF Up!LiveOf, Up!ChannelDeletable
<1>20. Up!Compiles(e) BY <1>7, <1>8, <1>9, <1>10, TableNames, StillCompiles DEF Fields
<1> QED BY <1>1, <1>3, <1>20 DEF Up!Tombstone

\* A credential that no live channel uses can go.
LEMMA CredentialDeletes ==
  ASSUME NEW d \in Up!Stores, Up!Compiles(d), NEW k \in Credentials, Up!CredentialDeletable(d, k)
  PROVE  Up!Compiles(Up!Tombstone(d, "cred", k))
<1>1. PICK row : row = [d.cred[k] EXCEPT !.st = "dead", !.on = FALSE] OBVIOUS
<1>2. row \in Up!CredentialRow /\ row.st = "dead"
  <2>1. d.cred[k] \in Up!CredentialRow BY StoreType
  <2> QED BY <1>1, <2>1 DEF Up!CredentialRow, Up!States
<1>3. PICK e : e = Up!Put(d, "cred", k, row) OBVIOUS
<1>4. /\ Elsewhere(d, e, {"cred"})
      /\ e.cred = [d.cred EXCEPT ![k] = [row EXCEPT !.ver = d.clock + 1]]
  BY <1>2, <1>3, Put_cred
<1>5. \A u \in Fields \ {"cred"} : e[u] = d[u] BY <1>4 DEF Elsewhere
<1>6. /\ e.cred[k].st = "dead" /\ \A y \in Credentials \ {k} : e.cred[y] = d.cred[y]
  BY <1>2, <1>4, StoreType DEF Up!CredentialRow
<1>7. /\ e \in Up!Stores /\ e.group = d.group /\ e.access = d.access /\ e.chan = d.chan /\ e.cap = d.cap
      /\ e.model = d.model /\ e.rule = d.rule /\ e.proxy = d.proxy /\ e.template = d.template
  BY <1>4, <1>5 DEF Elsewhere, Fields
<1>8. \A u \in Fields \ {"cred"} : \A y :
        (Up!Live(e, u, y) <=> Up!Live(d, u, y)) /\ (Up!Enabled(e, u, y) <=> Up!Enabled(d, u, y))
  BY <1>5 DEF Up!Live, Up!Enabled
<1>9. \A u \in (DOMAIN Up!Tables) \ {"cred"} : Up!LiveOf(e, u) = Up!LiveOf(d, u)
  BY <1>5, TableNames DEF Up!LiveOf, Fields
<1>10. \A c \in Up!LiveOf(d, "chan") :
         d.chan[c].cred # None => e.cred[d.chan[c].cred] = d.cred[d.chan[c].cred]
  <2> SUFFICES ASSUME NEW c \in Up!LiveOf(d, "chan"), d.chan[c].cred # None
               PROVE  e.cred[d.chan[c].cred] = d.cred[d.chan[c].cred]
    OBVIOUS
  <2>1. d.chan[c].cred # k BY DEF Up!CredentialDeletable
  <2>2. d.chan[c].cred \in Credentials BY StoreType, TableNames DEF Up!LiveOf, Up!ChannelRow
  <2> QED BY <1>6, <2>1, <2>2
<1>20. Up!Compiles(e) BY <1>7, <1>8, <1>9, <1>10, TableNames, StillCompiles DEF Fields
<1> QED BY <1>1, <1>3, <1>20 DEF Up!Tombstone

\* A proxy that no live access uses can go.
LEMMA ProxyDeletes ==
  ASSUME NEW d \in Up!Stores, Up!Compiles(d), NEW x \in Proxies, Up!ProxyDeletable(d, x)
  PROVE  Up!Compiles(Up!Tombstone(d, "proxy", x))
<1>1. PICK row : row = [d.proxy[x] EXCEPT !.st = "dead", !.on = FALSE] OBVIOUS
<1>2. row \in Up!SwitchRow /\ row.st = "dead"
  <2>1. d.proxy[x] \in Up!SwitchRow BY StoreType
  <2> QED BY <1>1, <2>1 DEF Up!SwitchRow, Up!States
<1>3. PICK e : e = Up!Put(d, "proxy", x, row) OBVIOUS
<1>4. /\ Elsewhere(d, e, {"proxy"})
      /\ e.proxy = [d.proxy EXCEPT ![x] = [row EXCEPT !.ver = d.clock + 1]]
  BY <1>2, <1>3, Put_proxy
<1>5. \A u \in Fields \ {"proxy"} : e[u] = d[u] BY <1>4 DEF Elsewhere
<1>6. /\ e.proxy[x].st = "dead" /\ \A y \in Proxies \ {x} : e.proxy[y] = d.proxy[y]
  BY <1>2, <1>4, StoreType DEF Up!SwitchRow
<1>7. /\ e \in Up!Stores /\ e.group = d.group /\ e.access = d.access /\ e.cred = d.cred /\ e.chan = d.chan
      /\ e.cap = d.cap /\ e.model = d.model /\ e.rule = d.rule /\ e.template = d.template
  BY <1>4, <1>5 DEF Elsewhere, Fields
<1>8. \A u \in Fields \ {"proxy"} : \A y :
        (Up!Live(e, u, y) <=> Up!Live(d, u, y)) /\ (Up!Enabled(e, u, y) <=> Up!Enabled(d, u, y))
  BY <1>5 DEF Up!Live, Up!Enabled
<1>9. \A u \in (DOMAIN Up!Tables) \ {"proxy"} : Up!LiveOf(e, u) = Up!LiveOf(d, u)
  BY <1>5, TableNames DEF Up!LiveOf, Fields
<1>10. \A a \in Up!LiveOf(d, "access") :
         Up!Enabled(d, "proxy", d.access[a].proxy) => Up!Enabled(e, "proxy", d.access[a].proxy)
  <2> SUFFICES ASSUME NEW a \in Up!LiveOf(d, "access"), Up!Enabled(d, "proxy", d.access[a].proxy)
               PROVE  Up!Enabled(e, "proxy", d.access[a].proxy)
    OBVIOUS
  <2>1. d.access[a].proxy # x BY DEF Up!ProxyDeletable
  <2>2. d.access[a].proxy \in Proxies
    BY StoreType, TableNames DEF Up!LiveOf, Up!AccessRow, Up!Enabled, Up!Live
  <2> QED BY <1>6, <2>1, <2>2 DEF Up!Enabled, Up!Live
<1>20. Up!Compiles(e) BY <1>7, <1>8, <1>9, <1>10, TableNames, StillCompiles DEF Fields
<1> QED BY <1>1, <1>3, <1>20 DEF Up!Tombstone

\* A capability that was detached can go.
LEMMA CapabilityDeletes ==
  ASSUME NEW d \in Up!Stores, Up!Compiles(d), NEW p \in Up!LiveOf(d, "cap")
  PROVE  Up!Compiles(Up!CapabilityRemoved(d, p))
<1>0. p \in Capabilities BY TableNames DEF Up!LiveOf
<1>1. PICK e : e = Up!CapabilityRemoved(d, p) OBVIOUS
<1>2. /\ Elsewhere(d, e, {"rule", "cap"}) /\ e.cap[p].st = "dead"
      /\ e.rule = Up!Detach(d, p).rule
      /\ \A q \in Capabilities \ {p} : e.cap[q] = d.cap[q]
  BY <1>0, <1>1, RemovedCapability
<1>3. /\ \A r \in Rules \ Up!Affected(d, p) : e.rule[r] = d.rule[r]
      /\ \A r \in Up!Affected(d, p) :
           /\ r \in Rules /\ e.rule[r].st = d.rule[r].st /\ e.rule[r].model = d.rule[r].model
           /\ e.rule[r].op = d.rule[r].op
           /\ e.rule[r].tiers = Up!Without(d.rule[r].tiers, p)
           /\ e.rule[r].on => \E q \in Priorities : Up!Without(d.rule[r].tiers, p)[q] # {}
  BY <1>0, <1>2, DetachFacts
<1>4. \A u \in Fields \ {"rule", "cap"} : e[u] = d[u] BY <1>2 DEF Elsewhere
<1>5. /\ e \in Up!Stores /\ e.group = d.group /\ e.access = d.access /\ e.cred = d.cred
      /\ e.chan = d.chan /\ e.model = d.model /\ e.proxy = d.proxy /\ e.template = d.template
  BY <1>2, <1>4 DEF Elsewhere, Fields
<1>6. \A u \in Fields \ {"rule", "cap"} : \A y :
        (Up!Live(e, u, y) <=> Up!Live(d, u, y)) /\ (Up!Enabled(e, u, y) <=> Up!Enabled(d, u, y))
  BY <1>4 DEF Up!Live, Up!Enabled
<1>7. \A u \in (DOMAIN Up!Tables) \ {"rule", "cap"} : Up!LiveOf(e, u) = Up!LiveOf(d, u)
  BY <1>4, TableNames DEF Up!LiveOf, Fields
<1>8. \A q \in Up!LiveOf(e, "cap") : q \in Up!LiveOf(d, "cap") /\ e.cap[q] = d.cap[q]
  BY <1>2, TableNames DEF Up!LiveOf
<1>9. ASSUME NEW r \in Up!LiveOf(e, "rule")
      PROVE  /\ r \in Up!LiveOf(d, "rule") /\ e.rule[r].model = d.rule[r].model
             /\ e.rule[r].op = d.rule[r].op
             /\ Up!CandidatesOf(e.rule[r]) \subseteq Up!CandidatesOf(d.rule[r])
             /\ \A c \in Up!CandidatesOf(e.rule[r]) : c[1] # p /\ c[1] \in Capabilities
             /\ e.rule[r].on => Up!TiersUsed(e.rule[r]) # {} \/ e.rule[r] = d.rule[r]
  <2>0. r \in Rules /\ e.rule[r].st = "live" BY TableNames DEF Up!LiveOf
  <2>1. \A c \in Up!CandidatesOf(d.rule[r]) : c[1] \in Capabilities
    <3>1. d.rule[r].tiers \in [Priorities -> SUBSET Up!Candidates]
      BY <2>0, StoreType DEF Up!RuleRow
    <3> QED BY <3>1 DEF Up!CandidatesOf, Up!Candidates
  <2>2. CASE r \in Up!Affected(d, p)
    <3>1. \A q \in Priorities : /\ e.rule[r].tiers[q] \subseteq d.rule[r].tiers[q]
                                /\ \A c \in e.rule[r].tiers[q] : c[1] # p
      <4>1. PICK w : w = [q \in Priorities |-> {c \in d.rule[r].tiers[q] : c[1] # p}] OBVIOUS
      <4>2. e.rule[r].tiers = w BY <1>3, <2>2, <4>1 DEF Up!Without
      <4> QED BY <4>1, <4>2
    <3>2. /\ Up!CandidatesOf(e.rule[r]) \subseteq Up!CandidatesOf(d.rule[r])
          /\ \A c \in Up!CandidatesOf(e.rule[r]) : c[1] # p
      BY <3>1 DEF Up!CandidatesOf
    <3>3. e.rule[r].on => Up!TiersUsed(e.rule[r]) # {} BY <1>3, <2>2 DEF Up!TiersUsed
    <3>4. r \in Up!LiveOf(d, "rule") BY <2>2 DEF Up!Affected
    <3> QED BY <1>3, <2>1, <2>2, <3>2, <3>3, <3>4
  <2>3. CASE r \notin Up!Affected(d, p)
    <3>1. e.rule[r] = d.rule[r] BY <1>3, <2>0, <2>3
    <3>2. r \in Up!LiveOf(d, "rule") BY <2>0, <3>1, TableNames DEF Up!LiveOf
    <3>3. \A c \in Up!CandidatesOf(d.rule[r]) : c[1] # p BY <2>3, <3>2 DEF Up!Affected
    <3> QED BY <2>1, <3>1, <3>2, <3>3
  <2> QED BY <2>2, <2>3
<1>10. \A x \in Capabilities \ {p} : Up!Live(d, "cap", x) => Up!Live(e, "cap", x)
  BY <1>2 DEF Up!Live
<1>11. \A r \in Up!LiveOf(e, "rule") : \A c \in Up!CandidatesOf(e.rule[r]) :
         Up!Live(d, "cap", c[1]) => Up!Live(e, "cap", c[1]) /\ e.cap[c[1]].op = d.cap[c[1]].op
  BY <1>2, <1>9, <1>10
<1>12. \A r \in Up!LiveOf(e, "rule") :
         /\ r \in Up!LiveOf(d, "rule") /\ e.rule[r].model = d.rule[r].model
         /\ e.rule[r].op = d.rule[r].op
         /\ Up!Live(e, "model", d.rule[r].model) =>
              /\ Up!Live(d, "model", d.rule[r].model)
              /\ Up!CandidatesOf(e.rule[r]) \subseteq Up!CandidatesOf(d.rule[r])
              /\ \A c \in Up!CandidatesOf(e.rule[r]) :
                   Up!Live(d, "cap", c[1]) =>
                     Up!Live(e, "cap", c[1]) /\ e.cap[c[1]].op = d.cap[c[1]].op
              /\ e.rule[r].on => \/ Up!TiersUsed(e.rule[r]) # {}
                                 \/ e.rule[r] = d.rule[r]
  BY <1>6, <1>9, <1>11 DEF Fields
<1>13. \A q \in Up!LiveOf(e, "cap") :
         /\ q \in Up!LiveOf(d, "cap") /\ e.cap[q] = d.cap[q]
         /\ \A x : Up!Live(d, "model", x) => Up!Live(e, "model", x)
         /\ d.cap[q].chan \in Up!LiveOf(d, "chan") => d.cap[q].chan \in Up!LiveOf(e, "chan")
  BY <1>6, <1>7, <1>8, TableNames DEF Fields
<1>14. /\ \A c \in Up!LiveOf(e, "chan") :
            /\ c \in Up!LiveOf(d, "chan") /\ e.chan[c] = d.chan[c]
            /\ Up!Live(d, "group", d.chan[c].group) => Up!Live(e, "group", d.chan[c].group)
            /\ e.cred[d.chan[c].cred] = d.cred[d.chan[c].cred]
       /\ \A a \in Up!LiveOf(d, "access") :
            Up!Enabled(d, "proxy", d.access[a].proxy) => Up!Enabled(e, "proxy", d.access[a].proxy)
  BY <1>5, <1>6, <1>7, TableNames DEF Fields
<1>15. Up!Compiles(e) BY <1>5, <1>12, <1>13, <1>14, StillCompiles
<1> QED BY <1>1, <1>15

\* A model whose rules and tests were withdrawn can go.
LEMMA ModelDeletes ==
  ASSUME NEW d \in Up!Stores, Up!Compiles(d), NEW m \in Up!LiveOf(d, "model"),
         None \notin Rules, None \notin Capabilities
  PROVE  Up!Compiles(Up!ModelRemoved(d, m))
<1>0. m \in Models BY TableNames DEF Up!LiveOf
<1>1. PICK e : e = Up!ModelRemoved(d, m) OBVIOUS
<1>2. /\ Elsewhere(d, e, {"rule", "cap", "model"})
      /\ e.rule = Up!Withdrawn(d, m) /\ e.cap = Up!Untested(d, m) /\ e.model[m].st = "dead"
      /\ \A n \in Models \ {m} : e.model[n] = d.model[n]
  BY <1>0, <1>1, RemovedModel
<1>3. \A r \in Rules :
        /\ e.rule[r].st = d.rule[r].st /\ e.rule[r].model = d.rule[r].model
        /\ e.rule[r].op = d.rule[r].op
        /\ d.rule[r].model # m => e.rule[r] = d.rule[r]
  BY <1>0, <1>2, WithdrawnFacts
<1>4. \A p \in Capabilities :
        /\ e.cap[p].st = d.cap[p].st /\ e.cap[p].op = d.cap[p].op
        /\ e.cap[p].chan = d.cap[p].chan /\ e.cap[p].models = d.cap[p].models
        /\ e.cap[p].template = d.cap[p].template
        /\ e.cap[p].test # None => e.cap[p].test = d.cap[p].test
        /\ e.cap[p].test # None /\ d.cap[p].st = "live" => e.cap[p].test[2] # m
  BY <1>0, <1>2, UntestedFacts
<1>5. \A u \in Fields \ {"rule", "cap", "model"} : e[u] = d[u] BY <1>2 DEF Elsewhere
<1>6. /\ e \in Up!Stores /\ e.group = d.group /\ e.access = d.access /\ e.cred = d.cred
      /\ e.chan = d.chan /\ e.proxy = d.proxy /\ e.template = d.template
  BY <1>2, <1>5 DEF Elsewhere, Fields
<1>7. \A u \in Fields \ {"rule", "cap", "model"} : \A y :
        (Up!Live(e, u, y) <=> Up!Live(d, u, y)) /\ (Up!Enabled(e, u, y) <=> Up!Enabled(d, u, y))
  BY <1>5 DEF Up!Live, Up!Enabled
<1>8. \A u \in (DOMAIN Up!Tables) \ {"rule", "cap", "model"} : Up!LiveOf(e, u) = Up!LiveOf(d, u)
  BY <1>5, TableNames DEF Up!LiveOf, Fields
<1>9. ASSUME NEW p \in Up!LiveOf(e, "cap")
      PROVE  /\ p \in Up!LiveOf(d, "cap") /\ e.cap[p].chan = d.cap[p].chan
             /\ e.cap[p].op = d.cap[p].op /\ e.cap[p].models = d.cap[p].models
             /\ e.cap[p].template = d.cap[p].template
             /\ e.cap[p].test # None => /\ e.cap[p].test = d.cap[p].test
                                        /\ Up!Live(d, "model", d.cap[p].test[2])
                                             => Up!Live(e, "model", d.cap[p].test[2])
  <2>1. p \in Capabilities /\ p \in Up!LiveOf(d, "cap") /\ d.cap[p].st = "live"
    BY <1>4, TableNames DEF Up!LiveOf
  <2>2. ASSUME e.cap[p].test # None
        PROVE  d.cap[p].test[2] \in Models \ {m} /\ e.cap[p].test = d.cap[p].test
    <3>1. e.cap[p].test = d.cap[p].test /\ d.cap[p].test[2] # m BY <1>4, <2>1, <2>2
    <3>2. d.cap[p].test \in (UpstreamModels \X Models) \cup {None}
      BY <2>1, StoreType DEF Up!CapabilityRow
    <3> QED BY <2>2, <3>1, <3>2
  <2> QED BY <1>2, <1>4, <2>1, <2>2 DEF Up!Live
<1>10. ASSUME NEW r \in Up!LiveOf(e, "rule")
       PROVE  /\ r \in Up!LiveOf(d, "rule") /\ e.rule[r].model = d.rule[r].model
              /\ e.rule[r].op = d.rule[r].op
              /\ Up!Live(e, "model", d.rule[r].model) =>
                   Up!Live(d, "model", d.rule[r].model) /\ e.rule[r] = d.rule[r]
  <2>1. r \in Rules /\ r \in Up!LiveOf(d, "rule") BY <1>3, TableNames DEF Up!LiveOf
  <2>2. d.rule[r].model \in Models BY <2>1, StoreType DEF Up!RuleRow
  <2>3. Up!Live(e, "model", d.rule[r].model) => d.rule[r].model # m BY <1>2 DEF Up!Live
  <2> QED BY <1>2, <1>3, <2>1, <2>2, <2>3 DEF Up!Live
<1>11. ASSUME NEW r \in Up!LiveOf(d, "rule"), NEW c \in Up!CandidatesOf(d.rule[r])
       PROVE  Up!Live(d, "cap", c[1]) => Up!Live(e, "cap", c[1]) /\ e.cap[c[1]].op = d.cap[c[1]].op
  <2>1. r \in Rules BY TableNames DEF Up!LiveOf
  <2>2. d.rule[r].tiers \in [Priorities -> SUBSET Up!Candidates] BY <2>1, StoreType DEF Up!RuleRow
  <2>3. c[1] \in Capabilities BY <2>2 DEF Up!CandidatesOf, Up!Candidates
  <2> QED BY <1>4, <2>3 DEF Up!Live
<1>12. \A r \in Up!LiveOf(e, "rule") :
         Up!Live(e, "model", d.rule[r].model) =>
           /\ Up!Live(d, "model", d.rule[r].model)
           /\ Up!CandidatesOf(e.rule[r]) \subseteq Up!CandidatesOf(d.rule[r])
           /\ \A c \in Up!CandidatesOf(e.rule[r]) :
                Up!Live(d, "cap", c[1]) => Up!Live(e, "cap", c[1]) /\ e.cap[c[1]].op = d.cap[c[1]].op
           /\ e.rule[r] = d.rule[r]
  BY <1>10, <1>11
<1>13. Up!Compiles(e)
  BY <1>6, <1>7, <1>8, <1>9, <1>10, <1>12, TableNames, StillCompiles DEF Fields
<1> QED BY <1>1, <1>13

\* Every operation on the store keeps the invariant.
LEMMA TopologyNext ==
  ASSUME Up!TopologyAssumption, Up!TopologyInv, [Up!Next]_(Up!vars) PROVE Up!TopologyInv'
<1>0. MaxWrites \in Nat /\ None \notin Rules /\ None \notin Capabilities
  BY TableNames DEF Up!TopologyAssumption, Up!ConstantsAssumption
<1>1. CASE UNCHANGED Up!vars BY <1>1 DEF Up!vars, Up!TopologyInv, Up!FormFits
<1>2. ASSUME NEW t \in DOMAIN Up!Tables, NEW x \in Up!Tables[t], Up!Read(t, x) PROVE Up!TopologyInv'
  BY <1>2, ReadStep
<1>3. ASSUME NEW g \in Groups, Up!CreateGroup(g) \/ Up!UpdateGroup(g) \/ Up!DeleteGroup(g)
      PROVE  Up!TopologyInv'
  BY <1>0, <1>3, GroupSteps
<1>4. ASSUME NEW a \in Accesses, Up!CreateAccess(a) \/ Up!UpdateAccess(a) PROVE Up!TopologyInv'
  BY <1>0, <1>4, AccessSteps
<1>5. ASSUME NEW k \in Credentials,
             Up!CreateCredential(k) \/ Up!UpdateCredential(k) \/ Up!DeleteCredential(k)
      PROVE  Up!TopologyInv'
  BY <1>0, <1>5, CredentialSteps
<1>6. ASSUME NEW c \in Channels, Up!CreateChannel(c) \/ Up!UpdateChannel(c) \/ Up!DeleteChannel(c)
      PROVE  Up!TopologyInv'
  BY <1>0, <1>6, ChannelSteps
<1>7. ASSUME NEW p \in Capabilities,
             \/ Up!CreateCapability(p) \/ Up!UpdateCapability(p) \/ Up!DeleteCapability(p)
             \/ Up!AutoDisable(p) \/ Up!AutoRecover(p) \/ Up!RecoverCapability(p)
      PROVE  Up!TopologyInv'
  BY <1>0, <1>7, CapabilitySteps, CapabilityDeletion
<1>8. ASSUME NEW ps \in SUBSET Capabilities, Up!BatchCapabilities(ps) PROVE Up!TopologyInv'
  BY <1>0, <1>8, BatchSteps
<1>9. ASSUME NEW m \in Models,
             \/ Up!CreateModel(m) \/ Up!UpdateModel(m) \/ Up!SyncModelPrice(m)
             \/ Up!CreateProfile(m) \/ Up!DeleteModel(m)
      PROVE  Up!TopologyInv'
  BY <1>0, <1>9, ModelSteps, ModelDeletion
<1>10. ASSUME NEW r \in Rules, Up!CreateRule(r) \/ Up!UpdateRule(r) PROVE Up!TopologyInv'
  BY <1>0, <1>10, RuleSteps
<1>11. CASE \/ \E x \in Proxies : Up!CreateProxy(x) \/ Up!UpdateProxy(x) \/ Up!DeleteProxy(x)
            \/ \E t \in Templates : Up!CreateTemplate(t) \/ Up!UpdateTemplate(t)
  BY <1>0, <1>11, SwitchSteps
<1>12. CASE Up!UpdateSettings BY <1>0, <1>12, SettingsStep
<1> QED BY <1>1, <1>2, <1>3, <1>4, <1>5, <1>6, <1>7, <1>8, <1>9, <1>10, <1>11, <1>12 DEF Up!Next

\* A compiled store refers to live rows only.
LEMMA Dangling ==
  ASSUME Up!TopologyInv, None \notin Models PROVE Up!NothingDangles
<1>0. store \in Up!Stores /\ Up!Compiles(store) BY InvFacts
<1>1. ASSUME NEW c \in Up!LiveOf(store, "chan")
      PROVE  /\ store.group[store.chan[c].group].st = "live"
             /\ store.access[store.chan[c].access].st = "live"
             /\ store.chan[c].cred # None =>
                  /\ store.cred[store.chan[c].cred].st = "live"
                  /\ store.access[store.chan[c].access].url \in store.cred[store.chan[c].cred].scope
  <2>1. Up!ChannelValid(store, c) BY <1>0 DEF Up!Compiles, Up!ResolveRuntime
  <2> QED BY <2>1 DEF Up!ChannelValid, Up!CredentialResolves, Up!AllowsTarget, Up!Live
<1>2. ASSUME NEW p \in Up!LiveOf(store, "cap") PROVE store.chan[store.cap[p].chan].st = "live"
  <2>1. Up!CapabilityValid(store, p) BY <1>0 DEF Up!Compiles, Up!ResolveRuntime
  <2> QED BY <2>1 DEF Up!CapabilityValid, Up!Live
<1>3. ASSUME NEW r \in Up!LiveOf(store, "rule"), store.model[store.rule[r].model].st = "live",
             NEW c \in Up!CandidatesOf(store.rule[r])
      PROVE  store.cap[c[1]].st = "live" /\ store.cap[c[1]].op = store.rule[r].op
  <2>1. Up!RuleResolves(store, r) BY <1>0 DEF Up!Compiles, Up!ResolveRuntime
  <2>2. store.rule[r].model # None BY <1>0, <1>3, StoreType, TableNames DEF Up!LiveOf, Up!RuleRow
  <2> QED BY <1>3, <2>1, <2>2 DEF Up!RuleResolves, Up!Live
<1> QED BY <1>1, <1>2, <1>3 DEF Up!NothingDangles

\* A form with the stored stamp shows the stored row.
LEMMA FormsIdentify ==
  ASSUME Up!TopologyInv PROVE Up!VersionIdentifiesRow
<1> SUFFICES ASSUME opened # None, Up!Current(opened.table, opened.id, opened.row),
                    opened.table = "rule" => Up!Live(store, "model", opened.row.model)
             PROVE  IF opened.table = "model"
                    THEN store.model[opened.id].on = opened.row.on
                    ELSE store[opened.table][opened.id] = opened.row
  BY DEF Up!VersionIdentifiesRow
<1>1. PICK v : v = opened OBVIOUS
<1>2. /\ v.table \in DOMAIN Up!Tables /\ v.id \in Up!Tables[v.table]
      /\ v.table = "model" => v.row \in Up!ModelRow
      /\ Up!Shown(store, v)
  BY <1>1 DEF Up!TopologyInv, Up!FormFits, Up!Current
<1>3. CASE v.table = "model"
  <2>1. store.model[v.id] = [v.row EXCEPT !.profile = store.model[v.id].profile]
    BY <1>2, <1>3 DEF Up!Shown
  <2>2. store.model[v.id].on = v.row.on BY <1>2, <1>3, <2>1 DEF Up!ModelRow
  <2> QED BY <1>1, <1>3, <2>2
<1>4. CASE v.table = "rule"
  <2>1. store.rule[v.id] = v.row BY <1>1, <1>2, <1>4 DEF Up!Shown, Up!Live
  <2> QED BY <1>1, <1>4, <2>1
<1>5. CASE v.table \notin {"model", "rule"} BY <1>1, <1>2, <1>5 DEF Up!Shown
<1> QED BY <1>3, <1>4, <1>5

\* The store compiles, its stamps are of the past, the rules of a deleted model pin
\* nothing, names are distinct, and a form whose stamp is the stored one shows what is
\* stored.
THEOREM TopologyInvariant == Up!TopologyAssumption /\ Up!Spec => []Up!TopologyInv
<1> SUFFICES ASSUME Up!TopologyAssumption PROVE Up!Spec => []Up!TopologyInv OBVIOUS
<1>1. Up!Init => Up!TopologyInv BY DEF Up!Init, Up!TopologyAssumption, Up!TopologyInv, Up!FormFits
<1>2. Up!TopologyInv /\ [Up!Next]_(Up!vars) => Up!TopologyInv' BY TopologyNext
<1> QED BY <1>1, <1>2, PTL DEF Up!Spec

\* For any rows, connectors, urls, names and start stores, and any interleaving of
\* administrators who edit from forms opened earlier, the automation that disables and
\* recovers capabilities, and the price synchronisation: the
\* committed store can be loaded again, nothing alive hangs off a deleted row, names are
\* distinct, the rules of a deleted model pin nothing, every delete its checks admit
\* leaves a store that compiles, and a form that would still be accepted shows the row
\* as it is stored (resolve_runtime, the deletes and the versioned updates of the
\* stores).
THEOREM TopologyAlwaysSound == Up!TopologyAssumption /\ Up!Spec => []Up!TopologySound
<1> SUFFICES ASSUME Up!TopologyAssumption PROVE Up!Spec => []Up!TopologySound OBVIOUS
<1>1. Up!TopologyInv => Up!TopologySound
  <2> SUFFICES ASSUME Up!TopologyInv PROVE Up!TopologySound OBVIOUS
  <2>0. /\ None \notin Rules /\ None \notin Capabilities /\ None \notin Models
    BY TableNames DEF Up!TopologyAssumption
  <2>1. /\ store \in Up!Stores /\ Up!Compiles(store) /\ Up!Unpinned(store) /\ Up!NamesApart(store)
    BY InvFacts
  <2>2. Up!DeletesCompile
    BY <2>0, <2>1, GroupDeletes, ChannelDeletes, CredentialDeletes, ProxyDeletes,
      CapabilityDeletes, ModelDeletes DEF Up!DeletesCompile
  <2> QED BY <2>0, <2>1, <2>2, Dangling, FormsIdentify DEF Up!TopologySound, Up!ReloadSucceeds,
      Up!DeletedModelPinsNothing, Up!NamesUnique
<1>2. Up!Spec => []Up!TopologyInv BY TopologyInvariant
<1> QED BY <1>1, <1>2, PTL
=============================================================================
