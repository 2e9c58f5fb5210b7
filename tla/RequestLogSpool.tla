-------------------------- MODULE RequestLogSpool --------------------------
\* The local, crash-recoverable half of the request-log pipeline:
\*   src/request_log_admission.rs   intents and preallocated terminal
\*                                  slots (AdmissionStore),
\*   src/request_log_spool.rs       events.log, checkpoint, compaction
\*                                  (RequestLogSpool, SpoolReader),
\*   src/application/request_log.rs the sink that admits and records,
\*   src/workers/durable_request_log.rs  the ingest and the sync worker.
\*
\* The writer mutex is held from the first to the last step of admit,
\* append and compact_if_drained; pc names the step its holder is at, so
\* that the process can die, and the lock-free ingest worker can run,
\* between any two file operations.  Offsets are counted in frames and
\* capacity in units of RESERVATION_BYTES; one frame is one unit.
EXTENDS Integers, Sequences, FiniteSets

CONSTANTS
  Ids,         \* request-log UUIDs
  MaxUnits,    \* spool_max_bytes, in units of RESERVATION_BYTES
  Threshold,   \* spool_compaction_threshold_bytes, in frames
  BatchSize,   \* ingest_batch_size
  QueueCap,    \* capacity of the wake-up channel
  PowerLoss,   \* whether the machine, not only the process, may fail
  MaxCrashes,  \* bound on process and machine failures
  MaxFaults    \* bound on failing file operations

ASSUME SpoolAssumption ==
  /\ IsFiniteSet(Ids)
  /\ MaxUnits \in Nat /\ Threshold \in Nat
  /\ BatchSize \in Nat \ {0} /\ QueueCap \in Nat \ {0}
  /\ PowerLoss \in BOOLEAN
  /\ MaxCrashes \in Nat /\ MaxFaults \in Nat

VARIABLES
  \* files, which survive a process failure
  log,        \* frames of events.log
  torn,       \* a partial frame follows them
  durable,    \* frames covered by an fsync
  intent,     \* ids with an admissions/<id>.json
  slot,       \* admissions/<id>.slot: none, empty, torn or terminal
  ckpt,       \* content of the checkpoint file
  ckptMaybe,  \* contents a power loss may leave it with
  \* the database
  inbox,      \* ids that request_log_ingest has accepted
  \* memory of the process
  phase,      \* down, recovering (inside open), up, refused (open failed)
  ids,        \* AdmissionStore.ids
  retained,   \* ids charged to AdmissionStore.retained_bytes
  failed,     \* SpoolWriter.failed
  wEnd,       \* SpoolWriter.end_offset
  end,        \* the published end_offset
  ckptMem,    \* checkpoint_offset
  synced,     \* synced_offset
  pressure,   \* capacity_pressure
  pc, cur,    \* step of the mutex holder and the id it works on
  owed,       \* ids whose append returned Ok and whose wake-up is not yet sent
  wake,       \* tokens in the wake-up channel
  ing,        \* step of the ingest worker
  reader,     \* SpoolReader.offset at the start of the batch
  batchEnd,   \* end offset of the batch
  \* history and bounds
  life,       \* what became of each request
  saved,      \* admitted ids whose save_terminal succeeded
  unknown,    \* ids reported as request_log_reconciliation_required
  replays,    \* terminals that open has found in a slot
  crashes, faults

disk == <<log, torn, durable, intent, slot, ckpt, ckptMaybe>>
files == <<intent, slot>>
writer == <<ids, retained, failed, wEnd, pressure>>
offsets == <<end, ckptMem, synced>>
worker == <<ing, reader, batchEnd>>
history == <<life, saved, unknown, replays>>
bounds == <<crashes, faults>>
vars == <<log, torn, durable, intent, slot, ckpt, ckptMaybe, inbox, phase,
          ids, retained, failed, wEnd, end, ckptMem, synced, pressure, pc, cur,
          owed, wake, ing, reader, batchEnd, life, saved, unknown, replays,
          crashes, faults>>

Nothing == "none"
SlotStates == {"none", "empty", "torn", "terminal"}
LifeStates == {"new", "admitted", "denied", "ended", "gone"}
Steps == {"free", "slot", "intent", "save", "saving", "write", "sync",
          "publish", "rmIntent", "rmSlot", "cSync", "cCkpt", "cTrunc"}
IngestSteps == {"idle", "accepting", "committed", "compact", "drained",
                "compacting", "waiting", "stopped"}

TypeOK ==
  /\ log \in Seq(Ids) /\ torn \in BOOLEAN /\ durable \in Nat
  /\ intent \subseteq Ids /\ slot \in [Ids -> SlotStates]
  /\ ckpt \in Nat /\ ckptMaybe \subseteq Nat
  /\ inbox \subseteq Ids
  /\ phase \in {"down", "recovering", "up", "refused"}
  /\ ids \subseteq Ids /\ retained \subseteq Ids /\ failed \in BOOLEAN
  /\ wEnd \in Nat /\ end \in Nat /\ ckptMem \in Nat /\ synced \in Nat
  /\ pressure \in BOOLEAN
  /\ pc \in Steps /\ cur \in Ids \cup {Nothing}
  /\ owed \subseteq Ids /\ wake \in 0..QueueCap
  /\ ing \in IngestSteps /\ reader \in Nat /\ batchEnd \in Nat
  /\ life \in [Ids -> LifeStates] /\ saved \subseteq Ids
  /\ unknown \subseteq Ids /\ replays \in Nat
  /\ crashes \in 0..MaxCrashes /\ faults \in 0..MaxFaults

Frames(n) == {log[i] : i \in 1..n}         \* the events in the first n frames
Smaller(a, b) == IF a <= b THEN a ELSE b

\* One failing file operation, of which MaxFaults are allowed.
Fault == faults < MaxFaults /\ faults' = faults + 1 /\ UNCHANGED crashes

--------------------
\* Initial state: an empty directory, before the first open.

Init ==
  /\ log = <<>> /\ torn = FALSE /\ durable = 0
  /\ intent = {} /\ slot = [i \in Ids |-> "none"]
  /\ ckpt = 0 /\ ckptMaybe = {0}
  /\ inbox = {} /\ phase = "down"
  /\ ids = {} /\ retained = {} /\ failed = FALSE /\ wEnd = 0
  /\ end = 0 /\ ckptMem = 0 /\ synced = 0 /\ pressure = FALSE
  /\ pc = "free" /\ cur = Nothing /\ owed = {} /\ wake = 0
  /\ ing = "idle" /\ reader = 0 /\ batchEnd = 0
  /\ life = [i \in Ids |-> "new"] /\ saved = {} /\ unknown = {} /\ replays = 0
  /\ crashes = 0 /\ faults = 0

--------------------
\* Opening the directory

\* AdmissionStore::read_terminal: only a complete slot yields an event.
ReadTerminal(i) == slot[i] = "terminal"

\* Mutant of Found: only complete slots are looked at.
FoundCompleteOnly == {i \in Ids : slot[i] = "terminal"}

\* AdmissionStore::open scans every file of the directory.
Found == intent \cup {i \in Ids : slot[i] # "none"}

\* AdmissionStore::reserved_bytes
ReservedUnits(R, K) == 2 * Cardinality(R) + Cardinality(K)

\* open_with_limits up to the re-append loop: the scan drops a torn tail, the
\* checkpoint must be a frame boundary, complete slots are recovered and all
\* other admission files are retained for reconciliation.
Open ==
  /\ phase = "down"
  /\ torn' = FALSE
  /\ durable' = IF torn THEN Len(log) ELSE durable
  /\ IF ckpt > Len(log)
     THEN /\ phase' = "refused"
          /\ UNCHANGED <<writer, offsets, saved, unknown, replays>>
     ELSE /\ phase' = "recovering"
          /\ ids' = {i \in Found : ReadTerminal(i)}
          /\ retained' = {i \in Found : ~ReadTerminal(i)}
          /\ unknown' = unknown \cup {i \in Found : ~ReadTerminal(i)}
          /\ replays' = replays + Cardinality(ids')
          /\ failed' = FALSE /\ pressure' = FALSE
          /\ wEnd' = Len(log) /\ end' = Len(log) /\ synced' = Len(log)
          /\ ckptMem' = ckpt
          /\ UNCHANGED saved
  /\ UNCHANGED <<log, files, ckpt, ckptMaybe, inbox, pc, cur, owed, wake,
                 worker, life, bounds>>

\* Mutant of RecoveryDone: the reader starts at the end of the file.
RecoveryDoneAtEnd ==
  /\ phase = "recovering" /\ pc = "free" /\ ids = {} /\ ~failed
  /\ phase' = "up" /\ ing' = "idle" /\ reader' = end /\ batchEnd' = end
  /\ UNCHANGED <<disk, inbox, writer, offsets, pc, cur, owed, wake, history,
                 bounds>>

\* Every recovered event has been appended again: the workers start, the
\* reader at the checkpoint (RequestLogSpool::reader).
RecoveryDone ==
  /\ phase = "recovering" /\ pc = "free" /\ ids = {} /\ ~failed
  /\ phase' = "up" /\ ing' = "idle" /\ reader' = ckptMem /\ batchEnd' = ckptMem
  /\ UNCHANGED <<disk, inbox, writer, offsets, pc, cur, owed, wake, history,
                 bounds>>

\* The memory of a process that has died.  Dispatched requests are gone with
\* it, and so is the one that was being admitted or recorded.
Dead ==
  /\ phase' = "down"
  /\ ids' = {} /\ retained' = {} /\ failed' = FALSE /\ wEnd' = 0
  /\ end' = 0 /\ ckptMem' = 0 /\ synced' = 0 /\ pressure' = FALSE
  /\ pc' = "free" /\ cur' = Nothing /\ owed' = {} /\ wake' = 0
  /\ ing' = "idle" /\ reader' = 0 /\ batchEnd' = 0
  /\ life' = [i \in Ids |-> IF life[i] = "admitted" THEN "gone"
                            ELSE IF i = cur THEN "ended" ELSE life[i]]
  /\ UNCHANGED <<inbox, saved, unknown, replays>>

\* A failing re-append makes open return its error; the process exits.
RecoveryFailed ==
  /\ phase = "recovering" /\ failed
  /\ Dead
  /\ UNCHANGED <<disk, bounds>>

\* kill -9 at any moment: page cache and directory survive, with the part of a
\* frame that had been written.
Crash ==
  /\ phase \in {"recovering", "up"}
  /\ crashes < MaxCrashes /\ crashes' = crashes + 1
  /\ Dead
  /\ torn' \in (IF pc = "write" THEN BOOLEAN ELSE {torn})
  /\ UNCHANGED <<log, durable, files, ckpt, ckptMaybe, faults>>

\* A power loss keeps some prefix of events.log that covers the last fsync and
\* one of the checkpoints renamed into place since the last synced one.
PowerFailure ==
  /\ PowerLoss
  /\ phase \in {"recovering", "up"}
  /\ crashes < MaxCrashes /\ crashes' = crashes + 1
  /\ Dead
  /\ \E n \in durable..Len(log) : log' = SubSeq(log, 1, n)
  /\ \E c \in ckptMaybe : ckpt' = c /\ ckptMaybe' = {c}
  /\ durable' = Len(log')
  /\ torn' \in BOOLEAN
  /\ UNCHANGED <<files, faults>>

--------------------
\* admit: RequestLogSpool::admit and AdmissionStore::reserve

Budget == wEnd + ReservedUnits(ids, retained)

\* The request is refused before dispatch and the sink wakes the ingest worker
\* (its try_send never fills a full channel).
Deny(i) ==
  /\ life' = [life EXCEPT ![i] = "denied"]
  /\ wake' = Smaller(wake + 1, QueueCap)

Admitting(i) == phase = "up" /\ pc = "free" /\ life[i] = "new"

\* The writer has failed, or the query for free space does.
AdmitUnavailable(i) ==
  /\ Admitting(i) /\ (failed \/ Budget + 2 <= MaxUnits)
  /\ Deny(i)
  /\ UNCHANGED <<disk, inbox, phase, writer, offsets, pc, cur, owed, worker,
                 saved, unknown, replays, bounds>>

\* Over budget, or too little free space.  Other programs use the same file
\* system, so the second may be the case at any time: the guard is just ~failed.
AdmitCapacity(i) ==
  /\ Admitting(i) /\ ~failed
  /\ pressure' = TRUE
  /\ Deny(i)
  /\ UNCHANGED <<disk, inbox, phase, ids, retained, failed, wEnd, offsets, pc,
                 cur, owed, worker, saved, unknown, replays, bounds>>

AdmitBegin(i) ==
  /\ Admitting(i) /\ ~failed
  /\ Budget + 2 <= MaxUnits
  /\ ids' = ids \cup {i}
  /\ pc' = "slot" /\ cur' = i
  /\ UNCHANGED <<disk, inbox, phase, retained, failed, wEnd, pressure, offsets,
                 owed, wake, worker, history, bounds>>

\* reserve: the slot is allocated and synced, then the intent.
ReserveSlot ==
  /\ pc = "slot"
  /\ slot' = [slot EXCEPT ![cur] = "empty"]
  /\ pc' = "intent"
  /\ UNCHANGED <<log, torn, durable, intent, ckpt, ckptMaybe, inbox, phase,
                 writer, offsets, cur, owed, wake, worker, history, bounds>>

ReserveIntent ==
  /\ pc = "intent"
  /\ intent' = intent \cup {cur}
  /\ life' = [life EXCEPT ![cur] = "admitted"]
  /\ pc' = "free" /\ cur' = Nothing
  /\ UNCHANGED <<log, torn, durable, slot, ckpt, ckptMaybe, inbox, phase,
                 writer, offsets, owed, wake, worker, saved, unknown, replays,
                 bounds>>

\* The intent is too large to be encoded, or either file operation fails, with
\* or without having left the file.
ReserveFails ==
  /\ Fault
  /\ \/ /\ pc = "slot"
        /\ ids' = ids \ {cur}
        /\ UNCHANGED files
     \/ /\ pc = "slot"
        /\ slot' \in {slot, [slot EXCEPT ![cur] = "empty"]}
        /\ UNCHANGED <<intent, ids>>
     \/ /\ pc = "intent"
        /\ intent' \in {intent, intent \cup {cur}}
        /\ UNCHANGED <<slot, ids>>
  /\ failed' = TRUE
  /\ Deny(cur)
  /\ pc' = "free" /\ cur' = Nothing
  /\ UNCHANGED <<log, torn, durable, ckpt, ckptMaybe, inbox, phase, retained,
                 wEnd, pressure, offsets, owed, worker, saved, unknown,
                 replays>>

--------------------
\* append: RequestLogSpool::append, called by try_record for the terminal
\* event of a request and by open for a recovered one

\* Requests that were admitted, or that end before admission (route refusals
\* and scheduled probes), record one terminal event.
Ending(i) == phase = "up" /\ life[i] \in {"new", "admitted"}

\* The caller's request is over, whatever append returned to it.
End(i) == life' = IF phase = "up" THEN [life EXCEPT ![i] = "ended"] ELSE life

AppendReserved(i) ==
  /\ pc = "free" /\ i \in ids
  /\ Ending(i) \/ (phase = "recovering" /\ ~failed)
  /\ pc' = "save" /\ cur' = i
  /\ UNCHANGED <<disk, inbox, phase, writer, offsets, owed, wake, worker,
                 history, bounds>>

AppendUnreserved(i) ==
  /\ pc = "free" /\ i \notin ids /\ Ending(i)
  /\ ~failed /\ Budget + 1 <= MaxUnits
  /\ pc' = "write" /\ cur' = i
  /\ UNCHANGED <<disk, inbox, phase, writer, offsets, owed, wake, worker,
                 history, bounds>>

\* The event of a request that was never admitted is dropped with an error.
AppendRefused(i) ==
  /\ pc = "free" /\ i \notin ids /\ Ending(i)
  /\ failed \/ Budget + 1 > MaxUnits
  /\ End(i)
  /\ UNCHANGED <<disk, inbox, phase, writer, offsets, pc, cur, owed, wake,
                 worker, saved, unknown, replays, bounds>>

\* An event that encodes to more than MAX_PAYLOAD_BYTES is dropped before the
\* mutex is taken; the files of an admitted request stay as they are.
AppendOversized(i) ==
  /\ Ending(i) /\ cur # i
  /\ End(i)
  /\ UNCHANGED <<disk, inbox, phase, writer, offsets, pc, cur, owed, wake,
                 worker, saved, unknown, replays, bounds>>

\* save_terminal overwrites the slot; rewriting a recovered terminal writes
\* the bytes that are already there.
SaveBegin ==
  /\ pc = "save"
  /\ slot' = [slot EXCEPT ![cur] = IF @ = "terminal" THEN @ ELSE "torn"]
  /\ pc' = "saving"
  /\ UNCHANGED <<log, torn, durable, intent, ckpt, ckptMaybe, inbox, phase,
                 writer, offsets, cur, owed, wake, worker, history, bounds>>

\* The slot is synced.  A writer that has failed before stops here.
SaveEnd ==
  /\ pc = "saving"
  /\ slot' = [slot EXCEPT ![cur] = "terminal"]
  /\ saved' = saved \cup {cur}
  /\ IF failed
     THEN pc' = "free" /\ cur' = Nothing /\ End(cur)
     ELSE pc' = "write" /\ UNCHANGED <<cur, life>>
  /\ UNCHANGED <<log, torn, durable, intent, ckpt, ckptMaybe, inbox, phase,
                 writer, offsets, owed, wake, worker, unknown, replays, bounds>>

WriteFrame ==
  /\ pc = "write"
  /\ log' = Append(log, cur)
  /\ wEnd' = wEnd + 1
  /\ pc' = IF cur \in ids THEN "sync" ELSE "publish"
  /\ UNCHANGED <<torn, durable, files, ckpt, ckptMaybe, inbox, phase, ids,
                 retained, failed, pressure, offsets, cur, owed, wake, worker,
                 history, bounds>>

\* Mutant of SyncFrame: append leaves the sync to the sync worker.
SyncFrameSkipped ==
  /\ pc = "sync"
  /\ pc' = "publish"
  /\ UNCHANGED <<disk, inbox, phase, writer, offsets, cur, owed, wake, worker,
                 history, bounds>>

SyncFrame ==
  /\ pc = "sync"
  /\ durable' = Len(log)
  /\ pc' = "publish"
  /\ UNCHANGED <<log, torn, files, ckpt, ckptMaybe, inbox, phase, writer,
                 offsets, cur, owed, wake, worker, history, bounds>>

Publish ==
  /\ pc = "publish"
  /\ end' = wEnd
  /\ IF cur \in ids
     THEN pc' = "rmIntent" /\ UNCHANGED <<cur, owed, life>>
     ELSE pc' = "free" /\ cur' = Nothing /\ owed' = owed \cup {cur} /\ End(cur)
  /\ UNCHANGED <<disk, inbox, phase, writer, ckptMem, synced, wake, worker,
                 saved, unknown, replays, bounds>>

\* retire: the intent goes first, each removal with a directory sync.
RetireIntent ==
  /\ pc = "rmIntent"
  /\ intent' = intent \ {cur}
  /\ pc' = "rmSlot"
  /\ UNCHANGED <<log, torn, durable, slot, ckpt, ckptMaybe, inbox, phase,
                 writer, offsets, cur, owed, wake, worker, history, bounds>>

RetireSlot ==
  /\ pc = "rmSlot"
  /\ slot' = [slot EXCEPT ![cur] = "none"]
  /\ ids' = ids \ {cur}
  /\ owed' = IF phase = "up" THEN owed \cup {cur} ELSE owed
  /\ End(cur)
  /\ pc' = "free" /\ cur' = Nothing
  /\ UNCHANGED <<log, torn, durable, intent, ckpt, ckptMaybe, inbox, phase,
                 retained, failed, wEnd, pressure, offsets, wake, worker, saved,
                 unknown, replays, bounds>>

\* Any file operation of append fails: the writer is latched, nothing more is
\* attempted and the sink sends no wake-up.  A failing sync or directory sync
\* may follow an operation that took effect.
AppendFails ==
  /\ Fault
  /\ \/ /\ pc = "saving"
        /\ slot' \in {slot, [slot EXCEPT ![cur] = "terminal"]}
        /\ UNCHANGED <<torn, intent>>
     \/ /\ pc = "write"
        /\ torn' = TRUE
        /\ UNCHANGED files
     \/ /\ pc = "sync"
        /\ UNCHANGED <<torn, files>>
     \/ /\ pc = "rmIntent"
        /\ intent' \in {intent, intent \ {cur}}
        /\ UNCHANGED <<torn, slot>>
     \/ /\ pc = "rmSlot"
        /\ slot' \in {slot, [slot EXCEPT ![cur] = "none"]}
        /\ UNCHANGED <<torn, intent>>
  /\ failed' = TRUE
  /\ End(cur)
  /\ pc' = "free" /\ cur' = Nothing
  /\ UNCHANGED <<log, durable, ckpt, ckptMaybe, inbox, phase, ids, retained,
                 wEnd, pressure, offsets, owed, wake, worker, saved, unknown,
                 replays>>

\* try_record notifies after append has released the mutex.
Notify(i) ==
  /\ i \in owed
  /\ owed' = owed \ {i}
  /\ wake' = Smaller(wake + 1, QueueCap)
  /\ UNCHANGED <<disk, inbox, phase, writer, offsets, pc, cur, worker, history,
                 bounds>>

--------------------
\* The ingest worker: run_spool_ingest_worker, SpoolReader::read_batch,
\* RequestLogSpool::checkpoint and compact_if_drained

IngestRead ==
  /\ phase = "up" /\ ing = "idle" /\ reader < end
  /\ batchEnd' = Smaller(reader + BatchSize, end)
  /\ ing' = "accepting"
  /\ UNCHANGED <<disk, inbox, phase, writer, offsets, pc, cur, owed, wake,
                 reader, history, bounds>>

\* A read error stops the worker until the next start.
IngestReadFails ==
  /\ phase = "up" /\ ing = "idle" /\ reader < end
  /\ Fault
  /\ ing' = "stopped"
  /\ UNCHANGED <<disk, inbox, phase, writer, offsets, pc, cur, owed, wake,
                 reader, batchEnd, history>>

Batch == {log[n] : n \in (reader + 1)..batchEnd}

\* accept_batch commits and its answer arrives.
Accept ==
  /\ ing = "accepting"
  /\ inbox' = inbox \cup Batch
  /\ ing' = "committed"
  /\ UNCHANGED <<disk, phase, writer, offsets, pc, cur, owed, wake, reader,
                 batchEnd, history, bounds>>

\* accept_batch fails or times out; in the second case it may have committed.
\* The reader goes back to the start of the batch.
AcceptFails ==
  /\ ing = "accepting"
  /\ inbox' \in {inbox, inbox \cup Batch}
  /\ ing' = "idle"
  /\ UNCHANGED <<disk, phase, writer, offsets, pc, cur, owed, wake, reader,
                 batchEnd, history, bounds>>

\* The new checkpoint is renamed into place, not synced.
Checkpoint ==
  /\ ing = "committed"
  /\ IF ckptMem <= batchEnd /\ batchEnd <= end
     THEN /\ ckpt' = batchEnd /\ ckptMaybe' = ckptMaybe \cup {batchEnd}
          /\ ckptMem' = batchEnd /\ reader' = batchEnd
          /\ ing' = "compact"
     ELSE ing' = "idle" /\ UNCHANGED <<ckpt, ckptMaybe, ckptMem, reader>>
  /\ UNCHANGED <<log, torn, durable, files, inbox, phase, writer, end, synced,
                 pc, cur, owed, wake, batchEnd, history, bounds>>

CheckpointFails ==
  /\ ing = "committed"
  /\ Fault
  /\ ing' = "idle"
  /\ UNCHANGED <<disk, inbox, phase, writer, offsets, pc, cur, owed, wake,
                 reader, batchEnd, history>>

\* Nothing to read: the worker tries to compact before it waits.
IngestDrained ==
  /\ phase = "up" /\ ing = "idle" /\ reader >= end
  /\ ing' = "drained"
  /\ UNCHANGED <<disk, inbox, phase, writer, offsets, pc, cur, owed, wake,
                 reader, batchEnd, history, bounds>>

\* compact_if_drained's checks, repeated under the mutex.
Drained ==
  /\ ~failed
  /\ ckptMem = end /\ ckptMem = wEnd
  /\ end # 0
  /\ pressure \/ end >= Threshold

CompactBegin ==
  /\ pc = "free" /\ ing \in {"compact", "drained"}
  /\ Drained
  /\ pc' = "cSync" /\ ing' = "compacting"
  /\ UNCHANGED <<disk, inbox, phase, writer, offsets, cur, owed, wake, reader,
                 batchEnd, history, bounds>>

\* Nothing to compact: after a batch the worker reads on, otherwise it waits.
CompactSkip ==
  /\ pc = "free" /\ ing \in {"compact", "drained"}
  /\ ~Drained
  /\ ing' = IF ing = "compact" THEN "idle" ELSE "waiting"
  /\ UNCHANGED <<disk, inbox, phase, writer, offsets, pc, cur, owed, wake,
                 reader, batchEnd, history, bounds>>

CompactSync ==
  /\ pc = "cSync"
  /\ durable' = Len(log)
  /\ pc' = "cCkpt"
  /\ UNCHANGED <<log, torn, files, ckpt, ckptMaybe, inbox, phase, writer,
                 offsets, cur, owed, wake, worker, history, bounds>>

\* The zero checkpoint and its directory are synced before the truncation.
CompactCheckpoint ==
  /\ pc = "cCkpt"
  /\ ckpt' = 0 /\ ckptMaybe' = {0}
  /\ pc' = "cTrunc"
  /\ UNCHANGED <<log, torn, durable, files, inbox, phase, writer, offsets, cur,
                 owed, wake, worker, history, bounds>>

CompactTruncate ==
  /\ pc = "cTrunc"
  /\ log' = <<>> /\ durable' = 0
  /\ wEnd' = 0 /\ end' = 0 /\ ckptMem' = 0 /\ synced' = 0 /\ pressure' = FALSE
  /\ pc' = "free"
  /\ ing' = "idle" /\ reader' = 0 /\ batchEnd' = 0
  /\ UNCHANGED <<torn, files, ckpt, ckptMaybe, inbox, phase, ids, retained,
                 failed, cur, owed, wake, history, bounds>>

\* A failing step latches the writer; the worker goes on without compaction.
CompactFails ==
  /\ pc \in {"cSync", "cCkpt", "cTrunc"}
  /\ Fault
  /\ IF pc = "cCkpt"
     THEN ckpt' \in {ckpt, 0} /\ ckptMaybe' = ckptMaybe \cup {0}
     ELSE UNCHANGED <<ckpt, ckptMaybe>>
  /\ \/ UNCHANGED <<log, durable>>
     \/ pc = "cTrunc" /\ log' = <<>> /\ durable' = 0
  /\ failed' = TRUE
  /\ pc' = "free" /\ ing' = "idle"
  /\ UNCHANGED <<torn, files, inbox, phase, ids, retained, wEnd,
                 pressure, offsets, cur, owed, wake, reader, batchEnd, history>>

Wake ==
  /\ phase = "up" /\ ing = "waiting" /\ wake > 0
  /\ wake' = wake - 1 /\ ing' = "idle"
  /\ UNCHANGED <<disk, inbox, phase, writer, offsets, pc, cur, owed, reader,
                 batchEnd, history, bounds>>

--------------------
\* The sync worker: run_spool_sync_worker, RequestLogSpool::sync_data

SyncTick ==
  /\ phase = "up" /\ pc = "free"
  /\ IF end <= synced
     THEN UNCHANGED <<durable, synced>>
     ELSE /\ synced' = end
          /\ durable' = IF ckptMem >= end THEN durable ELSE Len(log)
  /\ UNCHANGED <<log, torn, files, ckpt, ckptMaybe, inbox, phase, writer, end,
                 ckptMem, pc, cur, owed, wake, worker, history, bounds>>

SyncFails ==
  /\ phase = "up" /\ pc = "free" /\ end > synced /\ ckptMem < end
  /\ Fault
  /\ failed' = TRUE
  /\ UNCHANGED <<disk, inbox, phase, ids, retained, wEnd, pressure, offsets,
                 pc, cur, owed, wake, worker, history>>

--------------------
Admit(i) == AdmitUnavailable(i) \/ AdmitCapacity(i) \/ AdmitBegin(i)

AppendStep ==
  \/ SaveBegin \/ SaveEnd \/ WriteFrame \/ SyncFrame \/ Publish
  \/ RetireIntent \/ RetireSlot

WriterStep ==
  \/ ReserveSlot \/ ReserveIntent \/ AppendStep
  \/ CompactSync \/ CompactCheckpoint \/ CompactTruncate

IngestStep ==
  \/ IngestRead \/ Accept \/ Checkpoint \/ IngestDrained
  \/ CompactBegin \/ CompactSkip \/ Wake

Fails == ReserveFails \/ AppendFails \/ IngestReadFails \/ CheckpointFails
         \/ CompactFails \/ SyncFails

Next ==
  \/ Open \/ RecoveryDone \/ RecoveryFailed \/ Crash \/ PowerFailure
  \/ \E i \in Ids : \/ Admit(i) \/ Notify(i)
                    \/ AppendReserved(i) \/ AppendUnreserved(i)
                    \/ AppendRefused(i) \/ AppendOversized(i)
  \/ WriterStep \/ IngestStep \/ AcceptFails \/ SyncTick \/ Fails

Spec == Init /\ [][Next]_vars

\* Threads that hold the mutex run on, the workers are scheduled, a process
\* that died is started again, and the database is reachable often enough for
\* an accept_batch to be answered.
FairSpec ==
  /\ Spec
  /\ WF_vars(Open) /\ WF_vars(RecoveryDone) /\ WF_vars(RecoveryFailed)
  /\ WF_vars(WriterStep)
  /\ \A i \in Ids : /\ WF_vars(Notify(i))
                    /\ WF_vars(phase = "recovering" /\ AppendReserved(i))
  /\ WF_vars(IngestRead \/ Checkpoint \/ IngestDrained \/ Wake)
  /\ SF_vars(CompactBegin) /\ SF_vars(CompactSkip)
  /\ SF_vars(Accept)

--------------------
\* Properties

\* Whichever of the renamed checkpoints a crash leaves behind, every frame in
\* front of it has been committed by accept_batch: checkpoint() runs after the
\* commit, and compaction zeroes the checkpoint before it truncates.
CheckpointCovered ==
  \A c \in ckptMaybe \cup {ckpt} :
    \A n \in 1..Len(log) : n <= c => log[n] \in inbox

\* Once save_terminal has returned, the event is in its slot, in a synced frame
\* or in the database, whatever fails afterwards: retire comes after the sync.
SavedNeverLost ==
  \A i \in saved : \/ slot[i] = "terminal"
                   \/ \E n \in 1..Len(log) : n <= durable /\ log[n] = i
                   \/ i \in inbox

\* No event is lost between its slot, the spool and the database.
NothingLost == CheckpointCovered /\ SavedNeverLost

\* open never reports a request as unknown when its terminal event was kept or
\* delivered: retire removes the intent before the slot, never after it.
UnknownIsUnknown == unknown \cap (saved \cup inbox) = {}

\* A request that was dispatched and then died with the process is recovered
\* or reported by the time the process serves again.
DeadRequestAccounted ==
  phase = "up" => \A i \in Ids : life[i] = "gone" => i \in saved \cup unknown

\* The ingest worker does not sleep on published frames: try_record sends its
\* token after publishing, and a full channel already holds one.  A writer
\* that failed between the two is woken by the next denied admission instead.
NoLostWakeup ==
  (phase = "up" /\ ing = "waiting" /\ wake = 0 /\ owed = {} /\ ~failed)
    => (reader = end \/ pc \in {"rmIntent", "rmSlot"})

\* Files stay within spool_max_bytes, except for the frames that recovery adds
\* a second time: the two units of a reservation pay for slot and frame.
WithinBudget == Len(log) + Cardinality(Found) <= MaxUnits + replays

\* open accepts every directory the gateway left behind.
OpenAccepts == phase # "refused"

\* No event is lost, skipped or reported as unknown although it is known, every
\* dispatched request is accounted for, and the directory stays within its
\* budget and can be opened again.
SpoolSound ==
  /\ NothingLost /\ UnknownIsUnknown /\ DeadRequestAccounted
  /\ NoLostWakeup /\ WithinBudget
  /\ ~PowerLoss => OpenAccepts

\* Every event of an admitted request, once in its slot, and every event whose
\* append succeeded, reaches the database.
EventuallyIngested == \A i \in Ids : (i \in saved \cup owed) ~> (i \in inbox)
--------------------
\* The inductive invariant behind CheckpointCovered and SavedNeverLost

Compacting == {"cSync", "cCkpt", "cTrunc"}
Running == phase \in {"recovering", "up"}
Covered(m) == \A n \in 1..Len(log) : n <= m => log[n] \in inbox
InSyncedFrame(i) == \E n \in 1..Len(log) : n <= durable /\ log[n] = i

\* Who may hold the mutex, and on whose behalf.
MutexInv ==
  /\ pc \notin Compacting \cup {"free"} => cur \in Ids
  /\ (pc \in Compacting) <=> (ing = "compacting")
  /\ ing # "idle" => phase = "up"
  /\ pc # "free" => Running
  /\ pc \notin {"free", "save", "saving"} => ~failed

\* The truncation of a compaction took effect and its sync failed.
Cut == failed /\ log = <<>> /\ ckptMem = end /\ ckptMaybe = {0} /\ ckpt = 0

\* How memory and file offsets relate while the process runs.
OffsetInv ==
  /\ durable <= Len(log)
  /\ Running => ckptMem <= end /\ end <= wEnd
  /\ phase = "up" => reader = ckptMem
  /\ ing \in {"accepting", "committed"} => reader < batchEnd /\ batchEnd <= end
  /\ Running => wEnd = Len(log) \/ Cut
  /\ pc \in Compacting => ckptMem = wEnd
  /\ pc = "cTrunc" => ckptMaybe = {0} /\ ckpt = 0

\* No checkpoint that a crash may leave points beyond the file, unless a power
\* loss has just cut the file; the next open then refuses it.
BoundaryInv ==
  \/ \A c \in ckptMaybe \cup {ckpt} : c <= Len(log)
  \/ ckptMaybe = {ckpt} /\ ~Running

\* What the memory takes for delivered is delivered.
DeliveredInv ==
  /\ Running => Covered(ckptMem)
  /\ ing = "committed" => Covered(batchEnd)

\* An id owns its admission files from reserve to retire.
OwnershipInv ==
  /\ \A i \in Ids : life[i] = "new" => i \notin saved
  /\ \A i \in Ids : (i \in ids \/ slot[i] # "none") =>
        life[i] # "new" \/ (pc \in {"slot", "intent"} /\ cur = i)
  /\ pc \in {"slot", "intent"} => life[cur] = "new"
  /\ pc \in {"save", "saving"} => life[cur] # "new"

\* The frame of a reserved event is synced before its files are removed.
RetireInv ==
  /\ pc = "sync" => Len(log) > 0 /\ log[Len(log)] = cur
  /\ pc \in {"publish", "rmIntent", "rmSlot"} /\ cur \in ids => InSyncedFrame(cur)
  /\ pc \in {"rmIntent", "rmSlot"} => cur \in ids

SpoolInv ==
  /\ TypeOK /\ MutexInv /\ OffsetInv /\ BoundaryInv /\ DeliveredInv
  /\ OwnershipInv /\ RetireInv /\ CheckpointCovered /\ SavedNeverLost

--------------------
\* The inductive invariant behind the other parts of SpoolSound

\* Requests whose terminal event is somewhere.
Known == saved \cup inbox \cup Frames(Len(log))

\* An incomplete admission file belongs to a request whose event is nowhere, and
\* a request that is still to be admitted has left no trace.
FilesInv ==
  /\ \A i \in Known : slot[i] = "terminal" \/ (slot[i] = "none" /\ i \notin intent)
  /\ \A i \in Ids : life[i] = "new" =>
       /\ i \in Known => pc = "publish" /\ cur = i
       /\ slot[i] # "none" => pc = "intent" /\ cur = i
       /\ i \notin intent
  /\ \A i \in Ids : life[i] = "admitted" => phase = "up" /\ i \in ids /\ slot[i] # "none"
  /\ phase = "recovering" /\ ~failed => \A i \in ids : slot[i] = "terminal"

\* What the holder of the mutex has done for its request so far.
HolderInv ==
  /\ pc \in {"slot", "intent"} => phase = "up" /\ cur \in ids
  /\ pc = "intent" => slot[cur] # "none"
  /\ pc \in {"save", "saving"} => cur \in ids /\ slot[cur] # "none"
  /\ pc \in {"write", "sync", "publish", "rmIntent", "rmSlot"} =>
       IF cur \in ids THEN slot[cur] = "terminal" /\ cur \in saved
       ELSE phase = "up" /\ life[cur] = "new"
  /\ pc = "sync" => cur \in ids
  /\ pc = "rmSlot" => cur \notin intent

UnknownInv ==
  \A i \in unknown : /\ i \notin Known /\ slot[i] # "terminal" /\ i \notin ids
                     /\ life[i] \notin {"new", "admitted"}

\* Until the process serves again the files of a dead request remain.
GoneInv ==
  \A i \in Ids : life[i] = "gone" =>
    \/ i \in saved \cup unknown
    \/ slot[i] # "none" /\ phase # "up" /\ (phase = "recovering" => i \in ids)

\* NoLostWakeup holds from the moment that the worker has seen the end.
WakeInv ==
  (phase = "up" /\ ing \in {"drained", "waiting"} /\ wake = 0 /\ owed = {} /\ ~failed)
    => (reader = end \/ pc \in {"rmIntent", "rmSlot"})

\* The budget that is spoken for: a frame that was written for a reservation
\* uses one unit of it, and a latched writer writes no more frames.
Claimed ==
  IF failed THEN wEnd + Cardinality(ids) + Cardinality(retained)
  ELSE IF pc \in {"sync", "publish", "rmIntent", "rmSlot"} /\ cur \in ids THEN Budget - 1
  ELSE IF pc = "write" /\ cur \notin ids THEN Budget + 1
  ELSE Budget

BudgetInv ==
  IF Running THEN Found \subseteq ids \cup retained /\ Claimed <= MaxUnits + replays
  ELSE WithinBudget

\* Without a power loss no checkpoint is ahead of the file.
OpenInv ==
  ~PowerLoss => OpenAccepts /\ \A c \in ckptMaybe \cup {ckpt} : c <= Len(log)

RecoveryInv ==
  /\ FilesInv /\ HolderInv /\ UnknownInv /\ GoneInv /\ WakeInv /\ BudgetInv /\ OpenInv

=============================================================================
