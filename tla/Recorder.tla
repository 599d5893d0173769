------------------------------ MODULE Recorder ------------------------------
(***************************************************************************)
(* The recorder of a telescope process (core/src/recorder/recorder.ts): a  *)
(* fixed ring of captured entries, filled synchronously by record() and    *)
(* emptied by flush(), which hands the entries to the storage in chunks,   *)
(* with one retry for each chunk.                                          *)
(*                                                                         *)
(* JavaScript runs one callback at a time, so record() and the synchronous *)
(* part of flush() are atomic.  What interleaves with them are the awaits  *)
(* of one flush: the storage call, the back-off, the retry, the rollups    *)
(* and the onFlushStored hook.  `phase' says which of them is pending.     *)
(*                                                                         *)
(* An entry is named by its admission number: the first entry pushed is 1. *)
(* Flush durations are not modelled: nothing but /health reads them.       *)
(***************************************************************************)
EXTENDS Integers, Sequences, FiniteSets

CONSTANTS
  BufferSize,      \* slots of the ring (recorder.bufferSize)
  FlushBatchSize,  \* entries of a chunk (recorder.flushBatchSize); 0: unset
  MaxRecords,      \* bound: record() calls a behaviour may make
  NoEntry          \* an empty slot (undefined)

ASSUME BufferSizeAssumption == BufferSize \in Nat \ {0}
ASSUME FlushBatchSizeAssumption == FlushBatchSize \in Nat
ASSUME MaxRecordsAssumption == MaxRecords \in Nat
ASSUME NoEntryAssumption == NoEntry \notin Nat

VARIABLES
  ring,              \* slot -> entry or NoEntry
  head,              \* slot of the oldest entry
  count,             \* entries in the ring
  paused,            \* set by the overload guard
  recorded,          \* recordedCount: entries ever pushed
  highWater,         \* highWaterCount: the fullest the ring has been
  truncated,         \* truncatedEntryCount: entries clipped by redaction
  overflowDrops,     \* evictions, and records refused while paused
  recordErrorDrops,  \* records lost to a throw inside record()
  storeFailedDrops,  \* entries of chunks whose two store() calls failed
  retriedFlushes,    \* retriedFlushCount: chunks stored a second time
  flushes,           \* flushCount: flushes that have ended
  flushedEntries,    \* flushedEntriesCount: entries those flushes drained
  flight,            \* the entries the pending flush has drained
  offset,            \* how many of them are in chunks already settled
  phase,             \* the await the pending flush is in, or "idle"
  persisted,         \* external: ids of the entries the storage holds
  observed,          \* what onFlushStored has been handed, in order
  refused            \* history: records refused while paused

ringVars    == <<ring, head, count, recorded, highWater>>
captureVars == <<truncated, overflowDrops, recordErrorDrops, refused>>
flightVars  == <<flight, offset, phase>>
settleVars  == <<storeFailedDrops, retriedFlushes, flushes, flushedEntries,
                 persisted, observed>>
vars == <<ringVars, captureVars, flightVars, settleVars, paused>>

-----------------------------------------------------------------------------

Slots  == 0 .. (BufferSize - 1)
Entry  == Nat \ {0}
Phases == {"idle", "store", "backoff", "retry", "rollups", "hook"}

Slot(i) == (head + i) % BufferSize

(* The ring's entries, oldest first.                                       *)
Buffered == [i \in 1 .. count |-> ring[Slot(i - 1)]]

(* The chunk storeDrained() is at: the whole batch, unless a positive      *)
(* batch size bounds it.                                                   *)
ChunkEnd ==
  IF FlushBatchSize > 0 /\ offset + FlushBatchSize < Len(flight)
    THEN offset + FlushBatchSize
    ELSE Len(flight)

Chunk == SubSeq(flight, offset + 1, ChunkEnd)

ChunkSet == {flight[i] : i \in (offset + 1) .. ChunkEnd}

(* How many entries of the flight are settled: lost, or seen by the hook.  *)
Settled == IF phase = "hook" THEN ChunkEnd ELSE offset

Unsettled == SubSeq(flight, Settled + 1, Len(flight))

droppedCount == overflowDrops + storeFailedDrops + recordErrorDrops

Init ==
  /\ ring = [s \in Slots |-> NoEntry]
  /\ head = 0
  /\ count = 0
  /\ paused = FALSE
  /\ recorded = 0
  /\ highWater = 0
  /\ truncated = 0
  /\ overflowDrops = 0
  /\ recordErrorDrops = 0
  /\ storeFailedDrops = 0
  /\ retriedFlushes = 0
  /\ flushes = 0
  /\ flushedEntries = 0
  /\ flight = <<>>
  /\ offset = 0
  /\ phase = "idle"
  /\ persisted = {}
  /\ observed = <<>>
  /\ refused = 0

-----------------------------------------------------------------------------
(* record(): one of five outcomes.  A record that sampling rejects changes *)
(* nothing and is a stuttering step.                                       *)

MayRecord == recorded + refused + recordErrorDrops < MaxRecords

(* While paused a record is dropped and counted as an overflow.            *)
RecordPaused ==
  /\ MayRecord
  /\ paused
  /\ overflowDrops' = overflowDrops + 1
  /\ refused' = refused + 1
  /\ UNCHANGED <<truncated, recordErrorDrops>>
  /\ UNCHANGED <<ringVars, flightVars, settleVars, paused>>

(* enrich() or the host's filter throws, before or after clipping.         *)
RecordThrows ==
  /\ MayRecord
  /\ ~paused
  /\ recordErrorDrops' = recordErrorDrops + 1
  /\ truncated' \in {truncated, truncated + 1}
  /\ UNCHANGED <<overflowDrops, refused>>
  /\ UNCHANGED <<ringVars, flightVars, settleVars, paused>>

(* The host's filter excludes an entry enrich() had to clip.               *)
RecordFiltered ==
  /\ truncated < MaxRecords
  /\ ~paused
  /\ truncated' = truncated + 1
  /\ UNCHANGED <<overflowDrops, recordErrorDrops, refused>>
  /\ UNCHANGED <<ringVars, flightVars, settleVars, paused>>

(* push(): the new entry goes behind the youngest, in the oldest one's     *)
(* slot when the ring is full.                                             *)
Push ==
  /\ IF count >= BufferSize
       THEN /\ head' = Slot(1)
            /\ overflowDrops' = overflowDrops + 1
            /\ count' = count
       ELSE /\ head' = head
            /\ overflowDrops' = overflowDrops
            /\ count' = count + 1
  /\ ring' = [ring EXCEPT ![(head' + count' - 1) % BufferSize] = recorded + 1]
  /\ recorded' = recorded + 1
  /\ highWater' = IF count' > highWater THEN count' ELSE highWater

RecordAdmitted ==
  /\ MayRecord
  /\ ~paused
  /\ Push
  /\ truncated' \in {truncated, truncated + 1}
  /\ UNCHANGED <<recordErrorDrops, refused>>
  /\ UNCHANGED <<flightVars, settleVars, paused>>

Record == RecordPaused \/ RecordThrows \/ RecordFiltered \/ RecordAdmitted

(* The overload guard's two calls.                                         *)
Pause ==
  /\ ~paused
  /\ paused' = TRUE
  /\ UNCHANGED <<ringVars, captureVars, flightVars, settleVars>>

Resume ==
  /\ paused
  /\ paused' = FALSE
  /\ UNCHANGED <<ringVars, captureVars, flightVars, settleVars>>

-----------------------------------------------------------------------------
(* flush().  While another flush is pending it only returns that one's     *)
(* promise, and on an empty ring it returns at once: neither changes       *)
(* anything.  Otherwise it drains the ring and calls store() on the first  *)
(* chunk, all before its first await.                                      *)

Flushing == phase # "idle"

BeginFlush ==
  /\ ~Flushing
  /\ count > 0
  /\ flight' = Buffered
  /\ ring' = [s \in Slots |->
                IF \E i \in 0 .. (count - 1) : s = Slot(i) THEN NoEntry ELSE ring[s]]
  /\ head' = 0
  /\ count' = 0
  /\ offset' = 0
  /\ phase' = "store"
  /\ UNCHANGED <<recorded, highWater, captureVars, settleVars, paused>>

(* What follows a settled chunk: the next chunk's store(), or the end of   *)
(* the flush and its metrics.                                              *)
NextChunkOverlapping ==                  \* mutant: one entry further, not one chunk
  IF ChunkEnd < Len(flight)
    THEN /\ offset' = offset + 1
         /\ phase' = "store"
         /\ UNCHANGED <<flight, flushes, flushedEntries>>
    ELSE /\ flight' = <<>>
         /\ offset' = 0
         /\ phase' = "idle"
         /\ flushes' = flushes + 1
         /\ flushedEntries' = flushedEntries + Len(flight)

NextChunk ==
  IF ChunkEnd < Len(flight)
    THEN /\ offset' = ChunkEnd
         /\ phase' = "store"
         /\ UNCHANGED <<flight, flushes, flushedEntries>>
    ELSE /\ flight' = <<>>
         /\ offset' = 0
         /\ phase' = "idle"
         /\ flushes' = flushes + 1
         /\ flushedEntries' = flushedEntries + Len(flight)

(* store(chunk) resolves, at the first or at the second call.              *)
StoreSucceeds ==
  /\ phase \in {"store", "retry"}
  /\ persisted' = persisted \cup ChunkSet
  /\ phase' = "rollups"
  /\ UNCHANGED <<flight, offset, storeFailedDrops, retriedFlushes, flushes,
                 flushedEntries, observed>>
  /\ UNCHANGED <<ringVars, captureVars, paused>>

(* The first store(chunk) rejects.  The recorder cannot tell how much of   *)
(* the chunk the storage has nevertheless written.                         *)
StoreFails ==
  /\ phase = "store"
  /\ \E written \in SUBSET ChunkSet : persisted' = persisted \cup written
  /\ retriedFlushes' = retriedFlushes + 1
  /\ phase' = "backoff"
  /\ UNCHANGED <<flight, offset, storeFailedDrops, flushes, flushedEntries, observed>>
  /\ UNCHANGED <<ringVars, captureVars, paused>>

(* retryDelayMs elapses and store(chunk) is called again.                  *)
RetryStarts ==
  /\ phase = "backoff"
  /\ phase' = "retry"
  /\ UNCHANGED <<flight, offset>>
  /\ UNCHANGED <<ringVars, captureVars, settleVars, paused>>

(* The second store(chunk) rejects too: the chunk is given up.             *)
RetryFailsAsStored ==                    \* mutant: storeChunk ignores the result
  /\ phase = "retry"
  /\ \E written \in SUBSET ChunkSet : persisted' = persisted \cup written
  /\ phase' = "rollups"
  /\ UNCHANGED <<flight, offset, storeFailedDrops, retriedFlushes, flushes,
                 flushedEntries, observed>>
  /\ UNCHANGED <<ringVars, captureVars, paused>>

RetryFailsCountingOne ==                 \* mutant: a chunk is counted as one drop
  /\ phase = "retry"
  /\ \E written \in SUBSET ChunkSet : persisted' = persisted \cup written
  /\ storeFailedDrops' = storeFailedDrops + 1
  /\ NextChunk
  /\ UNCHANGED <<retriedFlushes, observed>>
  /\ UNCHANGED <<ringVars, captureVars, paused>>

RetryFails ==
  /\ phase = "retry"
  /\ \E written \in SUBSET ChunkSet : persisted' = persisted \cup written
  /\ storeFailedDrops' = storeFailedDrops + (ChunkEnd - offset)
  /\ NextChunk
  /\ UNCHANGED <<retriedFlushes, observed>>
  /\ UNCHANGED <<ringVars, captureVars, paused>>

(* recordRollups() settles, resolved or rejected, and onFlushStored is     *)
(* called with the chunk.                                                  *)
RollupsSettleWholeFlight ==              \* mutant: the hook gets the whole batch
  /\ phase = "rollups"
  /\ observed' = observed \o flight
  /\ phase' = "hook"
  /\ UNCHANGED <<flight, offset, storeFailedDrops, retriedFlushes, flushes,
                 flushedEntries, persisted>>
  /\ UNCHANGED <<ringVars, captureVars, paused>>

RollupsSettle ==
  /\ phase = "rollups"
  /\ observed' = observed \o Chunk
  /\ phase' = "hook"
  /\ UNCHANGED <<flight, offset, storeFailedDrops, retriedFlushes, flushes,
                 flushedEntries, persisted>>
  /\ UNCHANGED <<ringVars, captureVars, paused>>

(* onFlushStored settles, resolved or rejected.                            *)
HookSettles ==
  /\ phase = "hook"
  /\ NextChunk
  /\ UNCHANGED <<storeFailedDrops, retriedFlushes, persisted, observed>>
  /\ UNCHANGED <<ringVars, captureVars, paused>>

FlushStep ==
  \/ StoreSucceeds
  \/ StoreFails
  \/ RetryStarts
  \/ RetryFails
  \/ RollupsSettle
  \/ HookSettles

Next == Record \/ Pause \/ Resume \/ BeginFlush \/ FlushStep

Spec == Init /\ [][Next]_vars

(* The flush timer fires for ever (setInterval in telescope.service.ts),   *)
(* and every await of a flush settles: the back-off is a timer, and of the *)
(* storage and the hooks it is an assumption, for no call has a timeout.   *)
Fairness == WF_vars(BeginFlush) /\ WF_vars(FlushStep)

FairSpec == Spec /\ Fairness

-----------------------------------------------------------------------------
(* Properties.                                                             *)

TypeOK ==
  /\ ring \in [Slots -> Entry \cup {NoEntry}]
  /\ head \in Slots
  /\ count \in 0 .. BufferSize
  /\ paused \in BOOLEAN
  /\ recorded \in Nat
  /\ highWater \in Nat
  /\ truncated \in Nat
  /\ overflowDrops \in Nat
  /\ recordErrorDrops \in Nat
  /\ storeFailedDrops \in Nat
  /\ retriedFlushes \in Nat
  /\ flushes \in Nat
  /\ flushedEntries \in Nat
  /\ flight \in Seq(Entry)
  /\ offset \in Nat
  /\ phase \in Phases
  /\ persisted \in SUBSET Entry
  /\ observed \in Seq(Entry)
  /\ refused \in Nat

(* The ring holds exactly the youngest `count' entries, in order from      *)
(* head, and nothing in its other slots: eviction only ever takes the      *)
(* oldest (push), and a drained entry is not retained (drain, and the      *)
(* comment on retainedSlotCount).                                          *)
WindowOK ==
  /\ \A i \in 0 .. (count - 1) : ring[Slot(i)] = recorded - count + 1 + i
  /\ \A s \in Slots :
       ring[s] # NoEntry => \E i \in 0 .. (count - 1) : s = Slot(i)

(* Every record() that reached capture is in the ring, in the pending      *)
(* flush, handed to the observers, or counted in droppedCount: across      *)
(* pauses, throws, evictions, retries and chunks no entry is lost without  *)
(* being counted, and none is counted twice (getSelfMetrics).              *)
Conservation ==
  recorded + refused + recordErrorDrops
    = count + (Len(flight) - Settled) + Len(observed) + droppedCount

(* The flush metrics agree with the drops: what was ever pushed was        *)
(* evicted, drained by a flush, or is still there.                         *)
FlushAccounting ==
  recorded = (overflowDrops - refused) + flushedEntries + Len(flight) + count

(* Capture order survives chunking, retries and evictions: what observers  *)
(* saw, then what the pending flush holds, then the ring, is strictly      *)
(* increasing; nothing is handed out twice.                                *)
PipelineInOrder ==
  LET pipeline == observed \o Unsettled \o Buffered
  IN  \A i, j \in 1 .. Len(pipeline) : i < j => pipeline[i] < pipeline[j]

(* The hook (alerts, live updates, trace export) only ever sees entries    *)
(* the storage holds: no alert for a dropped chunk (storeChunk).           *)
ObservedPersisted == \A i \in 1 .. Len(observed) : observed[i] \in persisted

(* Still in the ring, or in the flush that is pending.                     *)
Pending(e) == (\E i \in 1 .. count : Buffered[i] = e)
              \/ (\E i \in 1 .. Len(Unsettled) : Unsettled[i] = e)

(* The recorder implements the capture pipe.                               *)
RangeOf(s) == {s[i] : i \in 1 .. Len(s)}

Pipe == INSTANCE CapturePipe WITH
          Capacity <- BufferSize,
          admitted <- recorded,
          buffered <- RangeOf(Buffered),
          taken    <- RangeOf(Unsettled),
          kept     <- RangeOf(observed),
          dropped  <- droppedCount

ImplementsPipe == Pipe!FairSpec
=============================================================================
