---------------------------- MODULE CaptureProofs ----------------------------
(***************************************************************************)
(* What holds of the recorder for every ring size, every chunk size and    *)
(* every number of records, and of the process whose timer, shutdown and   *)
(* crash handlers share it, for every set of crashes.                      *)
(*                                                                         *)
(* First the recorder by itself, and that it implements the abstract pipe. *)
(* Then the process: it runs a recorder, so the first part holds in it; no *)
(* promise flush() returned resolves early, and the storage is closed      *)
(* after the last one.                                                     *)
(***************************************************************************)
EXTENDS TelescopeHost, SequenceTheorems, FiniteSetTheorems, TLAPS

-----------------------------------------------------------------------------
(* Arithmetic of the ring: the slots from head are pairwise different.     *)

(* An index within one turn of the ring wraps at most once.                *)
LEMMA SlotCases ==
  ASSUME NEW h \in Slots, NEW i \in 0 .. BufferSize
  PROVE  (h + i) % BufferSize = IF h + i < BufferSize THEN h + i ELSE h + i - BufferSize
<1>1. CASE h + i < BufferSize
  BY <1>1, BufferSizeAssumption DEF Slots
<1>2. CASE h + i >= BufferSize /\ h + i < 2 * BufferSize
  BY <1>2, BufferSizeAssumption DEF Slots
<1>3. QED
  BY <1>1, <1>2, BufferSizeAssumption DEF Slots

(* Different offsets from head are different slots.                        *)
LEMMA SlotInjective ==
  ASSUME NEW h \in Slots, NEW i \in Slots, NEW j \in Slots,
         (h + i) % BufferSize = (h + j) % BufferSize
  PROVE  i = j
<1>0. /\ BufferSize \in Int /\ h \in Int /\ i \in Int /\ j \in Int
      /\ 0 <= h /\ 0 <= i /\ 0 <= j
      /\ h < BufferSize /\ i < BufferSize /\ j < BufferSize
      /\ i \in 0 .. BufferSize /\ j \in 0 .. BufferSize
  BY BufferSizeAssumption DEF Slots
<1>1. (h + i) % BufferSize = h + i \/ (h + i) % BufferSize = h + i - BufferSize
  BY <1>0, SlotCases
<1>2. (h + j) % BufferSize = h + j \/ (h + j) % BufferSize = h + j - BufferSize
  BY <1>0, SlotCases
<1>3. QED
  BY <1>0, <1>1, <1>2

(* Every slot is at an offset from head of less than one turn.             *)
LEMMA SlotOnto ==
  ASSUME NEW h \in Slots, NEW s \in Slots
  PROVE  \E i \in Slots : s = (h + i) % BufferSize
<1>0. /\ BufferSize \in Int /\ h \in Int /\ s \in Int
      /\ 0 <= h /\ 0 <= s /\ h < BufferSize /\ s < BufferSize
  BY BufferSizeAssumption DEF Slots
<1>1. CASE s >= h
  <2>1. s - h \in Slots /\ h + (s - h) = s
    BY <1>0, <1>1 DEF Slots
  <2>2. s % BufferSize = s
    BY <1>0
  <2>3. QED
    BY <2>1, <2>2
<1>2. CASE s < h
  <2>1. s - h + BufferSize \in Slots /\ h + (s - h + BufferSize) = s + BufferSize
    BY <1>0, <1>2 DEF Slots
  <2>2. (s + BufferSize) % BufferSize = s
    BY <1>0, SlotCases
  <2>3. QED
    BY <2>1, <2>2
<1>3. QED
  BY <1>0, <1>1, <1>2

(* Moving head one slot on moves every offset one slot on; the last offset *)
(* is then the old head.                                                   *)
LEMMA SlotShift ==
  ASSUME NEW h \in Slots, NEW g \in Slots, g = (h + 1) % BufferSize
  PROVE  /\ (g + BufferSize - 1) % BufferSize = h
         /\ \A i \in 0 .. (BufferSize - 2) :
              /\ (g + i) % BufferSize = (h + (i + 1)) % BufferSize
              /\ (g + i) % BufferSize # h
              /\ (g + i) % BufferSize \in Slots
<1>0. /\ BufferSize \in Int /\ BufferSize > 0 /\ h \in Int /\ g \in Int
      /\ 0 <= h /\ 0 <= g /\ h < BufferSize /\ g < BufferSize
  BY BufferSizeAssumption DEF Slots
<1>1. CASE h + 1 < BufferSize
  <2>1. g = h + 1
    BY <1>0, <1>1, SlotCases
  <2>2. QED
    BY <1>0, <1>1, <2>1, SlotCases DEF Slots
<1>2. CASE h + 1 = BufferSize
  <2>1. g = 0
    BY <1>0, <1>2, SlotCases
  <2>2. QED
    BY <1>0, <1>2, <2>1, SlotCases DEF Slots
<1>3. QED
  BY <1>0, <1>1, <1>2

(* Every offset names a slot.                                              *)
LEMMA SlotRange ==
  ASSUME NEW h \in Slots, NEW i \in 0 .. BufferSize
  PROVE  (h + i) % BufferSize \in Slots
BY SlotCases, BufferSizeAssumption DEF Slots

-----------------------------------------------------------------------------
(* The state of the pending flush: nothing when idle, otherwise a batch    *)
(* with a chunk left to settle.                                            *)
FlightOK ==
  /\ phase = "idle" => flight = <<>> /\ offset = 0
  /\ phase # "idle" => offset < Len(flight)

CountOK == count <= recorded

Shape == TypeOK /\ WindowOK /\ CountOK /\ FlightOK

(* The ring, read from head, is a sequence of entries.                     *)
LEMMA BufferedFacts ==
  ASSUME TypeOK, WindowOK, CountOK
  PROVE  /\ Buffered \in Seq(Entry)
         /\ Len(Buffered) = count
         /\ \A i \in 1 .. count : Buffered[i] = recorded - count + i
<1>1. \A i \in 1 .. count : ring[Slot(i - 1)] = recorded - count + i
  BY DEF TypeOK, WindowOK
<1>2. \A i \in 1 .. count : ring[Slot(i - 1)] \in Entry
  BY <1>1, BufferSizeAssumption DEF TypeOK, CountOK, Entry
<1>3. Buffered \in [1 .. count -> Entry]
  BY <1>2 DEF Buffered
<1>4. count \in Nat
  BY BufferSizeAssumption DEF TypeOK
<1>5. Buffered \in Seq(Entry) /\ Len(Buffered) = count
  BY <1>3, <1>4
<1>6. QED
  BY <1>1, <1>5 DEF Buffered

(* The chunk of a pending flush is not empty and lies inside the batch.    *)
LEMMA ChunkEndFacts ==
  ASSUME TypeOK, FlightOK, phase # "idle"
  PROVE  /\ Len(flight) \in Nat
         /\ ChunkEnd \in Nat
         /\ offset < ChunkEnd
         /\ ChunkEnd <= Len(flight)
<1>1. Len(flight) \in Nat
  BY LenProperties DEF TypeOK
<1>2. QED
  BY <1>1, FlushBatchSizeAssumption DEF TypeOK, FlightOK, ChunkEnd

LEMMA ChunkFacts ==
  ASSUME TypeOK, FlightOK, phase # "idle"
  PROVE  /\ Chunk \in Seq(Entry)
         /\ Len(Chunk) = ChunkEnd - offset
         /\ \A i \in 1 .. (ChunkEnd - offset) : Chunk[i] = flight[offset + i]
         /\ ChunkSet \subseteq Entry
<1>1. \A i \in (offset + 1) .. ChunkEnd : flight[i] \in Entry
  BY ChunkEndFacts, ElementOfSeq DEF TypeOK
<1>2. offset + 1 \in Int /\ ChunkEnd \in Int /\ offset < ChunkEnd /\ offset \in Nat
  BY ChunkEndFacts DEF TypeOK
<1>3. /\ SubSeq(flight, offset + 1, ChunkEnd) \in Seq(Entry)
      /\ Len(SubSeq(flight, offset + 1, ChunkEnd)) = ChunkEnd - offset
      /\ \A i \in 1 .. (ChunkEnd - offset) :
            SubSeq(flight, offset + 1, ChunkEnd)[i] = flight[offset + i]
  <2>1. /\ SubSeq(flight, offset + 1, ChunkEnd) \in Seq(Entry)
        /\ Len(SubSeq(flight, offset + 1, ChunkEnd))
             = IF offset + 1 <= ChunkEnd THEN ChunkEnd - (offset + 1) + 1 ELSE 0
        /\ \A i \in 1 .. ChunkEnd - (offset + 1) + 1 :
              SubSeq(flight, offset + 1, ChunkEnd)[i] = flight[offset + 1 + i - 1]
    BY <1>1, <1>2, SubSeqProperties
  <2>2. QED
    BY <2>1, <1>2
<1>4. QED
  BY <1>1, <1>3 DEF Chunk, ChunkSet

-----------------------------------------------------------------------------
(* push() keeps the window.                                                *)
LEMMA PushShape ==
  ASSUME TypeOK, WindowOK, CountOK, Push
  PROVE  /\ ring' \in [Slots -> Entry \cup {NoEntry}]
         /\ head' \in Slots
         /\ count' \in 0 .. BufferSize
         /\ recorded' \in Nat
         /\ highWater' \in Nat
         /\ overflowDrops' \in Nat
         /\ WindowOK'
         /\ CountOK'
<1>0. /\ BufferSize \in Nat /\ BufferSize > 0 /\ head \in Slots /\ recorded \in Nat
      /\ count \in 0 .. BufferSize /\ ring \in [Slots -> Entry \cup {NoEntry}]
      /\ overflowDrops \in Nat /\ highWater \in Nat
  BY BufferSizeAssumption DEF TypeOK
<1>1. recorded + 1 \in Entry
  BY <1>0 DEF Entry
<1>2. CASE count < BufferSize
  <2>1. /\ head' = head /\ count' = count + 1 /\ recorded' = recorded + 1
        /\ overflowDrops' = overflowDrops
        /\ ring' = [ring EXCEPT ![(head + count) % BufferSize] = recorded + 1]
    <3>1. ~ (count >= BufferSize)
      BY <1>0, <1>2
    <3>2. /\ head' = head /\ count' = count + 1 /\ recorded' = recorded + 1
          /\ overflowDrops' = overflowDrops
          /\ ring' = [ring EXCEPT ![(head' + count' - 1) % BufferSize] = recorded + 1]
      BY <3>1 DEF Push
    <3>3. head' + count' - 1 = head + count
      BY <3>2, <1>0 DEF Slots
    <3> QED
      BY <3>2, <3>3
  <2>2. (head + count) % BufferSize \in Slots
    BY <1>0, SlotRange
  <2>3. \A i \in 0 .. (count - 1) :
           (head + i) % BufferSize # (head + count) % BufferSize
    <3> SUFFICES ASSUME NEW i \in 0 .. (count - 1),
                        (head + i) % BufferSize = (head + count) % BufferSize
                 PROVE  FALSE
      OBVIOUS
    <3>1. i \in Slots /\ count \in Slots
      BY <1>0, <1>2 DEF Slots
    <3>2. i = count
      BY <1>0, <3>1, SlotInjective
    <3> QED
      BY <3>2, <1>0
  <2>4. \A i \in 0 .. count :
           ring'[(head + i) % BufferSize] = recorded - count + 1 + i
    <3> TAKE i \in 0 .. count
    <3>1. (head + i) % BufferSize \in Slots
      BY <1>0, SlotRange
    <3>2. CASE i = count
      BY <2>1, <2>2, <3>2, <1>0
    <3>3. CASE i # count
      <4>1. i \in 0 .. (count - 1)
        BY <3>3, <1>0
      <4>2. ring[(head + i) % BufferSize] = recorded - count + 1 + i
        BY <4>1 DEF WindowOK, Slot
      <4> QED
        BY <4>1, <4>2, <2>1, <2>3, <3>1, <1>0
    <3> QED
      BY <3>2, <3>3
  <2>5. \A s \in Slots : ring'[s] # NoEntry
           => \E i \in 0 .. count : s = (head + i) % BufferSize
    <3> SUFFICES ASSUME NEW s \in Slots, ring'[s] # NoEntry
                 PROVE  \E i \in 0 .. count : s = (head + i) % BufferSize
      OBVIOUS
    <3>1. CASE s = (head + count) % BufferSize
      BY <3>1, <1>0
    <3>2. CASE s # (head + count) % BufferSize
      <4>1. ring[s] # NoEntry
        BY <3>2, <2>1, <1>0
      <4> QED
        BY <4>1, <1>0 DEF WindowOK, Slot
    <3> QED
      BY <3>1, <3>2
  <2>6. WindowOK'
    BY <2>1, <2>4, <2>5, <1>0 DEF WindowOK, Slot
  <2>7. ring' \in [Slots -> Entry \cup {NoEntry}]
    BY <2>1, <1>0, <1>1
  <2>8. highWater' \in Nat
    BY <2>1, <1>0 DEF Push
  <2> QED
    BY <2>1, <2>6, <2>7, <2>8, <1>0, <1>2 DEF CountOK
<1>3. CASE count >= BufferSize
  <2>0. count = BufferSize
    BY <1>0, <1>3
  <2>1. /\ head' = (head + 1) % BufferSize /\ count' = count /\ recorded' = recorded + 1
        /\ overflowDrops' = overflowDrops + 1
        /\ ring' = [ring EXCEPT ![(head' + count - 1) % BufferSize] = recorded + 1]
    BY <1>0, <1>3 DEF Push, Slot
  <2>2. head' \in Slots
    BY <1>0, <2>1, SlotRange
  <2>3. (head' + count - 1) % BufferSize = head
    BY <1>0, <2>0, <2>1, <2>2, SlotShift
  <2>4. \A i \in 0 .. (BufferSize - 2) :
           /\ (head' + i) % BufferSize = (head + (i + 1)) % BufferSize
           /\ (head' + i) % BufferSize # head
           /\ (head' + i) % BufferSize \in Slots
    BY <1>0, <2>1, <2>2, SlotShift
  <2>5. \A i \in 0 .. (count - 1) :
           ring'[(head' + i) % BufferSize] = recorded' - count + 1 + i
    <3> TAKE i \in 0 .. (count - 1)
    <3>1. CASE i = count - 1
      <4>1. (head' + i) % BufferSize = head
        <5>1. head' + i = head' + count - 1
          BY <3>1, <1>0, <2>2 DEF Slots
        <5> QED
          BY <5>1, <2>3
      <4> QED
        BY <4>1, <3>1, <2>1, <2>3, <1>0
    <3>2. CASE i # count - 1
      <4>1. i \in 0 .. (BufferSize - 2) /\ i + 1 \in 0 .. (count - 1)
        BY <3>2, <2>0, <1>0
      <4>2. ring[(head + (i + 1)) % BufferSize] = recorded - count + 1 + (i + 1)
        BY <4>1 DEF WindowOK, Slot
      <4>3. ring'[(head' + i) % BufferSize] = ring[(head + (i + 1)) % BufferSize]
        BY <4>1, <2>4, <2>3, <2>1, <1>0
      <4> QED
        BY <4>1, <4>2, <4>3, <2>1, <1>0
    <3> QED
      BY <3>1, <3>2
  <2>6. \A s \in Slots : \E i \in 0 .. (count - 1) : s = (head' + i) % BufferSize
    <3>1. 0 .. (count - 1) = Slots
      BY <2>0 DEF Slots
    <3>2. QED
      BY <3>1, <2>2, SlotOnto
  <2>7. WindowOK'
    BY <2>1, <2>5, <2>6, <1>0 DEF WindowOK, Slot
  <2>8. ring' \in [Slots -> Entry \cup {NoEntry}]
    BY <2>1, <1>0, <1>1
  <2>9. highWater' \in Nat
    BY <2>1, <1>0 DEF Push
  <2> QED
    BY <2>1, <2>2, <2>7, <2>8, <2>9, <1>0, <1>3 DEF CountOK
<1>4. QED
  BY <1>0, <1>2, <1>3
-----------------------------------------------------------------------------
(* Each action keeps the shape of the state.                               *)

(* RecordPaused, RecordThrows, RecordFiltered, Pause and Resume touch only *)
(* counters and the flag.                                                  *)
LEMMA CounterShape ==
  ASSUME Shape, RecordPaused \/ RecordThrows \/ RecordFiltered \/ Pause \/ Resume
  PROVE  Shape'
<1>0. UNCHANGED <<ringVars, flightVars, settleVars>>
  BY DEF RecordPaused, RecordThrows, RecordFiltered, Pause, Resume
<1>1. /\ overflowDrops' \in Nat /\ refused' \in Nat /\ truncated' \in Nat
      /\ recordErrorDrops' \in Nat
  <2>0. /\ overflowDrops \in Nat /\ refused \in Nat /\ truncated \in Nat
        /\ recordErrorDrops \in Nat
    BY DEF Shape, TypeOK
  <2>1. CASE RecordPaused
    BY <2>0, <2>1 DEF RecordPaused
  <2>2. CASE RecordThrows
    BY <2>0, <2>2 DEF RecordThrows
  <2>3. CASE RecordFiltered
    BY <2>0, <2>3 DEF RecordFiltered
  <2>4. CASE Pause \/ Resume
    BY <2>0, <2>4 DEF Pause, Resume, captureVars
  <2>5. QED
    BY <2>1, <2>2, <2>3, <2>4
<1>a. paused' \in BOOLEAN
  BY DEF Shape, TypeOK, RecordPaused, RecordThrows, RecordFiltered, Pause, Resume
<1>2. TypeOK'
  BY <1>0, <1>1, <1>a DEF Shape, TypeOK, ringVars, flightVars, settleVars
<1>3. WindowOK' /\ CountOK' /\ FlightOK'
  BY <1>0 DEF Shape, WindowOK, CountOK, FlightOK, Slot, ringVars, flightVars
<1>4. QED
  BY <1>2, <1>3 DEF Shape

LEMMA AdmittedShape ==
  ASSUME Shape, RecordAdmitted
  PROVE  Shape'
<1>1. /\ UNCHANGED <<flightVars, settleVars, recordErrorDrops, refused, paused>>
      /\ truncated' \in Nat
      /\ Push
  BY DEF Shape, TypeOK, RecordAdmitted
<1>2. TypeOK' /\ WindowOK' /\ CountOK'
  BY <1>1, PushShape DEF Shape, TypeOK, flightVars, settleVars
<1>3. FlightOK'
  BY <1>1 DEF Shape, FlightOK, flightVars
<1>4. QED
  BY <1>2, <1>3 DEF Shape

(* A drain leaves an empty ring behind and a batch with a chunk to store.  *)
LEMMA BeginFlushShape ==
  ASSUME Shape, BeginFlush
  PROVE  Shape'
<1>1. /\ count \in Nat /\ count > 0 /\ head \in Slots
      /\ Buffered \in Seq(Entry) /\ Len(Buffered) = count
  BY BufferedFacts, BufferSizeAssumption DEF Shape, TypeOK, BeginFlush
<1>2. /\ head' = 0 /\ count' = 0 /\ flight' = Buffered /\ offset' = 0 /\ phase' = "store"
      /\ UNCHANGED <<recorded, highWater, captureVars, settleVars, paused>>
      /\ ring' = [s \in Slots |->
            IF \E i \in 0 .. (count - 1) : s = Slot(i) THEN NoEntry ELSE ring[s]]
  BY DEF BeginFlush
<1>3. \A s \in Slots : ring'[s] = NoEntry
  BY <1>2 DEF Shape, WindowOK
<1>4. ring' \in [Slots -> Entry \cup {NoEntry}]
  BY <1>2, <1>3
<1>5. 0 \in Slots /\ 0 \in 0 .. BufferSize
  BY BufferSizeAssumption DEF Slots
<1>6. TypeOK'
  BY <1>1, <1>2, <1>4, <1>5 DEF Shape, TypeOK, captureVars, settleVars, Phases
<1>7. WindowOK'
  BY <1>2, <1>3 DEF WindowOK
<1>8. CountOK' /\ FlightOK'
  BY <1>1, <1>2 DEF Shape, TypeOK, CountOK, FlightOK
<1>9. QED
  BY <1>6, <1>7, <1>8 DEF Shape

(* A step of the pending flush leaves the ring alone.                      *)
LEMMA RingUntouched ==
  ASSUME Shape, FlushStep
  PROVE  /\ WindowOK' /\ CountOK'
         /\ UNCHANGED <<ringVars, captureVars, paused>>
<1>1. UNCHANGED <<ringVars, captureVars, paused>>
  BY DEF FlushStep, StoreSucceeds, StoreFails, RetryStarts, RetryFails, RollupsSettle, HookSettles
<1>2. QED
  BY <1>1 DEF Shape, WindowOK, CountOK, Slot, ringVars

(* After a settled chunk comes a chunk to store, or an idle recorder.      *)
LEMMA NextChunkShape ==
  ASSUME Shape, phase # "idle", NextChunk
  PROVE  /\ flight' \in Seq(Entry) /\ offset' \in Nat /\ phase' \in Phases
         /\ flushes' \in Nat /\ flushedEntries' \in Nat
         /\ FlightOK'
<1>1. /\ Len(flight) \in Nat /\ ChunkEnd \in Nat /\ flight \in Seq(Entry)
      /\ flushes \in Nat /\ flushedEntries \in Nat
  BY ChunkEndFacts DEF Shape, TypeOK
<1>2. CASE ChunkEnd < Len(flight)
  BY <1>1, <1>2 DEF NextChunk, FlightOK, Phases
<1>3. CASE ~(ChunkEnd < Len(flight))
  BY <1>1, <1>3, EmptySeq DEF NextChunk, FlightOK, Phases
<1>4. QED
  BY <1>2, <1>3

LEMMA FlushStepShape ==
  ASSUME Shape, FlushStep
  PROVE  Shape'
<1>0. TypeOK /\ FlightOK
  BY DEF Shape
<1>1. phase # "idle"
  BY DEF FlushStep, StoreSucceeds, StoreFails, RetryStarts, RetryFails, RollupsSettle, HookSettles
<1>2. /\ Chunk \in Seq(Entry) /\ ChunkSet \subseteq Entry
      /\ ChunkEnd - offset \in Nat
  <2>1. ChunkEnd \in Nat /\ offset < ChunkEnd /\ offset \in Nat
    BY <1>0, <1>1, ChunkEndFacts DEF TypeOK
  <2>2. QED
    BY <1>0, <1>1, <2>1, ChunkFacts
<1>3. UNCHANGED <<ringVars, captureVars, paused>> /\ WindowOK' /\ CountOK'
  BY RingUntouched
<1>4. CASE StoreSucceeds
  <2>1. persisted' \in SUBSET Entry
    BY <1>0, <1>2, <1>4 DEF StoreSucceeds, TypeOK
  <2>2. QED
    BY <1>0, <1>3, <1>4, <2>1
    DEF StoreSucceeds, Shape, TypeOK, FlightOK, Phases, ringVars, captureVars
<1>5. CASE StoreFails
  <2>1. persisted' \in SUBSET Entry
    BY <1>0, <1>2, <1>5 DEF StoreFails, TypeOK
  <2>2. QED
    BY <1>0, <1>3, <1>5, <2>1
    DEF StoreFails, Shape, TypeOK, FlightOK, Phases, ringVars, captureVars
<1>6. CASE RetryStarts
  BY <1>0, <1>3, <1>6
  DEF RetryStarts, Shape, TypeOK, FlightOK, Phases, ringVars, captureVars, settleVars
<1>7. CASE RetryFails
  <2>1. persisted' \in SUBSET Entry
    BY <1>0, <1>2, <1>7 DEF RetryFails, TypeOK
  <2>2. storeFailedDrops' \in Nat
    BY <1>0, <1>2, <1>7 DEF RetryFails, TypeOK
  <2>3. NextChunk /\ UNCHANGED <<retriedFlushes, observed>>
    BY <1>7 DEF RetryFails
  <2>4. QED
    BY <1>0, <1>1, <1>3, <2>1, <2>2, <2>3, NextChunkShape
    DEF Shape, TypeOK, ringVars, captureVars
<1>8. CASE RollupsSettle
  <2>1. observed' \in Seq(Entry)
    BY <1>0, <1>2, <1>8, ConcatProperties DEF RollupsSettle, TypeOK
  <2>2. QED
    BY <1>0, <1>3, <1>8, <2>1
    DEF RollupsSettle, Shape, TypeOK, FlightOK, Phases, ringVars, captureVars
<1>9. CASE HookSettles
  <2>1. NextChunk /\ UNCHANGED <<storeFailedDrops, retriedFlushes, persisted, observed>>
    BY <1>9 DEF HookSettles
  <2>2. QED
    BY <1>0, <1>1, <1>3, <2>1, NextChunkShape
    DEF Shape, TypeOK, ringVars, captureVars
<1>10. QED
  BY <1>4, <1>5, <1>6, <1>7, <1>8, <1>9 DEF FlushStep

LEMMA InitShape == Init => Shape
<1> SUFFICES ASSUME Init PROVE Shape
  OBVIOUS
<1>1. 0 \in Slots /\ 0 \in 0 .. BufferSize
  BY BufferSizeAssumption DEF Slots
<1>2. ring \in [Slots -> Entry \cup {NoEntry}]
  BY DEF Init
<1>3. TypeOK
  BY <1>1, <1>2, EmptySeq DEF Init, TypeOK, Phases
<1>4. WindowOK /\ CountOK /\ FlightOK
  BY <1>1 DEF Init, WindowOK, CountOK, FlightOK
<1>5. QED
  BY <1>3, <1>4 DEF Shape

LEMMA NextShape == Shape /\ [Next]_vars => Shape'
<1> SUFFICES ASSUME Shape, [Next]_vars PROVE Shape'
  OBVIOUS
<1>1. CASE RecordPaused \/ RecordThrows \/ RecordFiltered \/ Pause \/ Resume
  BY <1>1, CounterShape
<1>2. CASE RecordAdmitted
  BY <1>2, AdmittedShape
<1>3. CASE BeginFlush
  BY <1>3, BeginFlushShape
<1>4. CASE FlushStep
  BY <1>4, FlushStepShape
<1>5. CASE UNCHANGED vars
  BY <1>5 DEF Shape, TypeOK, WindowOK, CountOK, FlightOK, Slot, vars, ringVars,
              captureVars, flightVars, settleVars
<1>6. QED
  BY <1>1, <1>2, <1>3, <1>4, <1>5 DEF Next, Record

LEMMA ShapeInvariant == Spec => []Shape
<1>1. QED
  BY InitShape, NextShape, PTL DEF Spec

(* The recorder's fields keep their types, whatever its sizes are.         *)
THEOREM TypeInvariant == Spec => []TypeOK
<1>1. Shape => TypeOK
  BY DEF Shape
<1>2. QED
  BY <1>1, ShapeInvariant, PTL

(* The ring always holds the youngest entries, in capture order, and       *)
(* retains no drained one (push, drain).                                   *)
THEOREM WindowInvariant == Spec => []WindowOK
<1>1. Shape => WindowOK
  BY DEF Shape
<1>2. QED
  BY <1>1, ShapeInvariant, PTL

-----------------------------------------------------------------------------
(* The books balance.                                                      *)

Books == Conservation /\ FlushAccounting

(* The numbers the accounting equations are about.                         *)
Integral ==
  /\ recorded \in Int /\ refused \in Int /\ recordErrorDrops \in Int
  /\ count \in Int /\ overflowDrops \in Int /\ storeFailedDrops \in Int
  /\ flushedEntries \in Int /\ offset \in Int
  /\ Len(flight) \in Int /\ Len(observed) \in Int /\ ChunkEnd \in Int
  /\ Settled \in Int

LEMMA Numbers ==
  ASSUME TypeOK, FlightOK
  PROVE  Integral
<1>1. /\ Len(flight) \in Int /\ Len(observed) \in Int
  BY LenProperties DEF TypeOK
<1>2. ChunkEnd \in Int
  BY <1>1, FlushBatchSizeAssumption DEF TypeOK, ChunkEnd
<1>3. QED
  BY <1>1, <1>2, BufferSizeAssumption DEF TypeOK, Settled, Integral

LEMMA CaptureBooks ==
  ASSUME Shape, Books, Record \/ Pause \/ Resume
  PROVE  Books'
<1>t. TypeOK /\ FlightOK
  BY DEF Shape
<1>0. Integral
  BY <1>t, Numbers
<1>1. UNCHANGED <<flightVars, settleVars>>
  BY DEF Record, RecordPaused, RecordThrows, RecordFiltered, RecordAdmitted, Pause, Resume
<1>2. /\ Len(flight') = Len(flight) /\ Len(observed') = Len(observed)
      /\ Settled' = Settled /\ storeFailedDrops' = storeFailedDrops
      /\ flushedEntries' = flushedEntries
  BY <1>1 DEF flightVars, settleVars, Settled, ChunkEnd
<1>3. droppedCount \in Int
  BY <1>0 DEF Integral, droppedCount
<1>4. CASE RecordPaused
  <2>1. /\ recorded' = recorded /\ count' = count /\ recordErrorDrops' = recordErrorDrops
        /\ overflowDrops' = overflowDrops + 1 /\ refused' = refused + 1
    BY <1>4 DEF RecordPaused, ringVars
  <2>2. droppedCount' = droppedCount + 1
    BY <1>0, <1>2, <2>1 DEF Integral, droppedCount
  <2>3. Conservation'
    BY <1>0, <1>2, <1>3, <2>1, <2>2 DEF Integral, Books, Conservation
  <2>4. FlushAccounting'
    BY <1>0, <1>2, <2>1 DEF Integral, Books, FlushAccounting
  <2>5. QED
    BY <2>3, <2>4 DEF Books
<1>5. CASE RecordThrows
  <2>1. /\ recorded' = recorded /\ count' = count /\ refused' = refused
        /\ overflowDrops' = overflowDrops /\ recordErrorDrops' = recordErrorDrops + 1
    BY <1>5 DEF RecordThrows, ringVars
  <2>2. droppedCount' = droppedCount + 1
    BY <1>0, <1>2, <2>1 DEF Integral, droppedCount
  <2>3. Conservation'
    BY <1>0, <1>2, <1>3, <2>1, <2>2 DEF Integral, Books, Conservation
  <2>4. FlushAccounting'
    BY <1>0, <1>2, <2>1 DEF Integral, Books, FlushAccounting
  <2>5. QED
    BY <2>3, <2>4 DEF Books
<1>6. CASE RecordFiltered \/ Pause \/ Resume
  <2>1. /\ recorded' = recorded /\ count' = count /\ refused' = refused
        /\ overflowDrops' = overflowDrops /\ recordErrorDrops' = recordErrorDrops
    BY <1>6 DEF RecordFiltered, Pause, Resume, ringVars, captureVars
  <2>2. QED
    BY <1>2, <2>1 DEF Books, Conservation, FlushAccounting, droppedCount
<1>7. CASE RecordAdmitted
  <2>1. /\ recorded' = recorded + 1 /\ recordErrorDrops' = recordErrorDrops
        /\ refused' = refused
    BY <1>7 DEF RecordAdmitted, Push
  <2>2. CASE count >= BufferSize
    <3>1. overflowDrops' = overflowDrops + 1 /\ count' = count
      BY <1>7, <2>2 DEF RecordAdmitted, Push
    <3>2. droppedCount' = droppedCount + 1
      BY <1>0, <1>2, <2>1, <3>1 DEF Integral, droppedCount
    <3>3. Conservation'
      BY <1>0, <1>2, <1>3, <2>1, <3>1, <3>2 DEF Integral, Books, Conservation
    <3>4. FlushAccounting'
      BY <1>0, <1>2, <2>1, <3>1 DEF Integral, Books, FlushAccounting
    <3>5. QED
      BY <3>3, <3>4 DEF Books
  <2>3. CASE ~(count >= BufferSize)
    <3>1. overflowDrops' = overflowDrops /\ count' = count + 1
      BY <1>7, <2>3 DEF RecordAdmitted, Push
    <3>2. droppedCount' = droppedCount
      BY <1>2, <2>1, <3>1 DEF droppedCount
    <3>3. Conservation'
      BY <1>0, <1>2, <1>3, <2>1, <3>1, <3>2 DEF Integral, Books, Conservation
    <3>4. FlushAccounting'
      BY <1>0, <1>2, <2>1, <3>1 DEF Integral, Books, FlushAccounting
    <3>5. QED
      BY <3>3, <3>4 DEF Books
  <2>4. QED
    BY <2>2, <2>3
<1>8. QED
  BY <1>4, <1>5, <1>6, <1>7 DEF Record

LEMMA BeginFlushBooks ==
  ASSUME Shape, Books, BeginFlush
  PROVE  Books'
<1>t. TypeOK /\ FlightOK
  BY DEF Shape
<1>0. Integral
  BY <1>t, Numbers
<1>1. /\ Len(flight) = 0 /\ Settled = 0
  BY <1>t, EmptySeq DEF BeginFlush, Flushing, FlightOK, Settled
<1>2. /\ Len(flight') = count /\ count' = 0 /\ Settled' = 0
  BY <1>t, BufferedFacts DEF Shape, BeginFlush, Settled
<1>3. /\ recorded' = recorded /\ refused' = refused /\ recordErrorDrops' = recordErrorDrops
      /\ droppedCount' = droppedCount /\ overflowDrops' = overflowDrops
      /\ flushedEntries' = flushedEntries /\ observed' = observed
  BY DEF BeginFlush, captureVars, settleVars, droppedCount
<1>4. droppedCount \in Int
  BY <1>0 DEF Integral, droppedCount
<1>5. Conservation'
  BY <1>0, <1>1, <1>2, <1>3, <1>4 DEF Integral, Books, Conservation
<1>6. FlushAccounting'
  BY <1>0, <1>1, <1>2, <1>3 DEF Integral, Books, FlushAccounting
<1>7. QED
  BY <1>5, <1>6 DEF Books

(* NextChunk moves entries from the flight to the flushed, and none twice. *)
LEMMA NextChunkBooks ==
  ASSUME Shape, phase # "idle", NextChunk
  PROVE  /\ Len(flight') \in Int /\ Settled' \in Int /\ flushedEntries' \in Int
         /\ Len(flight') - Settled' = Len(flight) - ChunkEnd
         /\ flushedEntries' + Len(flight') = flushedEntries + Len(flight)
<1>t. TypeOK /\ FlightOK
  BY DEF Shape
<1>0. Integral
  BY <1>t, Numbers
<1>1. /\ Len(flight) \in Nat /\ ChunkEnd \in Nat /\ ChunkEnd <= Len(flight)
      /\ flushedEntries \in Nat
  BY <1>t, ChunkEndFacts DEF TypeOK
<1>2. CASE ChunkEnd < Len(flight)
  <2>1. flight' = flight /\ Settled' = ChunkEnd /\ flushedEntries' = flushedEntries
    BY <1>2 DEF NextChunk, Settled
  <2>2. QED
    BY <1>1, <2>1
<1>3. CASE ~(ChunkEnd < Len(flight))
  <2>1. flight' = <<>> /\ Settled' = 0 /\ flushedEntries' = flushedEntries + Len(flight)
    BY <1>3 DEF NextChunk, Settled
  <2>2. Len(flight') = 0
    BY <2>1, EmptySeq
  <2>3. QED
    BY <1>1, <1>3, <2>1, <2>2
<1>4. QED
  BY <1>2, <1>3

LEMMA FlushStepBooks ==
  ASSUME Shape, Books, FlushStep
  PROVE  Books'
<1>t. TypeOK /\ FlightOK
  BY DEF Shape
<1>0. Integral
  BY <1>t, Numbers
<1>1. phase # "idle"
  BY DEF FlushStep, StoreSucceeds, StoreFails, RetryStarts, RetryFails, RollupsSettle, HookSettles
<1>2. UNCHANGED <<ringVars, captureVars>>
  BY RingUntouched
<1>3. CASE StoreSucceeds \/ StoreFails \/ RetryStarts
  <2>1. UNCHANGED <<flight, offset, storeFailedDrops, flushedEntries, observed>>
    BY <1>3 DEF StoreSucceeds, StoreFails, RetryStarts, settleVars
  <2>2. Settled' = Settled
    BY <1>3, <2>1 DEF StoreSucceeds, StoreFails, RetryStarts, Settled
  <2>3. QED
    BY <1>2, <2>1, <2>2
    DEF Books, Conservation, FlushAccounting, droppedCount, ringVars, captureVars
<1>4. CASE RetryFails
  <2>1. /\ storeFailedDrops' = storeFailedDrops + (ChunkEnd - offset)
        /\ NextChunk /\ observed' = observed /\ Settled = offset
    BY <1>4 DEF RetryFails, Settled
  <2>2. /\ Len(flight') \in Int /\ Settled' \in Int /\ flushedEntries' \in Int
        /\ Len(flight') - Settled' = Len(flight) - ChunkEnd
        /\ flushedEntries' + Len(flight') = flushedEntries + Len(flight)
    BY <1>1, <2>1, NextChunkBooks
  <2>3. /\ recorded' = recorded /\ refused' = refused /\ recordErrorDrops' = recordErrorDrops
        /\ overflowDrops' = overflowDrops /\ count' = count
    BY <1>2 DEF ringVars, captureVars
  <2>4. PICK len \in Int, settled \in Int, flushed \in Int :
          len = Len(flight') /\ settled = Settled' /\ flushed = flushedEntries'
    BY <2>2
  <2>5. /\ len - settled = Len(flight) - ChunkEnd
        /\ flushed + len = flushedEntries + Len(flight)
    BY <2>2, <2>4
  <2>6. recorded + refused + recordErrorDrops = count + (len - settled) + Len(observed)
          + (overflowDrops + storeFailedDrops' + recordErrorDrops)
    BY <1>0, <2>1, <2>5 DEF Integral, Books, Conservation, droppedCount
  <2>7. recorded = (overflowDrops - refused) + flushed + len + count
    BY <1>0, <2>5 DEF Integral, Books, FlushAccounting
  <2>8. Conservation'
    BY <2>1, <2>3, <2>4, <2>6 DEF Conservation, droppedCount
  <2>9. FlushAccounting'
    BY <2>3, <2>4, <2>7 DEF FlushAccounting
  <2>10. QED
    BY <2>8, <2>9 DEF Books
<1>5. CASE RollupsSettle
  <2>1. /\ UNCHANGED <<flight, offset, storeFailedDrops, flushedEntries>>
        /\ observed' = observed \o Chunk /\ Settled = offset /\ Settled' = ChunkEnd
    BY <1>5 DEF RollupsSettle, Settled, ChunkEnd
  <2>2. Len(observed') = Len(observed) + (ChunkEnd - offset)
    BY <1>t, <1>1, <2>1, ChunkFacts, ConcatProperties DEF TypeOK
  <2>3. /\ recorded' = recorded /\ refused' = refused /\ recordErrorDrops' = recordErrorDrops
        /\ overflowDrops' = overflowDrops /\ count' = count /\ Len(flight') = Len(flight)
        /\ storeFailedDrops' = storeFailedDrops /\ flushedEntries' = flushedEntries
    BY <1>2, <2>1 DEF ringVars, captureVars
  <2>4. droppedCount' = droppedCount /\ droppedCount \in Int
    BY <1>0, <2>3 DEF Integral, droppedCount
  <2>5. recorded + refused + recordErrorDrops
           = count + (Len(flight) - offset) + Len(observed) + droppedCount
    BY <2>1 DEF Books, Conservation
  <2>6. recorded + refused + recordErrorDrops = count + (Len(flight) - ChunkEnd)
           + (Len(observed) + (ChunkEnd - offset)) + droppedCount
    BY <1>0, <2>4, <2>5 DEF Integral
  <2>7. Conservation'
    BY <2>1, <2>2, <2>3, <2>4, <2>6 DEF Conservation
  <2>8. FlushAccounting'
    BY <2>3 DEF Books, FlushAccounting
  <2>9. QED
    BY <2>7, <2>8 DEF Books
<1>6. CASE HookSettles
  <2>1. /\ NextChunk /\ observed' = observed /\ Settled = ChunkEnd
        /\ storeFailedDrops' = storeFailedDrops
    BY <1>6 DEF HookSettles, Settled
  <2>2. /\ Len(flight') \in Int /\ Settled' \in Int /\ flushedEntries' \in Int
        /\ Len(flight') - Settled' = Len(flight) - ChunkEnd
        /\ flushedEntries' + Len(flight') = flushedEntries + Len(flight)
    BY <1>1, <2>1, NextChunkBooks
  <2>3. /\ recorded' = recorded /\ refused' = refused /\ recordErrorDrops' = recordErrorDrops
        /\ overflowDrops' = overflowDrops /\ count' = count
    BY <1>2 DEF ringVars, captureVars
  <2>4. PICK len \in Int, settled \in Int, flushed \in Int :
          len = Len(flight') /\ settled = Settled' /\ flushed = flushedEntries'
    BY <2>2
  <2>5. /\ len - settled = Len(flight) - ChunkEnd
        /\ flushed + len = flushedEntries + Len(flight)
    BY <2>2, <2>4
  <2>6. recorded + refused + recordErrorDrops = count + (len - settled) + Len(observed)
          + (overflowDrops + storeFailedDrops' + recordErrorDrops)
    BY <1>0, <2>1, <2>5 DEF Integral, Books, Conservation, droppedCount
  <2>7. recorded = (overflowDrops - refused) + flushed + len + count
    BY <1>0, <2>5 DEF Integral, Books, FlushAccounting
  <2>8. Conservation'
    BY <2>1, <2>3, <2>4, <2>6 DEF Conservation, droppedCount
  <2>9. FlushAccounting'
    BY <2>3, <2>4, <2>7 DEF FlushAccounting
  <2>10. QED
    BY <2>8, <2>9 DEF Books
<1>7. QED
  BY <1>3, <1>4, <1>5, <1>6 DEF FlushStep

LEMMA BooksInvariant == Spec => []Books
<1>1. Init => Books
  BY EmptySeq DEF Init, Books, Conservation, FlushAccounting, droppedCount, Settled
<1>2. Shape /\ Books /\ [Next]_vars => Books'
  <2> SUFFICES ASSUME Shape, Books, [Next]_vars PROVE Books'
    OBVIOUS
  <2>1. CASE Record \/ Pause \/ Resume
    BY <2>1, CaptureBooks
  <2>2. CASE BeginFlush
    BY <2>2, BeginFlushBooks
  <2>3. CASE FlushStep
    BY <2>3, FlushStepBooks
  <2>4. CASE UNCHANGED vars
    BY <2>4 DEF Books, Conservation, FlushAccounting, droppedCount, Settled, ChunkEnd,
                vars, ringVars, captureVars, flightVars, settleVars
  <2>5. QED
    BY <2>1, <2>2, <2>3, <2>4 DEF Next
<1>3. QED
  BY <1>1, <1>2, ShapeInvariant, PTL DEF Spec

(* No record is lost without being counted, and none is counted twice.     *)
THEOREM ConservationInvariant == Spec => []Conservation
<1>1. Books => Conservation
  BY DEF Books
<1>2. QED
  BY <1>1, BooksInvariant, PTL

(* The flush metrics agree with the drop counters.                         *)
THEOREM FlushAccountingInvariant == Spec => []FlushAccounting
<1>1. Books => FlushAccounting
  BY DEF Books
<1>2. QED
  BY <1>1, BooksInvariant, PTL

-----------------------------------------------------------------------------
(* What the hook sees is stored.                                           *)

HookReady == phase = "rollups" => ChunkSet \subseteq persisted

(* onFlushStored is only ever handed entries the storage holds.            *)
THEOREM ObservedPersistedInvariant == Spec => []ObservedPersisted
<1>1. Init => ObservedPersisted /\ HookReady
  BY EmptySeq DEF Init, ObservedPersisted, HookReady
<1>2. Shape /\ ObservedPersisted /\ HookReady /\ [Next]_vars
        => ObservedPersisted' /\ HookReady'
  <2> SUFFICES ASSUME Shape, ObservedPersisted, HookReady, [Next]_vars
               PROVE  ObservedPersisted' /\ HookReady'
    OBVIOUS
  <2>1. CASE Record \/ Pause \/ Resume \/ UNCHANGED vars
    <3>1. UNCHANGED <<flightVars, persisted, observed>>
      BY <2>1 DEF Record, RecordPaused, RecordThrows, RecordFiltered, RecordAdmitted,
                  Pause, Resume, vars, settleVars
    <3> QED
      BY <3>1 DEF ObservedPersisted, HookReady, ChunkSet, ChunkEnd, flightVars
  <2>2. CASE BeginFlush
    BY <2>2 DEF BeginFlush, settleVars, ObservedPersisted, HookReady
  <2>3. CASE StoreSucceeds
    BY <2>3 DEF StoreSucceeds, ObservedPersisted, HookReady, ChunkSet, ChunkEnd
  <2>4. CASE StoreFails
    BY <2>4 DEF StoreFails, ObservedPersisted, HookReady
  <2>5. CASE RetryStarts
    BY <2>5 DEF RetryStarts, settleVars, ObservedPersisted, HookReady
  <2>6. CASE RetryFails
    BY <2>6 DEF RetryFails, NextChunk, ObservedPersisted, HookReady
  <2>7. CASE RollupsSettle
    <3>1. phase # "idle" /\ TypeOK /\ FlightOK
      BY <2>7 DEF RollupsSettle, Shape
    <3>2. /\ observed' = observed \o Chunk /\ persisted' = persisted /\ phase' = "hook"
          /\ ChunkSet \subseteq persisted
      BY <2>7 DEF RollupsSettle, HookReady
    <3>3. /\ offset \in Nat /\ ChunkEnd \in Nat /\ offset < ChunkEnd
          /\ Chunk \in Seq(Entry) /\ Len(Chunk) = ChunkEnd - offset
      BY <3>1, ChunkEndFacts, ChunkFacts DEF TypeOK
    <3>4. \A i \in 1 .. Len(Chunk) : Chunk[i] \in persisted
      <4> TAKE i \in 1 .. Len(Chunk)
      <4>1. Chunk[i] = flight[offset + i]
        BY <3>1, <3>3, ChunkFacts
      <4>2. offset + i \in (offset + 1) .. ChunkEnd
        BY <3>3
      <4> QED
        BY <3>2, <4>1, <4>2 DEF ChunkSet
    <3>5. /\ Len(observed') = Len(observed) + Len(Chunk)
          /\ \A i \in 1 .. Len(observed) + Len(Chunk) :
               observed'[i] = IF i <= Len(observed) THEN observed[i]
                                                    ELSE Chunk[i - Len(observed)]
      <4>1. observed \in Seq(Entry)
        BY <3>1 DEF TypeOK
      <4> QED
        BY <3>2, <3>3, <4>1, ConcatProperties
    <3>6. Len(observed) \in Nat /\ Len(Chunk) \in Nat
      BY <3>1, <3>3, LenProperties DEF TypeOK
    <3>7. ObservedPersisted'
      BY <3>2, <3>4, <3>5, <3>6 DEF ObservedPersisted
    <3> QED
      BY <3>2, <3>7 DEF HookReady
  <2>8. CASE HookSettles
    BY <2>8 DEF HookSettles, NextChunk, ObservedPersisted, HookReady
  <2> QED
    BY <2>1, <2>2, <2>3, <2>4, <2>5, <2>6, <2>7, <2>8 DEF Next, FlushStep
<1> QED
  BY <1>1, <1>2, ShapeInvariant, PTL DEF Spec

-----------------------------------------------------------------------------
(* Capture order.                                                          *)

Increasing(s) == \A i, j \in 1 .. Len(s) : i < j => s[i] < s[j]

(* Everything ahead of the ring is older than the ring, and what has been  *)
(* handed out is older than what has not.                                  *)
Order ==
  /\ Increasing(observed)
  /\ Increasing(flight)
  /\ \A i \in 1 .. Len(observed) : observed[i] <= recorded - count
  /\ \A j \in 1 .. Len(flight) : flight[j] <= recorded - count
  /\ \A i \in 1 .. Len(observed), j \in (Settled + 1) .. Len(flight) : observed[i] < flight[j]

LEMMA ConcatIncreasing ==
  ASSUME NEW s \in Seq(Int), NEW t \in Seq(Int), Increasing(s), Increasing(t),
         \A i \in 1 .. Len(s), j \in 1 .. Len(t) : s[i] < t[j]
  PROVE  Increasing(s \o t)
<1>1. /\ Len(s) \in Nat /\ Len(t) \in Nat /\ Len(s \o t) = Len(s) + Len(t)
      /\ \A i \in 1 .. Len(s) + Len(t) :
            (s \o t)[i] = IF i <= Len(s) THEN s[i] ELSE t[i - Len(s)]
  BY LenProperties, ConcatProperties
<1> SUFFICES ASSUME NEW i \in 1 .. Len(s \o t), NEW j \in 1 .. Len(s \o t), i < j
             PROVE  (s \o t)[i] < (s \o t)[j]
  BY DEF Increasing
<1>2. CASE j <= Len(s)
  BY <1>1, <1>2 DEF Increasing
<1>3. CASE i <= Len(s) /\ j > Len(s)
  BY <1>1, <1>3
<1>4. CASE i > Len(s)
  <2>1. /\ i - Len(s) \in 1 .. Len(t) /\ j - Len(s) \in 1 .. Len(t)
        /\ i - Len(s) < j - Len(s)
    BY <1>1, <1>4
  <2>2. t[i - Len(s)] < t[j - Len(s)]
    BY <2>1 DEF Increasing
  <2> QED
    BY <1>1, <1>4, <2>2
<1> QED
  BY <1>1, <1>2, <1>3, <1>4

(* The part of the flight still to settle.                                 *)
LEMMA UnsettledFacts ==
  ASSUME TypeOK, FlightOK
  PROVE  /\ Settled \in Nat /\ Settled <= Len(flight)
         /\ Unsettled \in Seq(Entry)
         /\ Len(Unsettled) = Len(flight) - Settled
         /\ \A i \in 1 .. Len(Unsettled) : Unsettled[i] = flight[Settled + i]
<1>1. Len(flight) \in Nat /\ flight \in Seq(Entry)
  BY LenProperties DEF TypeOK
<1>2. Settled \in Nat /\ Settled <= Len(flight)
  <2>1. CASE phase = "idle"
    BY <1>1, <2>1, EmptySeq DEF FlightOK, Settled
  <2>2. CASE phase # "idle"
    BY <1>1, <2>2, ChunkEndFacts DEF FlightOK, Settled, TypeOK
  <2> QED
    BY <2>1, <2>2
<1>3. \A i \in (Settled + 1) .. Len(flight) : flight[i] \in Entry
  BY <1>1, <1>2, ElementOfSeq
<1>4. /\ SubSeq(flight, Settled + 1, Len(flight)) \in Seq(Entry)
      /\ Len(SubSeq(flight, Settled + 1, Len(flight)))
           = IF Settled + 1 <= Len(flight) THEN Len(flight) - (Settled + 1) + 1 ELSE 0
      /\ \A i \in 1 .. Len(flight) - (Settled + 1) + 1 :
            SubSeq(flight, Settled + 1, Len(flight))[i] = flight[Settled + 1 + i - 1]
  BY <1>1, <1>2, <1>3, SubSeqProperties
<1> QED
  BY <1>1, <1>2, <1>4 DEF Unsettled

LEMMA OrderImpliesPipeline ==
  ASSUME Shape, Order
  PROVE  PipelineInOrder
<1>1. /\ recorded \in Nat /\ count \in Nat /\ observed \in Seq(Entry)
      /\ Unsettled \in Seq(Entry) /\ Buffered \in Seq(Entry)
      /\ Settled \in Nat /\ Settled <= Len(flight) /\ Len(flight) \in Nat
      /\ Len(Unsettled) = Len(flight) - Settled
      /\ \A i \in 1 .. Len(Unsettled) : Unsettled[i] = flight[Settled + i]
      /\ Len(Buffered) = count
      /\ \A i \in 1 .. count : Buffered[i] = recorded - count + i
  BY BufferedFacts, UnsettledFacts, LenProperties, BufferSizeAssumption DEF Shape, TypeOK
<1>2. \A s \in Seq(Entry) : s \in Seq(Int) /\ Len(s) \in Nat
  BY SeqMonotonic, LenProperties DEF Entry
<1>3. Increasing(Unsettled) /\ Increasing(Buffered)
  <2>1. ASSUME NEW i \in 1 .. Len(Unsettled), NEW j \in 1 .. Len(Unsettled), i < j
        PROVE  Unsettled[i] < Unsettled[j]
    <3>1. /\ Settled + i \in 1 .. Len(flight) /\ Settled + j \in 1 .. Len(flight)
          /\ Settled + i < Settled + j
      BY <1>1, <2>1
    <3>2. flight[Settled + i] < flight[Settled + j]
      BY <3>1 DEF Order, Increasing
    <3> QED
      BY <1>1, <3>2
  <2>2. ASSUME NEW i \in 1 .. Len(Buffered), NEW j \in 1 .. Len(Buffered), i < j
        PROVE  Buffered[i] < Buffered[j]
    <3>1. i \in 1 .. count /\ j \in 1 .. count
      BY <1>1
    <3> QED
      BY <1>1, <2>2, <3>1
  <2> QED
    BY <2>1, <2>2 DEF Increasing
<1>4. Increasing(observed \o Unsettled)
  <2>1. ASSUME NEW i \in 1 .. Len(observed), NEW j \in 1 .. Len(Unsettled)
        PROVE  observed[i] < Unsettled[j]
    <3>1. Settled + j \in (Settled + 1) .. Len(flight)
      BY <1>1
    <3> QED
      BY <1>1, <3>1 DEF Order
  <2> QED
    BY <1>1, <1>2, <1>3, <2>1, ConcatIncreasing DEF Order
<1>5. \A i \in 1 .. Len(observed \o Unsettled) :
         /\ (observed \o Unsettled)[i] \in Entry
         /\ (observed \o Unsettled)[i] <= recorded - count
  <2> SUFFICES ASSUME NEW i \in 1 .. Len(observed \o Unsettled)
               PROVE  /\ (observed \o Unsettled)[i] \in Entry
                      /\ (observed \o Unsettled)[i] <= recorded - count
    OBVIOUS
  <2>1. /\ Len(observed) \in Nat /\ Len(Unsettled) \in Nat
        /\ i \in 1 .. Len(observed) + Len(Unsettled)
        /\ (observed \o Unsettled)[i]
             = IF i <= Len(observed) THEN observed[i] ELSE Unsettled[i - Len(observed)]
    BY <1>1, <1>2, ConcatProperties
  <2>2. (observed \o Unsettled)[i] <= recorded - count
    <3>1. CASE i <= Len(observed)
      BY <2>1, <3>1 DEF Order
    <3>2. CASE ~(i <= Len(observed))
      <4>1. i - Len(observed) \in 1 .. Len(Unsettled)
        BY <2>1, <3>2
      <4>2. Settled + (i - Len(observed)) \in 1 .. Len(flight)
        BY <1>1, <2>1, <4>1
      <4>3. (observed \o Unsettled)[i] = flight[Settled + (i - Len(observed))]
        BY <1>1, <2>1, <3>2, <4>1
      <4> QED
        BY <4>2, <4>3 DEF Order
    <3> QED
      BY <3>1, <3>2
  <2>3. observed \o Unsettled \in Seq(Entry)
    BY <1>1, ConcatProperties
  <2> QED
    BY <2>2, <2>3, ElementOfSeq
<1>6. observed \o Unsettled \in Seq(Entry)
  BY <1>1, ConcatProperties
<1>7. ASSUME NEW i \in 1 .. Len(observed \o Unsettled), NEW j \in 1 .. Len(Buffered)
      PROVE  (observed \o Unsettled)[i] < Buffered[j]
  <2>1. (observed \o Unsettled)[i] \in Int
    BY <1>5 DEF Entry
  <2>2. j \in 1 .. count /\ Buffered[j] = recorded - count + j
    BY <1>1
  <2> QED
    BY <1>1, <1>5, <2>1, <2>2
<1>8. Increasing((observed \o Unsettled) \o Buffered)
  BY <1>1, <1>2, <1>3, <1>4, <1>6, <1>7, ConcatIncreasing
<1> QED
  BY <1>8 DEF PipelineInOrder, Increasing

(* record() only adds behind everything else.                              *)
LEMMA CaptureOrder ==
  ASSUME Shape, Order, Record \/ Pause \/ Resume
  PROVE  Order'
<1>1. UNCHANGED <<flightVars, observed>>
  BY DEF Record, RecordPaused, RecordThrows, RecordFiltered, RecordAdmitted, Pause, Resume,
         settleVars
<1>2. Settled' = Settled
  BY <1>1 DEF Settled, ChunkEnd, flightVars
<1>3. recorded \in Int /\ count \in Int /\ observed \in Seq(Int) /\ flight \in Seq(Int)
  BY SeqMonotonic, BufferSizeAssumption DEF Shape, TypeOK, Entry
<1>4. recorded' \in Int /\ count' \in Int /\ recorded - count <= recorded' - count'
  <2>1. CASE RecordAdmitted
    <3>1. recorded' = recorded + 1 /\ (count' = count \/ count' = count + 1)
      BY <2>1 DEF RecordAdmitted, Push
    <3> QED
      BY <1>3, <3>1
  <2>2. CASE ~RecordAdmitted
    <3>1. UNCHANGED ringVars
      BY <2>2 DEF Record, RecordPaused, RecordThrows, RecordFiltered, Pause, Resume
    <3> QED
      BY <1>3, <3>1 DEF ringVars
  <2> QED
    BY <2>1, <2>2
<1>5. ASSUME NEW s \in Seq(Int), NEW i \in 1 .. Len(s), s[i] <= recorded - count
      PROVE  s[i] <= recorded' - count'
  <2>1. s[i] \in Int
    BY ElementOfSeq
  <2>2. ASSUME NEW x \in Int, NEW a \in Int, NEW b \in Int, x <= a, a <= b
        PROVE  x <= b
    BY <2>2
  <2>3. recorded - count \in Int /\ recorded' - count' \in Int
    BY <1>3, <1>4
  <2> QED
    BY <1>4, <1>5, <2>1, <2>2, <2>3
<1> QED
  BY <1>1, <1>2, <1>3, <1>5 DEF Order, Increasing, flightVars

(* What drain() takes is the ring in order, and all of it is younger than  *)
(* what has been handed out.                                               *)
LEMMA BeginFlushOrder ==
  ASSUME Shape, Order, BeginFlush
  PROVE  Order'
<1>1. /\ flight' = Buffered /\ Settled' = 0 /\ count' = 0
      /\ recorded' = recorded /\ observed' = observed
  BY DEF BeginFlush, Settled, settleVars
<1>2. /\ recorded \in Nat /\ count \in Nat
      /\ Len(Buffered) = count
      /\ \A i \in 1 .. count : Buffered[i] = recorded - count + i
  BY BufferedFacts, BufferSizeAssumption DEF Shape, TypeOK
<1>3. \A i \in 1 .. Len(observed) : observed[i] \in Int
  BY ElementOfSeq DEF Shape, TypeOK, Entry
<1>4. Increasing(flight')
  <2> SUFFICES ASSUME NEW i \in 1 .. count, NEW j \in 1 .. count, i < j
               PROVE  Buffered[i] < Buffered[j]
    BY <1>1, <1>2 DEF Increasing
  <2> QED
    BY <1>2
<1>5. \A j \in 1 .. Len(flight') : flight'[j] <= recorded' - count'
  BY <1>1, <1>2
<1>6. \A i \in 1 .. Len(observed') : observed'[i] <= recorded' - count'
  BY <1>1, <1>2, <1>3 DEF Order
<1>7. ASSUME NEW i \in 1 .. Len(observed), NEW j \in 1 .. count
      PROVE  observed[i] < Buffered[j]
  <2>1. observed[i] <= recorded - count /\ Buffered[j] = recorded - count + j
    BY <1>2 DEF Order
  <2> QED
    BY <1>2, <1>3, <2>1
<1> QED
  BY <1>1, <1>2, <1>4, <1>5, <1>6, <1>7 DEF Order

(* A settled chunk leaves the flight from the front.                       *)
LEMMA NextChunkOrder ==
  ASSUME Shape, Order, phase # "idle", NextChunk, observed' = observed,
         UNCHANGED ringVars, Settled <= ChunkEnd
  PROVE  Order'
<1>1. /\ Len(flight) \in Nat /\ ChunkEnd \in Nat /\ Settled \in Nat
      /\ recorded' - count' = recorded - count
  BY ChunkEndFacts, UnsettledFacts DEF Shape, ringVars
<1>2. CASE ChunkEnd < Len(flight)
  <2>1. flight' = flight /\ Settled' = ChunkEnd
    BY <1>2 DEF NextChunk, Settled
  <2>2. \A j \in (ChunkEnd + 1) .. Len(flight) : j \in (Settled + 1) .. Len(flight)
    BY <1>1
  <2> QED
    BY <1>1, <2>1, <2>2 DEF Order
<1>3. CASE ~(ChunkEnd < Len(flight))
  <2>1. flight' = <<>> /\ Settled' = 0
    BY <1>3 DEF NextChunk, Settled
  <2>2. Len(flight') = 0
    BY <2>1, EmptySeq
  <2> QED
    BY <1>1, <2>1, <2>2 DEF Order, Increasing
<1> QED
  BY <1>2, <1>3

(* The hook is handed the front of what is unsettled.                      *)
LEMMA RollupsOrder ==
  ASSUME Shape, Order, RollupsSettle
  PROVE  Order'
<1>1. /\ phase # "idle" /\ TypeOK /\ FlightOK
      /\ observed' = observed \o Chunk /\ flight' = flight
      /\ Settled = offset /\ Settled' = ChunkEnd
      /\ recorded' = recorded /\ count' = count
  BY DEF RollupsSettle, Shape, Settled, ChunkEnd, ringVars
<1>2. /\ offset \in Nat /\ ChunkEnd \in Nat /\ offset < ChunkEnd
      /\ ChunkEnd <= Len(flight) /\ Len(flight) \in Nat
      /\ Chunk \in Seq(Entry) /\ Len(Chunk) = ChunkEnd - offset
      /\ \A i \in 1 .. Len(Chunk) : Chunk[i] = flight[offset + i]
      /\ observed \in Seq(Entry) /\ Len(observed) \in Nat
      /\ observed \in Seq(Int) /\ Chunk \in Seq(Int)
  BY <1>1, ChunkEndFacts, ChunkFacts, LenProperties, SeqMonotonic, SMTT(30) DEF TypeOK, Entry
<1>3. \A i \in 1 .. Len(Chunk) :
         /\ offset + i \in 1 .. ChunkEnd
         /\ offset + i \in 1 .. Len(flight)
         /\ offset + i \in (Settled + 1) .. Len(flight)
  BY <1>1, <1>2
<1>4. Increasing(Chunk)
  <2> SUFFICES ASSUME NEW i \in 1 .. Len(Chunk), NEW j \in 1 .. Len(Chunk), i < j
               PROVE  Chunk[i] < Chunk[j]
    BY DEF Increasing
  <2>1. offset + i < offset + j
    BY <1>2
  <2>2. flight[offset + i] < flight[offset + j]
    BY <1>3, <2>1 DEF Order, Increasing
  <2> QED
    BY <1>2, <2>2
<1>5. \A i \in 1 .. Len(observed), j \in 1 .. Len(Chunk) : observed[i] < Chunk[j]
  BY <1>2, <1>3 DEF Order
<1>6. Increasing(observed')
  BY <1>1, <1>2, <1>4, <1>5, ConcatIncreasing DEF Order
<1>7. ASSUME NEW i \in 1 .. Len(observed')
      PROVE  \/ i \in 1 .. Len(observed) /\ observed'[i] = observed[i]
             \/ \E k \in 1 .. Len(Chunk) : observed'[i] = flight[offset + k]
  <2>1. /\ i \in 1 .. Len(observed) + Len(Chunk)
        /\ observed'[i] = IF i <= Len(observed) THEN observed[i] ELSE Chunk[i - Len(observed)]
    BY <1>1, <1>2, <1>7, ConcatProperties
  <2>2. CASE i <= Len(observed)
    BY <1>2, <2>1, <2>2
  <2>3. CASE ~(i <= Len(observed))
    <3>1. i - Len(observed) \in 1 .. Len(Chunk)
      BY <1>2, <2>1, <2>3
    <3> QED
      BY <1>2, <2>1, <2>3, <3>1
  <2> QED
    BY <2>2, <2>3
<1>8. ASSUME NEW i \in 1 .. Len(observed')
      PROVE  observed'[i] <= recorded' - count'
  BY <1>1, <1>3, <1>7 DEF Order
<1>9. ASSUME NEW i \in 1 .. Len(observed'), NEW j \in (ChunkEnd + 1) .. Len(flight)
      PROVE  observed'[i] < flight[j]
  <2>1. j \in (Settled + 1) .. Len(flight) /\ j \in 1 .. Len(flight)
    BY <1>1, <1>2
  <2>2. CASE i \in 1 .. Len(observed) /\ observed'[i] = observed[i]
    BY <2>1, <2>2 DEF Order
  <2>3. ASSUME NEW k \in 1 .. Len(Chunk), observed'[i] = flight[offset + k]
        PROVE  observed'[i] < flight[j]
    <3>1. offset + k < j
      BY <1>2, <1>3
    <3> QED
      BY <1>3, <2>1, <2>3, <3>1 DEF Order, Increasing
  <2> QED
    BY <1>7, <2>2, <2>3
<1> QED
  BY <1>1, <1>6, <1>8, <1>9 DEF Order

LEMMA OrderInvariant == Spec => []Order
<1>1. Init => Order
  BY EmptySeq DEF Init, Order, Increasing
<1>2. Shape /\ Order /\ [Next]_vars => Order'
  <2> SUFFICES ASSUME Shape, Order, [Next]_vars PROVE Order'
    OBVIOUS
  <2>1. CASE Record \/ Pause \/ Resume
    BY <2>1, CaptureOrder
  <2>2. CASE BeginFlush
    BY <2>2, BeginFlushOrder
  <2>3. CASE StoreSucceeds \/ StoreFails \/ RetryStarts \/ UNCHANGED vars
    <3>1. UNCHANGED <<flight, offset, observed, recorded, count>> /\ Settled' = Settled
      BY <2>3 DEF StoreSucceeds, StoreFails, RetryStarts, Settled, ChunkEnd, vars,
                  ringVars, flightVars, settleVars
    <3> QED
      BY <3>1 DEF Order, Increasing
  <2>4. CASE RetryFails \/ HookSettles
    <3>1. /\ phase # "idle" /\ NextChunk /\ observed' = observed /\ UNCHANGED ringVars
          /\ Settled = offset \/ Settled = ChunkEnd
      BY <2>4 DEF RetryFails, HookSettles, Settled
    <3>2. offset \in Nat /\ ChunkEnd \in Nat /\ offset < ChunkEnd
      BY <3>1, ChunkEndFacts DEF Shape, TypeOK
    <3> QED
      BY <3>1, <3>2, NextChunkOrder
  <2>5. CASE RollupsSettle
    BY <2>5, RollupsOrder
  <2> QED
    BY <2>1, <2>2, <2>3, <2>4, <2>5 DEF Next, FlushStep
<1> QED
  BY <1>1, <1>2, ShapeInvariant, PTL DEF Spec

(* Capture order survives chunking, retries and evictions.                 *)
THEOREM PipelineInvariant == Spec => []PipelineInOrder
<1>1. Shape /\ Order => PipelineInOrder
  BY OrderImpliesPipeline
<1> QED
  BY <1>1, OrderInvariant, ShapeInvariant, PTL

-----------------------------------------------------------------------------
(* The recorder implements the capture pipe: the ring is the buffer, what  *)
(* the pending flush has not settled is what was taken, and every step of  *)
(* the code is one step of the pipe or none.                               *)

(* The entries of a batch behind its first n.                              *)
Behind(batch, n) == {batch[i] : i \in (n + 1) .. Len(batch)}

(* The ring, as a set: the youngest `count' of the entries ever pushed.    *)
LEMMA BufferedSet ==
  Shape => RangeOf(Buffered) = (recorded - count + 1) .. recorded
<1> SUFFICES ASSUME Shape
             PROVE  RangeOf(Buffered) = (recorded - count + 1) .. recorded
  OBVIOUS
<1>1. /\ recorded \in Nat /\ count \in Nat /\ Len(Buffered) = count
      /\ \A i \in 1 .. count : Buffered[i] = recorded - count + i
  BY BufferedFacts, BufferSizeAssumption DEF Shape, TypeOK
<1>2. ASSUME NEW e \in (recorded - count + 1) .. recorded
      PROVE  e \in RangeOf(Buffered)
  <2>1. e - (recorded - count) \in 1 .. Len(Buffered)
    BY <1>1
  <2>2. Buffered[e - (recorded - count)] = e
    BY <1>1, <2>1
  <2> QED
    BY <2>1, <2>2 DEF RangeOf
<1>3. ASSUME NEW e \in RangeOf(Buffered)
      PROVE  e \in (recorded - count + 1) .. recorded
  <2>1. PICK i \in 1 .. count : e = recorded - count + i
    BY <1>1 DEF RangeOf
  <2> QED
    BY <1>1, <2>1
<1> QED
  BY <1>2, <1>3

(* What the pending flush has not settled, as a set.                       *)
LEMMA UnsettledSet ==
  Shape => RangeOf(Unsettled) = Behind(flight, Settled)
<1> SUFFICES ASSUME Shape
             PROVE  RangeOf(Unsettled) = Behind(flight, Settled)
  OBVIOUS
<1>1. /\ Settled \in Nat /\ Len(flight) \in Nat /\ Settled <= Len(flight)
      /\ Len(Unsettled) = Len(flight) - Settled
      /\ \A i \in 1 .. Len(Unsettled) : Unsettled[i] = flight[Settled + i]
  BY UnsettledFacts, LenProperties DEF Shape, TypeOK
<1>2. ASSUME NEW i \in (Settled + 1) .. Len(flight)
      PROVE  flight[i] \in RangeOf(Unsettled)
  <2>1. i - Settled \in 1 .. Len(Unsettled) /\ Settled + (i - Settled) = i
    BY <1>1
  <2> QED
    BY <1>1, <2>1 DEF RangeOf
<1>3. ASSUME NEW i \in 1 .. Len(Unsettled)
      PROVE  Unsettled[i] \in Behind(flight, Settled)
  <2>1. Settled + i \in (Settled + 1) .. Len(flight)
    BY <1>1
  <2> QED
    BY <1>1, <2>1 DEF Behind
<1> QED
  BY <1>2, <1>3 DEF RangeOf, Behind

LEMMA SetsAfter ==
  /\ Shape' => RangeOf(Buffered)' = (recorded' - count' + 1) .. recorded'
  /\ Shape' => RangeOf(Unsettled)' = Behind(flight', Settled')
<1>1. (Shape => RangeOf(Buffered) = (recorded - count + 1) .. recorded)'
  BY BufferedSet, PTL
<1>2. (Shape => RangeOf(Unsettled) = Behind(flight, Settled))'
  BY UnsettledSet, PTL
<1> QED
  BY <1>1, <1>2 DEF Behind

(* The pipe counts with the same Cardinality.                              *)
LEMMA SameCardinality ==
  ASSUME NEW S PROVE Pipe!Cardinality(S) = Cardinality(S)
BY DEF Pipe!Cardinality, Cardinality

(* push() admits the entry, and makes room by losing the oldest one.       *)
LEMMA AdmittedAdmits ==
  ASSUME Shape, Shape', RecordAdmitted
  PROVE  Pipe!Admit
<1>1. /\ recorded \in Nat /\ count \in Nat /\ count <= BufferSize /\ BufferSize \in Nat
      /\ BufferSize > 0 /\ overflowDrops \in Nat /\ storeFailedDrops \in Nat
      /\ recordErrorDrops \in Nat
  BY BufferSizeAssumption DEF Shape, TypeOK
<1>2. /\ UNCHANGED <<flight, offset, phase, observed, storeFailedDrops, recordErrorDrops>>
      /\ recorded' = recorded + 1 /\ Push
  BY DEF RecordAdmitted, flightVars, settleVars, Push
<1>3. RangeOf(Unsettled)' = RangeOf(Unsettled) /\ RangeOf(observed)' = RangeOf(observed)
  BY <1>2 DEF RangeOf, Unsettled, Settled, ChunkEnd
<1>4. /\ RangeOf(Buffered) = (recorded - count + 1) .. recorded
      /\ RangeOf(Buffered)' = (recorded' - count' + 1) .. recorded'
  BY BufferedSet, SetsAfter
<1>5. Cardinality(RangeOf(Buffered)) = count
  <2>1. recorded - count + 1 \in Int /\ recorded \in Int
    BY <1>1
  <2>2. Cardinality((recorded - count + 1) .. recorded)
          = IF recorded - count + 1 > recorded THEN 0 ELSE recorded - (recorded - count + 1) + 1
    BY <2>1, FS_Interval
  <2> QED
    BY <1>1, <1>4, <2>2
<1>6. CASE count < BufferSize
  <2>1. count' = count + 1 /\ overflowDrops' = overflowDrops
    BY <1>1, <1>2, <1>6 DEF Push
  <2>2. RangeOf(Buffered)' = RangeOf(Buffered) \cup {recorded + 1}
    BY <1>1, <1>2, <1>4, <2>1
  <2>3. droppedCount' = droppedCount
    BY <1>2, <2>1 DEF droppedCount
  <2> QED
    BY <1>2, <1>3, <1>5, <1>6, <2>2, <2>3, SameCardinality DEF Pipe!Admit
<1>7. CASE count = BufferSize
  <2> DEFINE oldest == recorded - count + 1
  <2>1. count' = count /\ overflowDrops' = overflowDrops + 1
    BY <1>1, <1>2, <1>7 DEF Push
  <2>2. oldest \in RangeOf(Buffered)
    BY <1>1, <1>4, <1>7
  <2>3. RangeOf(Buffered)' = (RangeOf(Buffered) \ {oldest}) \cup {recorded + 1}
    BY <1>1, <1>2, <1>4, <1>7, <2>1
  <2>4. droppedCount' = droppedCount + 1
    BY <1>1, <1>2, <2>1 DEF droppedCount
  <2>5. Pipe!Older({oldest}, RangeOf(Buffered) \ {oldest})
    BY <1>1, <1>4 DEF Pipe!Older
  <2> HIDE DEF oldest
  <2> QED
    BY <1>2, <1>3, <1>5, <1>7, <2>2, <2>3, <2>4, <2>5, SameCardinality DEF Pipe!Admit
<1> QED
  BY <1>1, <1>6, <1>7

(* A record dropped while paused, or lost to a throw, is a refusal.        *)
LEMMA LostRefuses ==
  ASSUME Shape, RecordPaused \/ RecordThrows
  PROVE  Pipe!Refuse
<1>1. /\ overflowDrops \in Nat /\ storeFailedDrops \in Nat /\ recordErrorDrops \in Nat
  BY DEF Shape, TypeOK
<1>2. UNCHANGED <<ring, head, count, recorded, flight, offset, phase, observed, storeFailedDrops>>
  BY DEF RecordPaused, RecordThrows, ringVars, flightVars, settleVars
<1>3. droppedCount' = droppedCount + 1
  <2>1. CASE RecordPaused
    BY <1>1, <1>2, <2>1 DEF RecordPaused, droppedCount
  <2>2. CASE RecordThrows
    BY <1>1, <1>2, <2>2 DEF RecordThrows, droppedCount
  <2> QED
    BY <2>1, <2>2
<1> QED
  BY <1>2, <1>3 DEF Pipe!Refuse, RangeOf, Unsettled, Settled, ChunkEnd, Buffered, Slot

(* drain() takes all that waits.                                           *)
LEMMA DrainTakes ==
  ASSUME Shape, Shape', BeginFlush
  PROVE  Pipe!Take
<1>1. /\ recorded \in Nat /\ count \in Nat /\ count > 0 /\ Len(Buffered) = count
      /\ phase = "idle" /\ flight = <<>> /\ offset = 0
  BY BufferedFacts, BufferSizeAssumption, SMTT(30) DEF Shape, TypeOK, FlightOK, BeginFlush, Flushing
<1>2. /\ flight' = Buffered /\ Settled' = 0 /\ count' = 0 /\ recorded' = recorded
      /\ observed' = observed /\ droppedCount' = droppedCount
  BY DEF BeginFlush, Settled, captureVars, settleVars, droppedCount
<1>3. RangeOf(Unsettled) = {}
  BY <1>1, UnsettledSet DEF Behind, Settled
<1>4. RangeOf(Unsettled)' = RangeOf(Buffered)
  <2>1. RangeOf(Unsettled)' = Behind(Buffered, 0)
    BY <1>2, SetsAfter
  <2>2. 0 + 1 = 1
    OBVIOUS
  <2> QED
    BY <2>1, <2>2, Zenon DEF Behind, RangeOf
<1>5. RangeOf(Buffered) # {} /\ RangeOf(Buffered)' = {}
  <2>1. RangeOf(Buffered) = (recorded - count + 1) .. recorded
    BY BufferedSet
  <2>2. RangeOf(Buffered)' = (recorded' - count' + 1) .. recorded'
    BY SetsAfter
  <2>3. recorded \in RangeOf(Buffered)
    BY <1>1, <2>1
  <2>4. RangeOf(Buffered)' = {}
    BY <1>1, <1>2, <2>2
  <2> QED
    BY <2>3, <2>4
<1>6. RangeOf(observed)' = RangeOf(observed)
  BY <1>2 DEF RangeOf
<1> QED
  BY <1>2, <1>3, <1>4, <1>5, <1>6 DEF Pipe!Take

(* The chunk a flush is at is the oldest part of what it has not settled.  *)
LEMMA ChunkIsOldest ==
  ASSUME Shape, Order, phase # "idle"
  PROVE  /\ ChunkSet # {} /\ ChunkSet \subseteq Behind(flight, offset)
         /\ Behind(flight, offset) \ ChunkSet = Behind(flight, ChunkEnd)
         /\ Pipe!Older(ChunkSet, Behind(flight, ChunkEnd))
         /\ Cardinality(ChunkSet) = ChunkEnd - offset
<1>1. /\ offset \in Nat /\ ChunkEnd \in Nat /\ Len(flight) \in Nat
      /\ offset < ChunkEnd /\ ChunkEnd <= Len(flight)
  BY ChunkEndFacts DEF Shape, TypeOK
<1>2. \A i \in 1 .. Len(flight) : flight[i] \in Int
  BY ElementOfSeq DEF Shape, TypeOK, Entry
<1>3. \A i, j \in 1 .. Len(flight) : i < j => flight[i] < flight[j]
  BY DEF Order, Increasing
<1>4. \A i, j \in 1 .. Len(flight) : flight[i] = flight[j] => i = j
  BY <1>1, <1>2, <1>3
<1>5. ChunkSet # {} /\ ChunkSet \subseteq Behind(flight, offset)
  <2>1. offset + 1 \in (offset + 1) .. ChunkEnd
    BY <1>1
  <2>2. (offset + 1) .. ChunkEnd \subseteq (offset + 1) .. Len(flight)
    BY <1>1
  <2> QED
    BY <2>1, <2>2 DEF ChunkSet, Behind
<1>6. Behind(flight, offset) \ ChunkSet = Behind(flight, ChunkEnd)
  <2>1. ASSUME NEW e \in Behind(flight, offset) \ ChunkSet
        PROVE  e \in Behind(flight, ChunkEnd)
    <3>1. PICK i \in (offset + 1) .. Len(flight) : e = flight[i]
      BY DEF Behind
    <3>2. i \notin (offset + 1) .. ChunkEnd
      BY <3>1 DEF ChunkSet
    <3>3. i \in (ChunkEnd + 1) .. Len(flight)
      BY <1>1, <3>2
    <3> QED
      BY <3>1, <3>3 DEF Behind
  <2>2. ASSUME NEW e \in Behind(flight, ChunkEnd)
        PROVE  e \in Behind(flight, offset) \ ChunkSet
    <3>1. PICK i \in (ChunkEnd + 1) .. Len(flight) : e = flight[i]
      BY DEF Behind
    <3>2. i \in (offset + 1) .. Len(flight) /\ i \in 1 .. Len(flight)
      BY <1>1
    <3>3. ASSUME NEW k \in (offset + 1) .. ChunkEnd PROVE e # flight[k]
      <4>1. k \in 1 .. Len(flight) /\ k # i
        BY <1>1
      <4> QED
        BY <1>4, <3>1, <3>2, <4>1
    <3> QED
      BY <3>1, <3>2, <3>3 DEF Behind, ChunkSet
  <2> QED
    BY <2>1, <2>2
<1>7. Pipe!Older(ChunkSet, Behind(flight, ChunkEnd))
  <2> SUFFICES ASSUME NEW i \in (offset + 1) .. ChunkEnd, NEW j \in (ChunkEnd + 1) .. Len(flight)
               PROVE  flight[i] < flight[j]
    BY DEF Pipe!Older, ChunkSet, Behind
  <2>1. i \in 1 .. Len(flight) /\ j \in 1 .. Len(flight) /\ i < j
    BY <1>1
  <2> QED
    BY <1>3, <2>1
<1>8. Cardinality(ChunkSet) = ChunkEnd - offset
  <2> DEFINE I == (offset + 1) .. ChunkEnd
             f == [i \in I |-> flight[i]]
  <2>1. f \in [I -> ChunkSet] /\ \A i \in I : f[i] = flight[i]
    BY DEF ChunkSet
  <2>2. \A i, j \in I : f[i] = f[j] => i = j
    <3>1. I \subseteq 1 .. Len(flight)
      BY <1>1
    <3> QED
      BY <1>4, <2>1, <3>1
  <2>3. \A e \in ChunkSet : \E i \in I : f[i] = e
    BY <2>1 DEF ChunkSet
  <2>4. f \in Surjection(I, ChunkSet) /\ f \in Injection(I, ChunkSet)
    <3> HIDE DEF f, I
    <3> QED
      BY <2>1, <2>2, <2>3 DEF Surjection, Injection, IsInjective
  <2>5. IsFiniteSet(I) /\ Cardinality(I) = ChunkEnd - offset
    <3>1. offset + 1 \in Int /\ ChunkEnd \in Int /\ ~(offset + 1 > ChunkEnd)
      BY <1>1
    <3>2. IsFiniteSet(I) /\ Cardinality(I) = ChunkEnd - (offset + 1) + 1
      BY <3>1, FS_Interval
    <3> QED
      BY <1>1, <3>2
  <2> HIDE DEF f, I
  <2> QED
    BY <2>4, <2>5, FS_Surjection
<1> QED
  BY <1>5, <1>6, <1>7, <1>8

LEMMA ConcatRange ==
  ASSUME NEW E, NEW s \in Seq(E), NEW t \in Seq(E)
  PROVE  RangeOf(s \o t) = RangeOf(s) \cup RangeOf(t)
<1>1. /\ Len(s) \in Nat /\ Len(t) \in Nat /\ Len(s \o t) = Len(s) + Len(t)
      /\ \A i \in 1 .. Len(s) + Len(t) :
            (s \o t)[i] = IF i <= Len(s) THEN s[i] ELSE t[i - Len(s)]
  BY LenProperties, ConcatProperties
<1>2. ASSUME NEW i \in 1 .. Len(s) PROVE s[i] \in RangeOf(s \o t)
  <2>1. i \in 1 .. Len(s \o t) /\ (s \o t)[i] = s[i]
    BY <1>1
  <2> QED
    BY <2>1 DEF RangeOf
<1>3. ASSUME NEW i \in 1 .. Len(t) PROVE t[i] \in RangeOf(s \o t)
  <2>1. Len(s) + i \in 1 .. Len(s \o t) /\ (s \o t)[Len(s) + i] = t[i]
    BY <1>1
  <2> QED
    BY <2>1 DEF RangeOf
<1>4. ASSUME NEW i \in 1 .. Len(s \o t)
      PROVE  (s \o t)[i] \in RangeOf(s) \cup RangeOf(t)
  <2>1. CASE i <= Len(s)
    <3>1. i \in 1 .. Len(s) /\ (s \o t)[i] = s[i]
      BY <1>1, <2>1
    <3> QED
      BY <3>1 DEF RangeOf
  <2>2. CASE i > Len(s)
    <3>1. i - Len(s) \in 1 .. Len(t) /\ (s \o t)[i] = t[i - Len(s)]
      BY <1>1, <2>2
    <3> QED
      BY <3>1 DEF RangeOf
  <2> QED
    BY <1>1, <2>1, <2>2
<1> QED
  BY <1>2, <1>3, <1>4 DEF RangeOf

(* After a settled chunk, what is left behind it is what is unsettled.     *)
LEMMA NextChunkLeaves ==
  ASSUME Shape, Shape', phase # "idle", NextChunk
  PROVE  RangeOf(Unsettled)' = Behind(flight, ChunkEnd)
<1>1. Len(flight) \in Nat /\ ChunkEnd \in Nat /\ ChunkEnd <= Len(flight)
  BY ChunkEndFacts DEF Shape
<1>2. RangeOf(Unsettled)' = Behind(flight', Settled')
  BY SetsAfter
<1>3. CASE ChunkEnd < Len(flight)
  <2>1. flight' = flight /\ Settled' = ChunkEnd
    BY <1>3 DEF NextChunk, Settled
  <2> QED
    BY <1>2, <2>1
<1>4. CASE ChunkEnd = Len(flight)
  <2>1. flight' = <<>> /\ Settled' = 0
    BY <1>1, <1>4 DEF NextChunk, Settled
  <2>2. Behind(flight', Settled') = {} /\ Behind(flight, ChunkEnd) = {}
    BY <1>1, <1>4, <2>1, EmptySeq DEF Behind
  <2> QED
    BY <1>2, <2>2
<1> QED
  BY <1>1, <1>3, <1>4

LEMMA RingSame ==
  ASSUME UNCHANGED ringVars
  PROVE  RangeOf(Buffered)' = RangeOf(Buffered) /\ recorded' = recorded
BY DEF ringVars, RangeOf, Buffered, Slot

(* A chunk given up is settled as lost, and every entry of it is counted.  *)
LEMMA GivenUpSettles ==
  ASSUME Shape, Shape', Order, RetryFails
  PROVE  \E S \in SUBSET RangeOf(Unsettled) : Pipe!Settle(S)
<1>1. /\ phase # "idle" /\ Settled = offset /\ NextChunk
      /\ UNCHANGED <<ringVars, captureVars, observed>>
      /\ storeFailedDrops' = storeFailedDrops + (ChunkEnd - offset)
  BY DEF RetryFails, Settled
<1>2. RangeOf(Unsettled) = Behind(flight, offset)
  BY <1>1, UnsettledSet
<1>3. RangeOf(Unsettled)' = RangeOf(Unsettled) \ ChunkSet
  BY <1>1, <1>2, NextChunkLeaves, ChunkIsOldest
<1>4. droppedCount' = droppedCount + Cardinality(ChunkSet)
  <2>1. /\ overflowDrops \in Nat /\ storeFailedDrops \in Nat /\ recordErrorDrops \in Nat
        /\ offset \in Nat /\ ChunkEnd \in Nat
    BY <1>1, ChunkEndFacts DEF Shape, TypeOK
  <2>2. overflowDrops' = overflowDrops /\ recordErrorDrops' = recordErrorDrops
    BY <1>1 DEF captureVars
  <2>3. Cardinality(ChunkSet) = ChunkEnd - offset
    BY <1>1, ChunkIsOldest
  <2> QED
    BY <1>1, <2>1, <2>2, <2>3 DEF droppedCount
<1>5. RangeOf(observed)' = RangeOf(observed)
  BY <1>1 DEF RangeOf
<1>6. Pipe!Settle(ChunkSet)
  BY <1>1, <1>2, <1>3, <1>4, <1>5, RingSame, ChunkIsOldest, SameCardinality DEF Pipe!Settle
<1> QED
  BY <1>1, <1>2, <1>6, ChunkIsOldest

(* A chunk handed to the hook is settled as kept.                          *)
LEMMA HandedOverSettles ==
  ASSUME Shape, Shape', Order, RollupsSettle
  PROVE  \E S \in SUBSET RangeOf(Unsettled) : Pipe!Settle(S)
<1>1. /\ phase # "idle" /\ Settled = offset /\ Settled' = ChunkEnd /\ flight' = flight
      /\ UNCHANGED <<ringVars, captureVars, storeFailedDrops>>
      /\ observed' = observed \o Chunk
  BY DEF RollupsSettle, Settled, ChunkEnd
<1>2. RangeOf(Unsettled) = Behind(flight, offset)
  BY <1>1, UnsettledSet
<1>3. RangeOf(Unsettled)' = RangeOf(Unsettled) \ ChunkSet
  BY <1>1, <1>2, SetsAfter, ChunkIsOldest
<1>4. droppedCount' = droppedCount
  BY <1>1 DEF droppedCount, captureVars
<1>5. RangeOf(observed)' = RangeOf(observed) \cup ChunkSet
  <2>1. /\ Chunk \in Seq(Entry) /\ observed \in Seq(Entry)
        /\ Len(Chunk) = ChunkEnd - offset
        /\ \A i \in 1 .. Len(Chunk) : Chunk[i] = flight[offset + i]
        /\ Len(Chunk) \in Nat /\ Len(observed) \in Nat
        /\ offset \in Nat /\ ChunkEnd \in Nat
    BY <1>1, ChunkFacts, ChunkEndFacts, LenProperties DEF Shape, TypeOK
  <2>2. RangeOf(Chunk) = ChunkSet
    <3>1. ASSUME NEW i \in (offset + 1) .. ChunkEnd PROVE flight[i] \in RangeOf(Chunk)
      <4>1. i - offset \in 1 .. Len(Chunk) /\ offset + (i - offset) = i
        BY <2>1
      <4> QED
        BY <2>1, <4>1 DEF RangeOf
    <3>2. ASSUME NEW i \in 1 .. Len(Chunk) PROVE Chunk[i] \in ChunkSet
      <4>1. offset + i \in (offset + 1) .. ChunkEnd
        BY <2>1
      <4> QED
        BY <2>1, <4>1 DEF ChunkSet
    <3> QED
      BY <3>1, <3>2 DEF RangeOf, ChunkSet
  <2>3. RangeOf(observed \o Chunk) = RangeOf(observed) \cup RangeOf(Chunk)
    BY <2>1, ConcatRange
  <2> QED
    BY <1>1, <2>2, <2>3 DEF RangeOf
<1>6. Pipe!Settle(ChunkSet)
  BY <1>1, <1>2, <1>3, <1>4, <1>5, RingSame, ChunkIsOldest DEF Pipe!Settle
<1> QED
  BY <1>1, <1>2, <1>6, ChunkIsOldest

(* A chunk the hook is done with was settled when the hook was called.     *)
LEMMA HookStutters ==
  ASSUME Shape, Shape', HookSettles
  PROVE  UNCHANGED <<recorded, RangeOf(Buffered), RangeOf(Unsettled), RangeOf(observed), droppedCount>>
<1>1. /\ phase # "idle" /\ Settled = ChunkEnd /\ NextChunk
      /\ UNCHANGED <<ringVars, captureVars, observed, storeFailedDrops>>
  BY DEF HookSettles, Settled
<1>2. RangeOf(Unsettled)' = RangeOf(Unsettled)
  BY <1>1, UnsettledSet, NextChunkLeaves
<1>3. droppedCount' = droppedCount /\ RangeOf(observed)' = RangeOf(observed)
  BY <1>1 DEF droppedCount, captureVars, RangeOf
<1> QED
  BY <1>1, <1>2, <1>3, RingSame

(* A step that only moves the flag, a clip counter or the phase of a chunk *)
(* not yet settled is no step of the pipe.                                 *)
LEMMA QuietStutters ==
  ASSUME \/ RecordFiltered \/ Pause \/ Resume
         \/ StoreSucceeds \/ StoreFails \/ RetryStarts \/ UNCHANGED vars
  PROVE  UNCHANGED <<recorded, RangeOf(Buffered), RangeOf(Unsettled), RangeOf(observed), droppedCount>>
<1>1. /\ UNCHANGED <<ringVars, flight, offset, observed>>
      /\ UNCHANGED <<overflowDrops, storeFailedDrops, recordErrorDrops>>
  BY DEF RecordFiltered, Pause, Resume, StoreSucceeds, StoreFails, RetryStarts, vars,
         ringVars, captureVars, flightVars, settleVars
<1>2. Settled' = Settled
  BY <1>1 DEF RecordFiltered, Pause, Resume, StoreSucceeds, StoreFails, RetryStarts, vars,
              flightVars, Settled, ChunkEnd
<1>3. RangeOf(Unsettled)' = RangeOf(Unsettled) /\ RangeOf(observed)' = RangeOf(observed)
  BY <1>1, <1>2 DEF RangeOf, Unsettled
<1> QED
  BY <1>1, <1>3, RingSame DEF droppedCount

(* For every ring, chunk and run of records: no step of record(), push(),  *)
(* drain() or storeDrained() does anything a bounded buffer drained in     *)
(* whole batches, settled oldest part first, would not do.                 *)
THEOREM ImplementsCapturePipe == Spec => Pipe!Spec
<1>1. Init => Pipe!Init
  <2> SUFFICES ASSUME Init PROVE Pipe!Init
    OBVIOUS
  <2>1. Shape /\ flight = <<>> /\ Settled = 0 /\ recorded = 0 /\ count = 0 /\ observed = <<>>
    BY InitShape DEF Init, Settled
  <2>2. RangeOf(Buffered) = {}
    BY <2>1, BufferedSet
  <2>3. RangeOf(Unsettled) = {} /\ RangeOf(observed) = {}
    <3>1. Behind(<<>>, 0) = {} /\ RangeOf(<<>>) = {}
      BY EmptySeq DEF Behind, RangeOf
    <3> QED
      BY <2>1, <3>1, UnsettledSet
  <2>4. droppedCount = 0
    BY DEF Init, droppedCount
  <2> QED
    BY <2>1, <2>2, <2>3, <2>4 DEF Pipe!Init
<1>2. Shape /\ Shape' /\ Order /\ [Next]_vars => [Pipe!Next]_(Pipe!vars)
  <2> SUFFICES ASSUME Shape, Shape', Order, [Next]_vars
               PROVE  Pipe!Next \/ UNCHANGED Pipe!vars
    OBVIOUS
  <2>1. CASE RecordPaused \/ RecordThrows
    BY <2>1, LostRefuses DEF Pipe!Next
  <2>2. CASE RecordAdmitted
    BY <2>2, AdmittedAdmits DEF Pipe!Next
  <2>3. CASE BeginFlush
    BY <2>3, DrainTakes DEF Pipe!Next
  <2>4. CASE RetryFails
    BY <2>4, GivenUpSettles DEF Pipe!Next
  <2>5. CASE RollupsSettle
    BY <2>5, HandedOverSettles DEF Pipe!Next
  <2>6. CASE HookSettles
    BY <2>6, HookStutters DEF Pipe!vars
  <2>7. CASE \/ RecordFiltered \/ Pause \/ Resume
             \/ StoreSucceeds \/ StoreFails \/ RetryStarts \/ UNCHANGED vars
    BY <2>7, QuietStutters DEF Pipe!vars
  <2> QED
    BY <2>1, <2>2, <2>3, <2>4, <2>5, <2>6, <2>7 DEF Next, Record, FlushStep
<1> QED
  BY <1>1, <1>2, ShapeInvariant, OrderInvariant, PTL DEF Spec, Pipe!Spec

-----------------------------------------------------------------------------
(* The process runs a recorder: each of its steps is a step of the         *)
(* recorder, or none.                                                      *)

LEMMA FlushCalledIsNext ==
  ASSUME NEW ticket, NEW upTo, FlushCalled(ticket, upTo)
  PROVE  BeginFlush \/ UNCHANGED vars
BY DEF FlushCalled

LEMMA HostStepIsNext == [HostNext]_hostVars => [Next]_vars
<1> SUFFICES ASSUME [HostNext]_hostVars PROVE [Next]_vars
  OBVIOUS
<1>1. CASE HostRecords
  BY <1>1 DEF HostRecords, Next
<1>2. CASE FlushAdvances
  BY <1>2 DEF FlushAdvances, Next
<1>3. CASE TimerFires
  BY <1>3, FlushCalledIsNext DEF TimerFires, Next
<1>4. CASE Boot \/ DestroyModule
  BY <1>4 DEF Boot, DestroyModule
<1>5. CASE ShutdownStep
  BY <1>5, FlushCalledIsNext
  DEF ShutdownStep, BeginShutdown, AlerterIdle, FinalFlush, CallClose, Closed, Next
<1>6. ASSUME NEW lagging \in BOOLEAN, Sample(lagging) PROVE [Next]_vars
  BY <1>6 DEF Sample, Next
<1>7. ASSUME NEW c \in Crashes, CrashRecorded(c) PROVE [Next]_vars
  BY <1>7 DEF CrashRecorded, Next, Record
<1>8. ASSUME NEW c \in Crashes, CrashStep(c) PROVE [Next]_vars
  BY <1>8, FlushCalledIsNext
  DEF CrashStep, CrashAwaits, CrashSettles, CrashBudgetElapses, Finish, Next
<1>9. CASE UNCHANGED hostVars
  BY <1>9 DEF hostVars
<1> QED
  BY <1>1, <1>2, <1>3, <1>4, <1>5, <1>6, <1>7, <1>8, <1>9 DEF HostNext

(* Timers, shutdown, guard and crash handlers only do what a recorder      *)
(* allows: whatever is proved of the recorder holds in the process.        *)
THEOREM HostRunsRecorder == HostSpec => Spec
<1>1. HostInit => Init
  BY DEF HostInit
<1> QED
  BY <1>1, HostStepIsNext, PTL DEF HostSpec, Spec

-----------------------------------------------------------------------------
(* A promise of flush(), from its call until its caller has resumed: all   *)
(* that its flush drained has left the ring, and is in the pending flush   *)
(* or, once the promise has resolved, in none.                             *)

Promise(ticket, upTo) ==
  /\ upTo <= recorded - count
  /\ \/ Flushing /\ ticket = flushes + 1
     \/ /\ ticket <= flushes
        /\ \A i \in 1 .. Len(flight) : upTo < flight[i]

(* What a step of the recorder may do to its promises: push behind what is *)
(* drained, begin a flush of entries that were not, go on with the pending *)
(* flush, or end it.                                                       *)
LEMMA RingMoves ==
  ASSUME Shape, Shape', [Next]_vars
  PROVE  /\ recorded - count \in Nat /\ recorded' - count' \in Nat
         /\ recorded - count <= recorded' - count'
<1>1. recorded \in Nat /\ count \in Nat /\ count <= recorded
  BY BufferSizeAssumption DEF Shape, TypeOK, CountOK
<1>2. recorded' \in Nat /\ count' \in Nat /\ count' <= recorded'
  BY BufferSizeAssumption DEF Shape, TypeOK, CountOK
<1>3. CASE RecordAdmitted
  <2>1. recorded' = recorded + 1 /\ (count' = count \/ count' = count + 1)
    BY <1>3 DEF RecordAdmitted, Push
  <2>2. ASSUME NEW r \in Nat, NEW c \in Nat, c <= r, NEW d \in Nat, d <= r + 1,
               d = c \/ d = c + 1
        PROVE  r - c \in Nat /\ (r + 1) - d \in Nat /\ r - c <= (r + 1) - d
    BY <2>2
  <2> QED
    BY <1>1, <1>2, <2>1, <2>2
<1>4. CASE BeginFlush
  BY <1>1, <1>2, <1>4 DEF BeginFlush
<1>5. CASE UNCHANGED ringVars
  BY <1>1, <1>2, <1>5 DEF ringVars
<1>6. RecordAdmitted \/ BeginFlush \/ UNCHANGED ringVars
  BY RingUntouched DEF Next, Record, RecordPaused, RecordThrows, RecordFiltered, Pause, Resume, vars
<1> QED
  BY <1>1, <1>3, <1>4, <1>5, <1>6

LEMMA FlightMoves ==
  ASSUME Shape, [Next]_vars
  PROVE  \/ UNCHANGED <<flight, flushes>> /\ (Flushing' <=> Flushing)
         \/ /\ ~Flushing /\ flushes' = flushes
            /\ \A i \in 1 .. Len(flight') : flight'[i] > recorded - count
         \/ Flushing /\ flushes' = flushes + 1 /\ Len(flight') = 0
<1>1. CASE BeginFlush
  <2>1. /\ recorded \in Nat /\ count \in Nat /\ Len(Buffered) = count
        /\ \A i \in 1 .. count : Buffered[i] = recorded - count + i
    BY BufferedFacts, BufferSizeAssumption DEF Shape, TypeOK
  <2>2. flight' = Buffered /\ flushes' = flushes /\ ~Flushing
    BY <1>1 DEF BeginFlush, settleVars
  <2> QED
    BY <2>1, <2>2
<1>2. CASE StoreSucceeds \/ StoreFails \/ RetryStarts \/ RollupsSettle
  BY <1>2 DEF StoreSucceeds, StoreFails, RetryStarts, RollupsSettle, settleVars, Flushing
<1>3. CASE RetryFails \/ HookSettles
  <2>1. NextChunk /\ Flushing
    BY <1>3 DEF RetryFails, HookSettles, Flushing
  <2> QED
    BY <2>1, EmptySeq DEF NextChunk, Flushing
<1>4. CASE Record \/ Pause \/ Resume \/ UNCHANGED vars
  <2>1. UNCHANGED <<flightVars, flushes>>
    BY <1>4 DEF Record, RecordPaused, RecordThrows, RecordFiltered, RecordAdmitted, Pause,
                Resume, vars, settleVars
  <2> QED
    BY <2>1 DEF flightVars, Flushing
<1> QED
  BY <1>1, <1>2, <1>3, <1>4 DEF Next, FlushStep

LEMMA FlushesGrow ==
  ASSUME Shape, Shape', [Next]_vars
  PROVE  flushes \in Nat /\ flushes' \in Nat /\ flushes <= flushes'
<1>1. flushes \in Nat
  BY DEF Shape, TypeOK
<1>2. flushes' = flushes \/ flushes' = flushes + 1
  BY FlightMoves
<1> QED
  BY <1>1, <1>2

LEMMA PromiseLasts ==
  ASSUME Shape, Shape', [Next]_vars, NEW ticket \in Nat, NEW upTo \in Nat,
         Promise(ticket, upTo)
  PROVE  Promise(ticket, upTo)'
<1>0. /\ recorded - count \in Nat /\ recorded' - count' \in Nat
      /\ recorded - count <= recorded' - count'
  BY RingMoves
<1>1. flushes \in Nat
  BY DEF Shape, TypeOK
<1>2. upTo <= recorded' - count'
  BY <1>0 DEF Promise
<1>3. CASE UNCHANGED <<flight, flushes>> /\ (Flushing' <=> Flushing)
  BY <1>2, <1>3 DEF Promise
<1>4. CASE /\ ~Flushing /\ flushes' = flushes
           /\ \A i \in 1 .. Len(flight') : flight'[i] > recorded - count
  <2>1. flight' \in Seq(Nat)
    BY SeqMonotonic DEF Shape, TypeOK, Entry
  <2>2. \A i \in 1 .. Len(flight') : upTo < flight'[i]
    <3> TAKE i \in 1 .. Len(flight')
    <3>1. flight'[i] \in Nat
      BY <2>1, ElementOfSeq
    <3> QED
      BY <1>0, <1>4, <3>1 DEF Promise
  <2> QED
    BY <1>2, <1>4, <2>2 DEF Promise
<1>5. CASE Flushing /\ flushes' = flushes + 1 /\ Len(flight') = 0
  <2>1. ticket <= flushes'
    BY <1>1, <1>5 DEF Promise
  <2> QED
    BY <1>2, <1>5, <2>1 DEF Promise
<1> QED
  BY <1>3, <1>4, <1>5, FlightMoves

(* What the last flush drained has left the ring.                          *)
Drained == drainMark <= recorded - count

(* flush() returns a promise, whichever of its three cases it is.          *)
LEMMA PromiseMade ==
  ASSUME Shape, Shape', Drained, drainMark \in Nat, NEW ticket, NEW upTo,
         FlushCalled(ticket, upTo)
  PROVE  /\ ticket \in Nat /\ upTo \in Nat /\ drainMark' \in Nat
         /\ Promise(ticket, upTo)' /\ Drained'
<1>1. /\ recorded \in Nat /\ count \in Nat /\ count <= recorded /\ flushes \in Nat
  BY BufferSizeAssumption DEF Shape, TypeOK, CountOK
<1>2. CASE Flushing /\ ticket = flushes + 1 /\ upTo = drainMark /\ UNCHANGED <<vars, drainMark>>
  <2>1. Flushing' /\ UNCHANGED <<recorded, count, flushes, flight>>
    BY <1>2 DEF Flushing, vars, ringVars, flightVars, settleVars
  <2> QED
    BY <1>1, <1>2, <2>1 DEF Promise, Drained
<1>3. CASE /\ ~Flushing /\ count = 0 /\ ticket = flushes /\ upTo = recorded
           /\ UNCHANGED <<vars, drainMark>>
  <2>1. UNCHANGED <<recorded, count, flushes, flight>> /\ Len(flight) = 0
    BY <1>3, EmptySeq DEF Flushing, vars, ringVars, flightVars, settleVars, Shape, FlightOK
  <2>2. upTo <= recorded' - count' /\ ticket <= flushes'
    BY <1>1, <1>3, <2>1
  <2> QED
    BY <1>1, <1>3, <2>1, <2>2 DEF Promise, Drained
<1>4. CASE BeginFlush /\ ticket = flushes + 1 /\ upTo = recorded /\ drainMark' = recorded
  <2>1. Flushing' /\ recorded' = recorded /\ count' = 0 /\ flushes' = flushes
    BY <1>4 DEF BeginFlush, Flushing, settleVars
  <2> QED
    BY <1>1, <1>4, <2>1 DEF Promise, Drained
<1> QED
  BY <1>2, <1>3, <1>4 DEF FlushCalled

(* A promise that has resolved: nothing its flush drained is left.         *)
LEMMA ResolvedIsGone ==
  ASSUME Shape, NEW ticket \in Nat, NEW upTo \in Nat, Promise(ticket, upTo), ticket <= flushes
  PROVE  Gone(upTo)
<1>1. /\ recorded \in Nat /\ count \in Nat /\ flushes \in Nat
      /\ \A i \in 1 .. count : Buffered[i] = recorded - count + i
  BY BufferedFacts, BufferSizeAssumption DEF Shape, TypeOK
<1>2. upTo <= recorded - count /\ \A i \in 1 .. Len(flight) : upTo < flight[i]
  BY <1>1 DEF Promise
<1>3. ASSUME NEW i \in 1 .. Len(Unsettled)
      PROVE  upTo < Unsettled[i]
  <2>1. /\ Settled + i \in 1 .. Len(flight) /\ Unsettled[i] = flight[Settled + i]
    BY UnsettledFacts, LenProperties DEF Shape, TypeOK
  <2> QED
    BY <1>2, <2>1
<1> SUFFICES ASSUME NEW e \in 1 .. upTo, Pending(e) PROVE FALSE
  BY DEF Gone
<1>4. ASSUME NEW i \in 1 .. count, Buffered[i] = e PROVE FALSE
  <2>1. e = recorded - count + i
    BY <1>1, <1>4
  <2> QED
    BY <1>1, <1>2, <2>1
<1>5. ASSUME NEW i \in 1 .. Len(Unsettled), Unsettled[i] = e PROVE FALSE
  <2>1. upTo < e
    BY <1>3, <1>5
  <2> QED
    BY <2>1
<1> QED
  BY <1>4, <1>5 DEF Pending

-----------------------------------------------------------------------------
(* The inductive invariant.                                                *)

(* The types, in two parts: the flags, and the rest.                       *)
Flags ==
  /\ timer \in BOOLEAN /\ alerter \in BOOLEAN /\ guard \in BOOLEAN
  /\ listening \in BOOLEAN /\ exitOnCrash \in BOOLEAN /\ exited \in BOOLEAN

Marks ==
  /\ life \in {"booting", "running", "destroyed", "draining", "flushing", "closing", "down"}
  /\ alerted \subseteq Entry
  /\ warmup \in 0 .. WarmupSamples
  /\ callback \in Crashes \cup {None}
  /\ crash \in [Crashes -> {"none", "awaiting", "settled", "expired"}]
  /\ crashEntry \in [Crashes -> Nat]
  /\ crashTicket \in [Crashes -> Nat]
  /\ crashMark \in [Crashes -> Nat]
  /\ shutTicket \in Nat /\ drainMark \in Nat /\ shutMark \in Nat

LEMMA HostTypes == HostTypeOK <=> TypeOK /\ Flags /\ Marks
BY DEF HostTypeOK, Flags, Marks

LEMMA HostTypesLast ==
  ASSUME Shape', Flags', Marks'
  PROVE  HostTypeOK'
BY DEF Shape, HostTypeOK, Flags, Marks

(* From the module's destruction on no crash is captured, and from the     *)
(* shutdown on the timer is off: nobody but the shutdown calls flush().    *)
Quiet ==
  /\ life \notin {"booting", "running"} => ~listening /\ callback = None
  /\ life \notin {"booting", "running", "destroyed"} => ~timer

CrashPromise(c) ==
  /\ crash[c] \in {"awaiting", "settled"} => Promise(crashTicket[c], crashMark[c])
  /\ crash[c] = "settled" => crashTicket[c] <= flushes

(* The shutdown's promise is of the last flush there is.                   *)
ShutPromise ==
  /\ life \in {"flushing", "closing", "down"} => Promise(shutTicket, shutMark)
  /\ life \in {"flushing", "closing", "down"} /\ shutTicket <= flushes => ~Flushing
  /\ life \in {"closing", "down"} => shutTicket <= flushes

Promises ==
  /\ Drained
  /\ ShutPromise
  /\ \A c \in Crashes : CrashPromise(c)

HostIInv == HostTypeOK /\ Quiet /\ Promises /\ AlertsMatchStored

LEMMA HostInitInv == HostInit => HostIInv
<1> SUFFICES ASSUME HostInit PROVE HostIInv
  OBVIOUS
<1>1. TypeOK
  BY InitShape DEF HostInit, Shape
<1>2. HostTypeOK
  <2>1. Flags
    BY DEF HostInit, Flags
  <2>2. Marks
    BY HostAssumption DEF HostInit, Marks
  <2> QED
    BY <1>1, <2>1, <2>2, HostTypes
<1>3. Quiet /\ Promises
  BY DEF HostInit, Init, Quiet, Promises, Drained, ShutPromise, CrashPromise
<1>4. RangeOf(observed) = {}
  BY EmptySeq DEF HostInit, Init, RangeOf
<1> QED
  BY <1>2, <1>3, <1>4 DEF HostIInv, AlertsMatchStored, HostInit

-----------------------------------------------------------------------------
(* What a step of the recorder does to promises that were there before.    *)

LEMMA DrainedLasts ==
  ASSUME Shape, Shape', HostIInv, [Next]_vars, drainMark' = drainMark
  PROVE  Drained'
<1>1. drainMark \in Nat /\ Drained
  BY HostTypes DEF HostIInv, Marks, Promises
<1> QED
  BY <1>1, RingMoves DEF Drained

LEMMA CrashPromiseLasts ==
  ASSUME Shape, Shape', HostIInv, [Next]_vars, NEW c \in Crashes,
         UNCHANGED <<crash[c], crashTicket[c], crashMark[c]>>
  PROVE  CrashPromise(c)'
<1>1. crashTicket[c] \in Nat /\ crashMark[c] \in Nat /\ CrashPromise(c)
  BY HostTypes DEF HostIInv, Marks, Promises
<1>2. flushes \in Nat /\ flushes' \in Nat /\ flushes <= flushes'
  BY FlushesGrow
<1>3. crash'[c] = "settled" => crashTicket'[c] <= flushes'
  BY <1>1, <1>2 DEF CrashPromise
<1>4. ASSUME Promise(crashTicket[c], crashMark[c])
      PROVE  Promise(crashTicket[c], crashMark[c])'
  <2>1. PICK ticket \in Nat, upTo \in Nat : ticket = crashTicket[c] /\ upTo = crashMark[c]
    BY <1>1
  <2>2. Promise(ticket, upTo)'
    BY <1>4, <2>1, PromiseLasts
  <2> QED
    BY <2>1, <2>2 DEF Promise
<1> QED
  BY <1>1, <1>3, <1>4 DEF CrashPromise

LEMMA NoNewFlush ==
  ASSUME Record \/ Pause \/ Resume \/ FlushStep \/ UNCHANGED vars
  PROVE  Flushing' => Flushing
<1>1. CASE FlushStep
  BY <1>1 DEF FlushStep, StoreSucceeds, StoreFails, RetryStarts, RetryFails, RollupsSettle,
              HookSettles, Flushing
<1>2. CASE Record \/ Pause \/ Resume \/ UNCHANGED vars
  <2>1. phase' = phase
    BY <1>2 DEF Record, RecordPaused, RecordThrows, RecordFiltered, RecordAdmitted, Pause,
                Resume, vars, flightVars
  <2> QED
    BY <2>1 DEF Flushing
<1> QED
  BY <1>1, <1>2

(* The end of the flush awaited is the end of all flushing: the next one   *)
(* would have to be begun.                                                 *)
LEMMA ShutPromiseLasts ==
  ASSUME Shape, Shape', HostIInv, [Next]_vars, UNCHANGED <<life, shutTicket, shutMark>>,
         life \in {"flushing", "closing", "down"} => (Flushing' => Flushing)
  PROVE  ShutPromise'
<1>1. shutTicket \in Nat /\ shutMark \in Nat /\ ShutPromise
  BY HostTypes DEF HostIInv, Marks, Promises
<1>2. flushes \in Nat /\ flushes' \in Nat /\ flushes <= flushes'
  BY FlushesGrow
<1>3. CASE life \in {"flushing", "closing", "down"}
  <2>1. Promise(shutTicket, shutMark)
    BY <1>1, <1>3 DEF ShutPromise
  <2>2. PICK ticket \in Nat, upTo \in Nat : ticket = shutTicket /\ upTo = shutMark
    BY <1>1
  <2>3. Promise(ticket, upTo)'
    BY <2>1, <2>2, PromiseLasts
  <2>4. Promise(shutTicket, shutMark)'
    BY <2>2, <2>3 DEF Promise
  <2>5. ASSUME shutTicket' <= flushes' PROVE ~Flushing'
    <3>1. CASE shutTicket <= flushes
      BY <1>1, <1>3, <3>1 DEF ShutPromise
    <3>2. CASE ~(shutTicket <= flushes)
      <4>1. flushes' # flushes
        BY <2>5, <3>2
      <4>2. Len(flight') = 0
        BY <4>1, FlightMoves
      <4>3. phase' # "idle" => offset' \in Nat /\ offset' < Len(flight')
        BY DEF Shape, FlightOK, TypeOK
      <4> QED
        BY <4>2, <4>3 DEF Flushing
    <3> QED
      BY <3>1, <3>2
  <2>6. life' \in {"closing", "down"} => shutTicket' <= flushes'
    BY <1>1, <1>2 DEF ShutPromise
  <2> QED
    BY <2>4, <2>5, <2>6 DEF ShutPromise
<1>4. CASE ~(life \in {"flushing", "closing", "down"})
  BY <1>4 DEF ShutPromise
<1> QED
  BY <1>3, <1>4

(* The three together, for a step that is nobody's call of flush().        *)
LEMMA PromisesLast ==
  ASSUME Shape, Shape', HostIInv,
         Record \/ Pause \/ Resume \/ FlushStep \/ UNCHANGED vars,
         UNCHANGED <<life, shutTicket, shutMark, crash, crashTicket, crashMark, drainMark>>
  PROVE  Promises'
<1>1. [Next]_vars
  BY DEF Next
<1> QED
  BY <1>1, NoNewFlush, DrainedLasts, CrashPromiseLasts, ShutPromiseLasts DEF Promises

(* Only a chunk's rollups change what the hooks were handed.               *)
LEMMA AlertsLast ==
  ASSUME AlertsMatchStored, alerter' => alerter, UNCHANGED alerted,
         Record \/ Pause \/ Resume \/ BeginFlush \/ UNCHANGED vars
  PROVE  AlertsMatchStored'
<1>1. observed' = observed
  BY DEF Record, RecordPaused, RecordThrows, RecordFiltered, RecordAdmitted, Pause, Resume,
         BeginFlush, vars, settleVars
<1> QED
  BY <1>1 DEF AlertsMatchStored, RangeOf

-----------------------------------------------------------------------------
(* Each step keeps the invariant.                                          *)

LEMMA HostRecordsStep ==
  ASSUME Shape, Shape', HostIInv, HostRecords
  PROVE  HostIInv'
<1>1. Record /\ UNCHANGED <<lifeVars, guardVars, crashVars, alerted, drainMark>>
  BY DEF HostRecords
<1>2. HostTypeOK'
  <2>1. Flags'
    BY <1>1, HostTypes DEF HostIInv, Flags, lifeVars, guardVars, crashVars
  <2>2. Marks'
    BY <1>1, HostTypes DEF HostIInv, Marks, lifeVars, guardVars, crashVars
  <2> QED
    BY <2>1, <2>2, HostTypesLast
<1>3. Quiet'
  BY <1>1 DEF HostIInv, Quiet, lifeVars, crashVars
<1>4. Promises'
  BY <1>1, PromisesLast DEF lifeVars, crashVars
<1>5. AlertsMatchStored'
  BY <1>1, AlertsLast DEF HostIInv, lifeVars
<1> QED
  BY <1>2, <1>3, <1>4, <1>5 DEF HostIInv

(* onFlushStored gives the alerter the chunk the observers are given.      *)
LEMMA FlushAdvancesStep ==
  ASSUME Shape, Shape', HostIInv, FlushAdvances
  PROVE  HostIInv'
<1>1. FlushStep /\ UNCHANGED <<lifeVars, guardVars, crashVars, drainMark>>
  BY DEF FlushAdvances
<1>2. phase # "idle" /\ TypeOK /\ FlightOK
  BY <1>1 DEF FlushStep, StoreSucceeds, StoreFails, RetryStarts, RetryFails, RollupsSettle,
              HookSettles, Shape
<1>3. ChunkSet \subseteq Entry
  <2>1. /\ offset \in Nat /\ ChunkEnd \in Nat /\ ChunkEnd <= Len(flight) /\ Len(flight) \in Nat
    BY <1>2, ChunkEndFacts DEF TypeOK
  <2>2. ASSUME NEW i \in (offset + 1) .. ChunkEnd PROVE flight[i] \in Entry
    <3>1. i \in 1 .. Len(flight)
      BY <2>1
    <3> QED
      BY <1>2, <3>1, ElementOfSeq DEF TypeOK
  <2> QED
    BY <2>2 DEF ChunkSet
<1>4. HostTypeOK'
  <2>1. Flags'
    BY <1>1, HostTypes DEF HostIInv, Flags, lifeVars, guardVars, crashVars
  <2>2. alerted' \subseteq Entry
    BY <1>3, HostTypes DEF FlushAdvances, HostIInv, Marks
  <2>3. Marks'
    BY <1>1, <2>2, HostTypes DEF HostIInv, Marks, lifeVars, guardVars, crashVars
  <2> QED
    BY <2>1, <2>3, HostTypesLast
<1>5. Quiet'
  BY <1>1 DEF HostIInv, Quiet, lifeVars, crashVars
<1>6. Promises'
  BY <1>1, PromisesLast DEF lifeVars, crashVars
<1>7. AlertsMatchStored'
  <2>1. CASE ~RollupsSettle
    <3>1. observed' = observed
      BY <1>1, <2>1 DEF FlushStep, StoreSucceeds, StoreFails, RetryStarts, RetryFails,
                        HookSettles, settleVars
    <3> QED
      BY <1>1, <3>1 DEF FlushAdvances, HostIInv, AlertsMatchStored, RangeOf, lifeVars
  <2>2. CASE RollupsSettle
    <3>1. observed' = observed \o Chunk /\ alerter' = alerter
      BY <1>1, <2>2 DEF RollupsSettle, lifeVars
    <3>2. /\ observed \in Seq(Entry) /\ Len(observed) \in Nat
          /\ offset \in Nat /\ ChunkEnd \in Nat /\ offset < ChunkEnd
          /\ Chunk \in Seq(Entry) /\ Len(Chunk) = ChunkEnd - offset
          /\ \A i \in 1 .. (ChunkEnd - offset) : Chunk[i] = flight[offset + i]
      BY <1>2, ChunkEndFacts, ChunkFacts, LenProperties DEF TypeOK
    <3>3. /\ Len(observed') = Len(observed) + Len(Chunk)
          /\ \A i \in 1 .. Len(observed) + Len(Chunk) :
               observed'[i] = IF i <= Len(observed) THEN observed[i]
                                                    ELSE Chunk[i - Len(observed)]
      BY <3>1, <3>2, ConcatProperties
    <3>4. observed' # observed
      BY <3>2, <3>3
    <3>5. RangeOf(observed)' = RangeOf(observed) \cup ChunkSet
      <4>1. ASSUME NEW i \in 1 .. Len(observed')
            PROVE  observed'[i] \in RangeOf(observed) \cup ChunkSet
        <5>1. CASE i <= Len(observed)
          BY <3>2, <3>3, <5>1 DEF RangeOf
        <5>2. CASE ~(i <= Len(observed))
          <6>1. /\ i - Len(observed) \in 1 .. (ChunkEnd - offset)
                /\ offset + (i - Len(observed)) \in (offset + 1) .. ChunkEnd
            BY <3>2, <3>3, <5>2
          <6>2. observed'[i] = flight[offset + (i - Len(observed))]
            BY <3>2, <3>3, <5>2, <6>1
          <6> QED
            BY <6>1, <6>2 DEF ChunkSet
        <5> QED
          BY <5>1, <5>2
      <4>2. ASSUME NEW i \in 1 .. Len(observed)
            PROVE  observed[i] \in RangeOf(observed)'
        <5>1. i \in 1 .. Len(observed') /\ observed'[i] = observed[i]
          BY <3>2, <3>3
        <5> QED
          BY <5>1 DEF RangeOf
      <4>3. ASSUME NEW i \in (offset + 1) .. ChunkEnd
            PROVE  flight[i] \in RangeOf(observed)'
        <5>1. PICK k \in 1 .. (ChunkEnd - offset) : i = offset + k
          <6>1. i - offset \in 1 .. (ChunkEnd - offset) /\ i = offset + (i - offset)
            BY <3>2
          <6> QED
            BY <6>1
        <5>2. /\ Len(observed) + k \in 1 .. Len(observed')
              /\ ~(Len(observed) + k <= Len(observed))
              /\ (Len(observed) + k) - Len(observed) = k
          BY <3>2, <3>3, <5>1
        <5>3. observed'[Len(observed) + k] = Chunk[k]
          BY <3>2, <3>3, <5>1, <5>2
        <5>4. Chunk[k] = flight[i]
          BY <3>2, <5>1
        <5> QED
          BY <5>2, <5>3, <5>4 DEF RangeOf
      <4> QED
        BY <4>1, <4>2, <4>3 DEF RangeOf, ChunkSet
    <3> QED
      BY <3>1, <3>4, <3>5 DEF FlushAdvances, HostIInv, AlertsMatchStored
  <2> QED
    BY <2>1, <2>2
<1> QED
  BY <1>4, <1>5, <1>6, <1>7 DEF HostIInv

(* Somebody calls flush() while the shutdown awaits none.                  *)
LEMMA FlushCalledStep ==
  ASSUME Shape, Shape', HostIInv, NEW ticket, NEW upTo, FlushCalled(ticket, upTo),
         life' = life, life \in {"booting", "running", "destroyed", "draining"}
  PROVE  /\ [Next]_vars
         /\ ticket \in Nat /\ upTo \in Nat /\ drainMark' \in Nat
         /\ Promise(ticket, upTo)' /\ Drained' /\ ShutPromise'
         /\ AlertsMatchStored /\ alerter' = alerter /\ alerted' = alerted
              => AlertsMatchStored'
<1>1. Drained /\ drainMark \in Nat
  BY HostTypes DEF HostIInv, Promises, Marks
<1>2. BeginFlush \/ UNCHANGED vars
  BY FlushCalledIsNext
<1>3. observed' = observed
  BY <1>2 DEF BeginFlush, vars, settleVars
<1>4. ShutPromise'
  BY DEF ShutPromise
<1> QED
  BY <1>1, <1>2, <1>3, <1>4, PromiseMade DEF Next, AlertsMatchStored, RangeOf

LEMMA TimerFiresStep ==
  ASSUME Shape, Shape', HostIInv, TimerFires
  PROVE  HostIInv'
<1>1. PICK ticket \in Tickets, upTo \in {drainMark, recorded} : FlushCalled(ticket, upTo)
  BY DEF TimerFires
<1>2. timer /\ UNCHANGED <<lifeVars, guardVars, crashVars, alerted>>
  BY DEF TimerFires
<1>3. life' = life /\ life \in {"booting", "running", "destroyed", "draining"}
  BY <1>2, HostTypes DEF HostIInv, Quiet, Marks, lifeVars
<1>4. /\ [Next]_vars /\ drainMark' \in Nat /\ Drained' /\ ShutPromise'
      /\ AlertsMatchStored'
  BY <1>1, <1>2, <1>3, FlushCalledStep DEF HostIInv, lifeVars
<1>5. HostTypeOK'
  <2>1. Flags'
    BY <1>2, HostTypes DEF HostIInv, Flags, lifeVars, guardVars, crashVars
  <2>2. Marks'
    BY <1>2, <1>4, HostTypes DEF HostIInv, Marks, lifeVars, guardVars, crashVars
  <2> QED
    BY <2>1, <2>2, HostTypesLast
<1>6. Quiet'
  BY <1>2 DEF HostIInv, Quiet, lifeVars, crashVars
<1>7. \A c \in Crashes : CrashPromise(c)'
  BY <1>2, <1>4, CrashPromiseLasts DEF crashVars
<1> QED
  BY <1>4, <1>5, <1>6, <1>7 DEF HostIInv, Promises

(* Boot and the destruction of the module do not touch the recorder.       *)
LEMMA LifeStep ==
  ASSUME Shape, Shape', HostIInv, Boot \/ DestroyModule
  PROVE  HostIInv'
<1>1. /\ UNCHANGED <<vars, alerter, shutTicket, shutMark, guardVars, crashVars, alerted,
                     drainMark>>
      /\ callback = None
      /\ life' \in {"running", "destroyed"}
  BY DEF Boot, DestroyModule, LoopFree
<1>2. HostTypeOK'
  <2>1. Flags'
    BY <1>1, HostTypes DEF Boot, DestroyModule, HostIInv, Flags, guardVars, crashVars
  <2>2. Marks'
    BY <1>1, HostTypes DEF HostIInv, Marks, guardVars, crashVars
  <2> QED
    BY <2>1, <2>2, HostTypesLast
<1>3. Quiet'
  BY <1>1 DEF Boot, DestroyModule, Quiet, crashVars
<1>4. Promises'
  <2>1. Drained'
    BY <1>1, DrainedLasts
  <2>2. ShutPromise'
    BY <1>1 DEF ShutPromise
  <2>3. \A c \in Crashes : CrashPromise(c)'
    BY <1>1, CrashPromiseLasts DEF crashVars
  <2> QED
    BY <2>1, <2>2, <2>3 DEF Promises
<1>5. AlertsMatchStored'
  BY <1>1, AlertsLast DEF HostIInv
<1> QED
  BY <1>2, <1>3, <1>4, <1>5 DEF HostIInv

(* The shutdown's own call of flush(), the last one there will be.         *)
LEMMA FinalFlushStep ==
  ASSUME Shape, Shape', HostIInv, FinalFlush,
         life \in {"destroyed", "draining"}, timer' = FALSE, guard' \in BOOLEAN,
         UNCHANGED <<listening, warmup, crashVars, alerted>>
  PROVE  HostIInv'
<1>1. PICK ticket \in Tickets, upTo \in {drainMark, recorded} :
         FlushCalled(ticket, upTo) /\ shutTicket' = ticket /\ shutMark' = upTo
  BY DEF FinalFlush
<1>2. life' = "flushing" /\ alerter' = FALSE
  BY DEF FinalFlush
<1>3. /\ ticket \in Nat /\ upTo \in Nat /\ drainMark' \in Nat
      /\ Promise(ticket, upTo)' /\ Drained'
  BY <1>1, HostTypes, PromiseMade DEF HostIInv, Promises, Marks
<1>4. [Next]_vars
  BY <1>1, FlushCalledIsNext DEF Next
<1>5. HostTypeOK'
  <2>1. Flags'
    BY <1>2, HostTypes DEF HostIInv, Flags, crashVars
  <2>2. Marks'
    BY <1>1, <1>2, <1>3, HostTypes DEF HostIInv, Marks, crashVars
  <2> QED
    BY <2>1, <2>2, HostTypesLast
<1>6. Quiet'
  BY <1>2 DEF HostIInv, Quiet, crashVars
<1>7. ShutPromise'
  <2>1. Promise(shutTicket, shutMark)'
    BY <1>1, <1>3 DEF Promise
  <2>2. shutTicket' <= flushes' => ~Flushing'
    <3>1. flushes \in Nat
      BY DEF Shape, TypeOK
    <3>2. CASE ticket = flushes + 1
      <4>1. flushes' = flushes
        BY <1>1, <3>1, <3>2 DEF FlushCalled, BeginFlush, vars, settleVars
      <4> QED
        BY <1>1, <3>1, <3>2, <4>1
    <3>3. CASE ticket # flushes + 1
      BY <1>1, <3>3 DEF FlushCalled, Flushing, vars, flightVars
    <3> QED
      BY <3>2, <3>3
  <2> QED
    BY <1>2, <2>1, <2>2 DEF ShutPromise
<1>8. \A c \in Crashes : CrashPromise(c)'
  BY <1>4, CrashPromiseLasts DEF crashVars
<1>9. AlertsMatchStored'
  BY <1>2 DEF AlertsMatchStored
<1> QED
  BY <1>3, <1>5, <1>6, <1>7, <1>8, <1>9 DEF HostIInv, Promises

(* The rest of the shutdown calls no flush(); storage.close() is called    *)
(* when the promise has resolved.                                          *)
LEMMA ShutdownRestStep ==
  ASSUME Shape, Shape', HostIInv,
         UNCHANGED <<vars, alerter, listening, shutTicket, shutMark, warmup, crashVars, alerted,
                     drainMark>>,
         timer' \in BOOLEAN, guard' \in BOOLEAN, timer' => timer,
         \/ life = "destroyed" /\ life' = "draining" /\ ~timer'
         \/ ShutdownResumes /\ life' = "closing"
         \/ life = "closing" /\ life' = "down"
  PROVE  HostIInv'
<1>1. HostTypeOK'
  <2>1. Flags'
    BY HostTypes DEF HostIInv, Flags, crashVars
  <2>2. Marks'
    BY HostTypes DEF HostIInv, Marks, crashVars
  <2> QED
    BY <2>1, <2>2, HostTypesLast
<1>2. Quiet'
  BY DEF HostIInv, Quiet, crashVars, ShutdownResumes
<1>3. ShutPromise'
  <2>1. UNCHANGED <<flushes, flight, recorded, count>> /\ (Flushing' <=> Flushing)
    BY DEF vars, ringVars, flightVars, settleVars, Flushing
  <2>2. CASE life' = "draining"
    BY <2>2 DEF ShutPromise
  <2>3. CASE life' # "draining"
    BY <2>1, <2>3 DEF HostIInv, Promises, ShutPromise, Promise, ShutdownResumes
  <2> QED
    BY <2>2, <2>3
<1>4. Drained'
  BY DrainedLasts
<1>5. \A c \in Crashes : CrashPromise(c)'
  BY CrashPromiseLasts DEF crashVars
<1>6. AlertsMatchStored'
  BY AlertsLast DEF HostIInv
<1> QED
  BY <1>1, <1>2, <1>3, <1>4, <1>5, <1>6 DEF HostIInv, Promises

LEMMA ShutdownStepStep ==
  ASSUME Shape, Shape', HostIInv, ShutdownStep
  PROVE  HostIInv'
<1>t. Flags
  BY HostTypes DEF HostIInv
<1>1. CASE BeginShutdown /\ alerter
  <2>1. /\ UNCHANGED <<vars, alerter, listening, shutTicket, shutMark, warmup, crashVars, alerted,
                       drainMark>>
        /\ timer' = FALSE /\ guard' = FALSE
        /\ life = "destroyed" /\ life' = "draining"
    BY <1>1 DEF BeginShutdown
  <2> QED
    BY <2>1, ShutdownRestStep
<1>2. CASE BeginShutdown /\ ~alerter
  <2>1. FinalFlush /\ life = "destroyed" /\ timer' = FALSE /\ guard' = FALSE
        /\ UNCHANGED <<listening, warmup, crashVars, alerted>>
    BY <1>2 DEF BeginShutdown
  <2> QED
    BY <2>1, FinalFlushStep
<1>3. CASE AlerterIdle
  <2>1. FinalFlush /\ life = "draining"
        /\ UNCHANGED <<timer, listening, guard, warmup, crashVars, alerted>>
    BY <1>3 DEF AlerterIdle, guardVars
  <2>2. timer' = FALSE /\ guard' \in BOOLEAN
    <3>1. ~timer
      BY <2>1 DEF HostIInv, Quiet
    <3> QED
      BY <1>t, <2>1, <3>1 DEF Flags
  <2> QED
    BY <2>1, <2>2, FinalFlushStep
<1>4. CASE CallClose \/ Closed
  <2>1. /\ UNCHANGED <<vars, timer, alerter, listening, shutTicket, shutMark, guardVars, crashVars,
                       alerted, drainMark>>
        /\ \/ ShutdownResumes /\ life' = "closing"
           \/ life = "closing" /\ life' = "down"
    BY <1>4 DEF CallClose, Closed
  <2>2. timer' \in BOOLEAN /\ guard' \in BOOLEAN /\ (timer' => timer)
    BY <1>t, <2>1 DEF Flags, guardVars
  <2> QED
    BY <2>1, <2>2, ShutdownRestStep DEF guardVars
<1> QED
  BY <1>1, <1>2, <1>3, <1>4 DEF ShutdownStep

LEMMA SampleStep ==
  ASSUME Shape, Shape', HostIInv, NEW lagging \in BOOLEAN, Sample(lagging)
  PROVE  HostIInv'
<1>1. /\ Pause \/ Resume \/ UNCHANGED vars
      /\ UNCHANGED <<guard, lifeVars, crashVars, alerted, drainMark>>
  BY DEF Sample
<1>2. HostTypeOK'
  <2>1. Flags'
    BY <1>1, HostTypes DEF HostIInv, Flags, lifeVars, crashVars
  <2>2. warmup' \in 0 .. WarmupSamples
    BY HostTypes, HostAssumption DEF Sample, HostIInv, Marks
  <2>3. Marks'
    BY <1>1, <2>2, HostTypes DEF HostIInv, Marks, lifeVars, crashVars
  <2> QED
    BY <2>1, <2>3, HostTypesLast
<1>3. Quiet'
  BY <1>1 DEF HostIInv, Quiet, lifeVars, crashVars
<1>4. Promises'
  BY <1>1, PromisesLast DEF lifeVars, crashVars
<1>5. AlertsMatchStored'
  BY <1>1, AlertsLast DEF HostIInv, lifeVars
<1> QED
  BY <1>2, <1>3, <1>4, <1>5 DEF HostIInv

(* capture() records the crash ...                                         *)
LEMMA CrashRecordedStep ==
  ASSUME Shape, Shape', HostIInv, NEW c \in Crashes, CrashRecorded(c)
  PROVE  HostIInv'
<1>1. /\ Record /\ listening /\ callback' = c
      /\ UNCHANGED <<lifeVars, guardVars, exitOnCrash, crash, crashTicket, crashMark, exited,
                     alerted, drainMark>>
  BY DEF CrashRecorded, Record
<1>2. HostTypeOK'
  <2>1. Flags'
    BY <1>1, HostTypes DEF HostIInv, Flags, lifeVars, guardVars
  <2>2. crashEntry' \in [Crashes -> Nat]
    <3>1. recorded' \in Nat
      BY DEF Shape, TypeOK
    <3> QED
      BY <3>1, HostTypes DEF CrashRecorded, HostIInv, Marks
  <2>3. Marks'
    BY <1>1, <2>2, HostTypes DEF HostIInv, Marks, lifeVars, guardVars
  <2> QED
    BY <2>1, <2>3, HostTypesLast
<1>3. Quiet'
  BY <1>1 DEF HostIInv, Quiet, lifeVars
<1>4. Promises'
  BY <1>1, PromisesLast DEF lifeVars
<1>5. AlertsMatchStored'
  BY <1>1, AlertsLast DEF HostIInv, lifeVars
<1> QED
  BY <1>2, <1>3, <1>4, <1>5 DEF HostIInv

(* ... and flushes it, while the module is not yet destroyed.              *)
LEMMA CrashAwaitsStep ==
  ASSUME Shape, Shape', HostIInv, NEW c \in Crashes, CrashAwaits(c)
  PROVE  HostIInv'
<1>1. PICK ticket \in Tickets, upTo \in {drainMark, recorded} :
         /\ FlushCalled(ticket, upTo)
         /\ crashTicket' = [crashTicket EXCEPT ![c] = ticket]
         /\ crashMark' = [crashMark EXCEPT ![c] = upTo]
  BY DEF CrashAwaits
<1>2. /\ callback = c /\ callback' = None
      /\ crash' = [crash EXCEPT ![c] = "awaiting"]
      /\ UNCHANGED <<lifeVars, guardVars, exitOnCrash, crashEntry, exited, alerted>>
  BY DEF CrashAwaits
<1>t. Flags /\ Marks
  BY HostTypes DEF HostIInv
<1>3. life' = life /\ life \in {"booting", "running", "destroyed", "draining"}
  BY <1>2, <1>t, HostAssumption DEF HostIInv, Quiet, Marks, lifeVars
<1>4. /\ [Next]_vars /\ drainMark' \in Nat /\ Drained' /\ ShutPromise'
      /\ AlertsMatchStored'
      /\ ticket \in Nat /\ upTo \in Nat /\ Promise(ticket, upTo)'
  BY <1>1, <1>2, <1>3, FlushCalledStep DEF HostIInv, lifeVars
<1>5. HostTypeOK'
  <2>1. Flags'
    BY <1>2, <1>t DEF Flags, lifeVars, guardVars
  <2>2. Marks'
    BY <1>1, <1>2, <1>4, <1>t DEF Marks, lifeVars, guardVars
  <2> QED
    BY <2>1, <2>2, HostTypesLast
<1>6. Quiet'
  BY <1>2 DEF HostIInv, Quiet, lifeVars
<1>7. ASSUME NEW d \in Crashes PROVE CrashPromise(d)'
  <2>1. CASE d = c
    <3>1. crash'[d] = "awaiting" /\ crashTicket'[d] = ticket /\ crashMark'[d] = upTo
      BY <1>1, <1>2, <1>t, <2>1 DEF Marks
    <3>2. Promise(crashTicket[d], crashMark[d])'
      BY <1>4, <3>1 DEF Promise
    <3> QED
      BY <3>1, <3>2 DEF CrashPromise
  <2>2. CASE d # c
    <3>1. UNCHANGED <<crash[d], crashTicket[d], crashMark[d]>>
      BY <1>1, <1>2, <1>t, <2>2 DEF Marks
    <3> QED
      BY <1>4, <3>1, CrashPromiseLasts
  <2> QED
    BY <2>1, <2>2
<1> QED
  BY <1>4, <1>5, <1>6, <1>7 DEF HostIInv, Promises

(* The wait is over: the flush resolved, or the budget ran out.            *)
LEMMA CrashEndsStep ==
  ASSUME Shape, Shape', HostIInv, NEW c \in Crashes, CrashSettles(c) \/ CrashBudgetElapses(c)
  PROVE  HostIInv'
<1>1. PICK how \in {"settled", "expired"} :
         /\ crash[c] = "awaiting" /\ crash' = [crash EXCEPT ![c] = how]
         /\ how = "settled" => crashTicket[c] <= flushes
  BY DEF CrashSettles, CrashBudgetElapses, CrashResumes, Finish
<1>2. /\ exited' = exitOnCrash
      /\ UNCHANGED <<vars, lifeVars, guardVars, exitOnCrash, callback, crashEntry, crashTicket,
                     crashMark, alerted, drainMark>>
  BY DEF CrashSettles, CrashBudgetElapses, Finish
<1>t. Flags /\ Marks
  BY HostTypes DEF HostIInv
<1>3. HostTypeOK'
  <2>1. Flags'
    BY <1>2, <1>t DEF Flags, lifeVars, guardVars
  <2>2. Marks'
    BY <1>1, <1>2, <1>t DEF Marks, lifeVars, guardVars
  <2> QED
    BY <2>1, <2>2, HostTypesLast
<1>4. Quiet'
  BY <1>2 DEF HostIInv, Quiet, lifeVars
<1>5. UNCHANGED <<flushes, flight, recorded, count>> /\ (Flushing' <=> Flushing)
  BY <1>2 DEF vars, ringVars, flightVars, settleVars, Flushing
<1>6. ASSUME NEW d \in Crashes PROVE CrashPromise(d)'
  <2>1. CrashPromise(d)
    BY DEF HostIInv, Promises
  <2>2. CASE d = c
    BY <1>1, <1>2, <1>5, <1>t, <2>1, <2>2 DEF CrashPromise, Promise, Marks
  <2>3. CASE d # c
    <3>1. UNCHANGED <<crash[d], crashTicket[d], crashMark[d]>>
      BY <1>1, <1>2, <1>t, <2>3 DEF Marks
    <3> QED
      BY <1>2, <3>1, CrashPromiseLasts
  <2> QED
    BY <2>2, <2>3
<1>7. Drained' /\ ShutPromise'
  BY <1>2, <1>5, DrainedLasts, ShutPromiseLasts DEF lifeVars
<1>8. AlertsMatchStored'
  BY <1>2, AlertsLast DEF HostIInv, lifeVars
<1> QED
  BY <1>3, <1>4, <1>6, <1>7, <1>8 DEF HostIInv, Promises

LEMMA HostStep == Shape /\ Shape' /\ HostIInv /\ [HostNext]_hostVars => HostIInv'
<1> SUFFICES ASSUME Shape, Shape', HostIInv, [HostNext]_hostVars PROVE HostIInv'
  OBVIOUS
<1>1. CASE HostRecords
  BY <1>1, HostRecordsStep
<1>2. CASE FlushAdvances
  BY <1>2, FlushAdvancesStep
<1>3. CASE TimerFires
  BY <1>3, TimerFiresStep
<1>4. CASE Boot \/ DestroyModule
  BY <1>4, LifeStep
<1>5. CASE ShutdownStep
  BY <1>5, ShutdownStepStep
<1>6. ASSUME NEW lagging \in BOOLEAN, Sample(lagging) PROVE HostIInv'
  BY <1>6, SampleStep
<1>7. ASSUME NEW c \in Crashes, CrashRecorded(c) PROVE HostIInv'
  BY <1>7, CrashRecordedStep
<1>8. ASSUME NEW c \in Crashes, CrashStep(c) PROVE HostIInv'
  BY <1>8, CrashAwaitsStep, CrashEndsStep DEF CrashStep
<1>9. CASE UNCHANGED hostVars
  <2>1. UNCHANGED vars /\ UNCHANGED <<lifeVars, guardVars, crashVars, alerted, drainMark>>
    BY <1>9 DEF hostVars
  <2>2. HostTypeOK'
    <3>1. Flags'
      BY <2>1, HostTypes DEF HostIInv, Flags, lifeVars, guardVars, crashVars
    <3>2. Marks'
      BY <2>1, HostTypes DEF HostIInv, Marks, lifeVars, guardVars, crashVars
    <3> QED
      BY <3>1, <3>2, HostTypesLast
  <2>3. Quiet' /\ Promises' /\ AlertsMatchStored'
    BY <2>1, PromisesLast, AlertsLast DEF HostIInv, Quiet, lifeVars, crashVars
  <2> QED
    BY <2>2, <2>3 DEF HostIInv
<1> QED
  BY <1>1, <1>2, <1>3, <1>4, <1>5, <1>6, <1>7, <1>8, <1>9 DEF HostNext

LEMMA HostInvariant == HostSpec => []HostIInv
<1>1. HostSpec => []Shape
  BY HostRunsRecorder, ShapeInvariant, PTL
<1> QED
  BY <1>1, HostInitInv, HostStep, PTL DEF HostSpec

(* storage.close() never overtakes a store(), a retry, a rollup or a hook, *)
(* whoever started the flush they belong to, and whatever crash or timer   *)
(* came between; the host's state has its type.                            *)
THEOREM CloseIsLast == HostSpec => []CloseAfterStores
<1>1. HostIInv => CloseAfterStores
  BY DEF HostIInv, Promises, ShutPromise, CloseAfterStores
<1> QED
  BY <1>1, HostInvariant, PTL

(* A promise flush() returned, shared or not, resolves only when all that  *)
(* its flush drained is stored or dropped.                                 *)
THEOREM PromisesAreKept == HostSpec => []FlushPromisesKept
<1>1. Shape /\ HostIInv => FlushPromisesKept
  <2> SUFFICES ASSUME Shape, HostIInv PROVE FlushPromisesKept
    OBVIOUS
  <2>1. Marks
    BY HostTypes DEF HostIInv
  <2>2. ASSUME life \in {"closing", "down"} PROVE Gone(shutMark)
    BY <2>1, <2>2, ResolvedIsGone DEF HostIInv, Promises, ShutPromise, Marks
  <2>3. ASSUME NEW c \in Crashes, crash[c] = "settled" PROVE Gone(crashMark[c])
    <3>1. crashTicket[c] \in Nat /\ crashMark[c] \in Nat
      BY <2>1 DEF Marks
    <3> QED
      BY <2>3, <3>1, ResolvedIsGone DEF HostIInv, Promises, CrashPromise
  <2> QED
    BY <2>2, <2>3 DEF FlushPromisesKept
<1>2. HostSpec => []Shape
  BY HostRunsRecorder, ShapeInvariant, PTL
<1> QED
  BY <1>1, <1>2, HostInvariant, PTL

(* While the alerter lives it is given exactly what was stored.            *)
THEOREM AlertsAreMatched == HostSpec => []AlertsMatchStored
<1>1. HostIInv => AlertsMatchStored
  BY DEF HostIInv
<1> QED
  BY <1>1, HostInvariant, PTL

=============================================================================
