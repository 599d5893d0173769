---------------------------- MODULE ArchiveProofs ----------------------------
(***************************************************************************)
(* Why the pruner deletes nothing the sink has not accepted, for every     *)
(* number of pods, every page and batch size and every retention window:   *)
(* provided entries reach the store within the retention window.           *)
(*                                                                         *)
(* The invariant says of each pod what its position means.  `Covered': an  *)
(* entry that is under the cutoff and not behind the cursor is archived.   *)
(* It survives the other pods' steps because they only add to what is      *)
(* archived and only remove from the store, and a store() because a new    *)
(* entry is too young for any cutoff in use.                               *)
(***************************************************************************)
EXTENDS ArchivePrune, TLAPS

Covered(b, c) == \A e \in hot : e.at < b /\ ~Older(e, c) => e \in cold

(* The page in the sink's hands closes the gap up to its nextCursor.       *)
PageCloses(p) ==
  \A e \in hot :
    e.at < before[p] /\ (next[p] = None \/ ~Older(e, next[p])) => e \in cold \cup page[p]

CutoffOK(p) == stage[p] # "idle" => before[p] <= now - After

CursorOK(p) == stage[p] \in {"read", "sink"} /\ cursor[p] # None => Covered(before[p], cursor[p])

PageOK(p) == stage[p] = "sink" => PageCloses(p)

DeleteOK(p) == stage[p] = "delete" => \A e \in hot : e.at < before[p] => e \in cold

ResumeOK(p) == resume[p] # None =>
                 /\ resume[p].before <= now - After
                 /\ Covered(resume[p].before, resume[p].cursor)

PodOK(p) == CutoffOK(p) /\ CursorOK(p) /\ PageOK(p) /\ DeleteOK(p) /\ ResumeOK(p)

(* Entries are stored within their type's retention window.                *)
Prompt == MaxDelay <= After

-----------------------------------------------------------------------------

(* TypeOK is inductive (the state of the pruner and of the store).         *)
THEOREM TypeCorrect == Spec => []TypeOK
<1>1. Init => TypeOK
  BY ArchiveAssumption DEF Init, TypeOK, Stages
<1>2. TypeOK /\ [Next]_vars => TypeOK'
  <2> SUFFICES ASSUME TypeOK, [Next]_vars PROVE TypeOK'
    OBVIOUS
  <2> USE ArchiveAssumption, NoneAssumption
  <2>1. CASE Tick
    BY <2>1 DEF Tick, TypeOK, cycleVars
  <2>2. ASSUME NEW e \in [at : 0 .. MaxTime, id : Ids], Store(e) PROVE TypeOK'
    <3>1. e \in Entry
      BY DEF Entry
    <3> QED
      BY <2>2, <3>1 DEF Store, TypeOK, cycleVars
  <2>3. ASSUME NEW p \in Pods, StartCycle(p) PROVE TypeOK'
    <3>1. resume[p] # None => resume[p].before \in Int /\ resume[p].cursor \in Entry
      BY DEF TypeOK, Position
    <3>2. now - After \in Int
      BY DEF TypeOK
    <3> QED
      BY <2>3, <3>1, <3>2 DEF StartCycle, TypeOK, Stages
  <2>4. ASSUME NEW p \in Pods, ReadPage(p) PROVE TypeOK'
    <3>1. Remaining(p) \subseteq Entry
      BY DEF Remaining, Readable, TypeOK
    <3> QED
      BY <2>4, <3>1 DEF ReadPage, TypeOK, Stages
  <2>5. ASSUME NEW p \in Pods, Drained(p) PROVE
          /\ stage' \in [Pods -> Stages]
          /\ before' \in [Pods -> Int]
          /\ cursor' \in [Pods -> Entry \cup {None}]
          /\ page' \in [Pods -> SUBSET Entry]
          /\ next' \in [Pods -> Entry \cup {None}]
          /\ rounds' \in [Pods -> Nat]
          /\ resume' \in [Pods -> Position \cup {None}]
    BY <2>5 DEF Drained, TypeOK, Stages
  <2>6. ASSUME NEW p \in Pods, EndCycle(p) PROVE
          /\ stage' \in [Pods -> Stages]
          /\ before' \in [Pods -> Int]
          /\ cursor' \in [Pods -> Entry \cup {None}]
          /\ page' \in [Pods -> SUBSET Entry]
          /\ next' \in [Pods -> Entry \cup {None}]
          /\ rounds' \in [Pods -> Nat]
    BY <2>6 DEF EndCycle, TypeOK, Stages
  <2>7. ASSUME NEW p \in Pods, ReadEmpty(p) PROVE TypeOK'
    BY <2>7, <2>5 DEF ReadEmpty, TypeOK
  <2>8. ASSUME NEW p \in Pods, SinkAccepts(p) PROVE TypeOK'
    <3>1. cold' \subseteq Entry
      BY <2>8 DEF SinkAccepts, TypeOK
    <3>2. CASE LastPageAccepted(p)
      BY <2>8, <3>1, <3>2, <2>5 DEF SinkAccepts, LastPageAccepted, TypeOK
    <3>3. CASE CapReached(p)
      <4>1. [before |-> before[p], cursor |-> next[p]] \in Position
        BY <3>3 DEF CapReached, TypeOK, Position
      <4>2. resume' \in [Pods -> Position \cup {None}]
        BY <3>3, <4>1 DEF CapReached, TypeOK
      <4> QED
        BY <2>8, <3>1, <3>3, <4>2, <2>6 DEF SinkAccepts, CapReached, TypeOK
    <3>4. CASE MorePages(p)
      BY <2>8, <3>1, <3>4 DEF SinkAccepts, MorePages, TypeOK, Stages
    <3> QED
      BY <2>8, <3>2, <3>3, <3>4 DEF SinkAccepts
  <2>9. ASSUME NEW p \in Pods, ExportFails(p) PROVE TypeOK'
    <3>1. cold' \subseteq Entry
      BY <2>9 DEF ExportFails, TypeOK
    <3>2. resume' \in [Pods -> Position \cup {None}]
      <4>1. CASE cursor[p] = None
        BY <2>9, <4>1 DEF ExportFails, TypeOK
      <4>2. CASE cursor[p] # None
        <5>1. [before |-> before[p], cursor |-> cursor[p]] \in Position
          BY <4>2 DEF TypeOK, Position
        <5> QED
          BY <2>9, <4>2, <5>1 DEF ExportFails, TypeOK
      <4> QED
        BY <4>1, <4>2
    <3> QED
      BY <2>9, <3>1, <3>2, <2>6 DEF ExportFails, TypeOK
  <2>10. ASSUME NEW p \in Pods, DeleteBatch(p) PROVE TypeOK'
    <3> PICK P \in SUBSET Expired(p) :
          /\ hot' = hot \ P
          /\ deleted' = deleted \cup P
          /\ \/ /\ rounds' = [rounds EXCEPT ![p] = @ + 1]
                /\ UNCHANGED <<stage, before, cursor, page, next>>
             \/ EndCycle(p)
      BY <2>10 DEF DeleteBatch
    <3>1. hot' \subseteq Entry /\ deleted' \subseteq Entry
      BY DEF Expired, TypeOK
    <3>2. CASE EndCycle(p)
      BY <2>10, <3>1, <3>2, <2>6 DEF DeleteBatch, TypeOK
    <3>3. CASE /\ rounds' = [rounds EXCEPT ![p] = @ + 1]
               /\ UNCHANGED <<stage, before, cursor, page, next>>
      BY <2>10, <3>1, <3>3 DEF DeleteBatch, TypeOK
    <3> QED
      BY <3>2, <3>3
  <2>11. ASSUME NEW p \in Pods, DeleteFails(p) PROVE TypeOK'
    BY <2>11, <2>6 DEF DeleteFails, TypeOK
  <2>12. ASSUME NEW p \in Pods, Crash(p) PROVE TypeOK'
    BY <2>12, <2>6 DEF Crash, TypeOK
  <2>13. CASE UNCHANGED vars
    BY <2>13 DEF vars, cycleVars, TypeOK
  <2> QED
    BY <2>1, <2>2, <2>3, <2>4, <2>7, <2>8, <2>9, <2>10, <2>11, <2>12, <2>13
    DEF Next, CycleStep
<1> QED
  BY <1>1, <1>2, PTL DEF Spec

-----------------------------------------------------------------------------

SamePod(q) ==
  /\ stage'[q] = stage[q]
  /\ before'[q] = before[q]
  /\ cursor'[q] = cursor[q]
  /\ page'[q] = page[q]
  /\ next'[q] = next[q]
  /\ resume'[q] = resume[q]

(* The store loses entries, or gains ones no cutoff in use reaches; what   *)
(* is archived only grows.                                                 *)
Benign ==
  /\ cold \subseteq cold'
  /\ now <= now'
  /\ \A e \in hot' : e \in hot \/ e.at >= now - After

(* Other pods' steps, the clock and store() leave a pod's position sound.  *)
LEMMA Frame ==
  ASSUME TypeOK, TypeOK', NEW q \in Pods, PodOK(q), SamePod(q), Benign
  PROVE  PodOK(q)'
<1>0. now \in Int /\ now' \in Int /\ After \in Int /\ before[q] \in Int
  BY ArchiveAssumption DEF TypeOK
<1>1. \A e \in hot' : e.at \in Int
  BY DEF TypeOK, Entry
<1>2. resume[q] # None => resume[q].before \in Int
  BY DEF TypeOK, Position
<1>3. CutoffOK(q)'
  BY <1>0 DEF PodOK, CutoffOK, SamePod, Benign
<1>4. CursorOK(q)'
  BY <1>0, <1>1 DEF PodOK, CutoffOK, CursorOK, Covered, SamePod, Benign
<1>5. PageOK(q)'
  BY <1>0, <1>1 DEF PodOK, CutoffOK, PageOK, PageCloses, SamePod, Benign
<1>6. DeleteOK(q)'
  BY <1>0, <1>1 DEF PodOK, CutoffOK, DeleteOK, SamePod, Benign
<1>7. ResumeOK(q)'
  BY <1>0, <1>1, <1>2 DEF PodOK, ResumeOK, Covered, SamePod, Benign
<1> QED
  BY <1>3, <1>4, <1>5, <1>6, <1>7 DEF PodOK

(* A step of pod p leaves the positions of the others alone.               *)
LEMMA Others ==
  ASSUME TypeOK, NEW p \in Pods, NEW q \in Pods, q # p, CycleStep(p) \/ Crash(p)
  PROVE  SamePod(q)
<1> USE DEF TypeOK, SamePod
<1>1. ASSUME EndCycle(p) PROVE UNCHANGED before /\ stage'[q] = stage[q] /\ page'[q] = page[q]
                               /\ cursor'[q] = cursor[q] /\ next'[q] = next[q]
  BY <1>1 DEF EndCycle
<1>2. ASSUME Drained(p) PROVE SamePod(q)
  BY <1>2 DEF Drained
<1>3. CASE StartCycle(p)
  BY <1>3 DEF StartCycle
<1>4. CASE ReadPage(p)
  BY <1>4 DEF ReadPage
<1>5. CASE ReadEmpty(p)
  BY <1>5, <1>2 DEF ReadEmpty
<1>6. CASE SinkAccepts(p)
  <2>1. CASE LastPageAccepted(p)
    BY <2>1, <1>2 DEF LastPageAccepted
  <2>2. CASE CapReached(p)
    BY <2>2, <1>1 DEF CapReached
  <2>3. CASE MorePages(p)
    BY <2>3 DEF MorePages
  <2> QED
    BY <1>6, <2>1, <2>2, <2>3 DEF SinkAccepts
<1>7. CASE ExportFails(p)
  BY <1>7, <1>1 DEF ExportFails
<1>8. CASE DeleteBatch(p)
  BY <1>8, <1>1 DEF DeleteBatch
<1>9. CASE DeleteFails(p)
  BY <1>9, <1>1 DEF DeleteFails
<1>10. CASE Crash(p)
  BY <1>10, <1>1 DEF Crash
<1> QED
  BY <1>3, <1>4, <1>5, <1>6, <1>7, <1>8, <1>9, <1>10 DEF CycleStep

(* A cycle that has ended makes no claim but that of its resume position.  *)
LEMMA Ended ==
  ASSUME TypeOK, NEW p \in Pods, EndCycle(p), ResumeOK(p)'
  PROVE  PodOK(p)'
<1>1. stage'[p] = "idle"
  BY DEF EndCycle, TypeOK
<1> QED
  BY <1>1 DEF PodOK, CutoffOK, CursorOK, PageOK, DeleteOK

(* A complete export licenses the delete that follows it.                  *)
LEMMA DrainedOK ==
  ASSUME TypeOK, NEW p \in Pods, Drained(p), before[p] <= now - After, now' = now,
         \A e \in hot' : e.at < before[p] => e \in cold'
  PROVE  PodOK(p)'
<1>1. stage'[p] = "delete" /\ before'[p] = before[p] /\ resume'[p] = None
  BY DEF Drained, TypeOK
<1> QED
  BY <1>1 DEF PodOK, CutoffOK, CursorOK, PageOK, DeleteOK, ResumeOK

-----------------------------------------------------------------------------

(* Every step of pod p keeps p's own position sound.                       *)
LEMMA OwnStep ==
  ASSUME TypeOK, TypeOK', NEW p \in Pods, PodOK(p), CycleStep(p) \/ Crash(p)
  PROVE  PodOK(p)'
<1>0. now \in Int /\ After \in Int /\ before[p] \in Int
  BY ArchiveAssumption DEF TypeOK
<1>1. CASE StartCycle(p)
  <2>1. /\ stage'[p] = "read" /\ resume' = resume /\ now' = now /\ hot' = hot /\ cold' = cold
        /\ before'[p] = IF resume[p] = None THEN now - After ELSE resume[p].before
        /\ cursor'[p] = IF resume[p] = None THEN None ELSE resume[p].cursor
    BY <1>1 DEF StartCycle, TypeOK
  <2>2. CASE resume[p] = None
    BY <2>1, <2>2, <1>0 DEF PodOK, CutoffOK, CursorOK, PageOK, DeleteOK, ResumeOK
  <2>3. CASE resume[p] # None
    <3>1. before'[p] = resume[p].before /\ cursor'[p] = resume[p].cursor
      BY <2>1, <2>3
    <3>2. resume[p].before <= now - After /\ Covered(resume[p].before, resume[p].cursor)
      BY <2>3 DEF PodOK, ResumeOK
    <3>3. CutoffOK(p)' /\ PageOK(p)' /\ DeleteOK(p)'
      BY <2>1, <3>1, <3>2 DEF CutoffOK, PageOK, DeleteOK
    <3>4. CursorOK(p)' /\ ResumeOK(p)'
      BY <2>1, <3>1, <3>2 DEF CursorOK, ResumeOK, Covered
    <3> QED
      BY <3>3, <3>4 DEF PodOK
  <2> QED
    BY <2>2, <2>3
<1>2. CASE ReadPage(p)
  <2> PICK last \in Remaining(p) :
        LET P == {e \in Remaining(p) : ~Older(e, last)}
        IN  /\ page' = [page EXCEPT ![p] = P]
            /\ next' = [next EXCEPT ![p] = IF P = Remaining(p) THEN None ELSE last]
    BY <1>2 DEF ReadPage
  <2> DEFINE P == {e \in Remaining(p) : ~Older(e, last)}
  <2>1. /\ page'[p] = P
        /\ next'[p] = IF P = Remaining(p) THEN None ELSE last
    BY DEF TypeOK
  <2>2. /\ stage[p] = "read" /\ stage'[p] = "sink" /\ UNCHANGED <<now, hot, cold, before, cursor>>
        /\ resume' = resume
    BY <1>2 DEF ReadPage, TypeOK
  <2>3. \A e \in hot : e.at < before[p] => e \in Remaining(p) \/ e \in cold
    BY <2>2 DEF PodOK, CursorOK, Covered, Remaining, Readable
  <2>4. PageCloses(p)'
    <3> SUFFICES ASSUME NEW e \in hot, e.at < before[p],
                        next'[p] = None \/ ~Older(e, next'[p]), e \notin cold
                 PROVE  e \in P
      BY <2>1, <2>2 DEF PageCloses
    <3>1. e \in Remaining(p)
      BY <2>3
    <3>2. CASE P = Remaining(p)
      BY <3>1, <3>2
    <3>3. CASE P # Remaining(p)
      <4>1. next'[p] = last /\ last # None
        BY <2>1, <3>3, NoneAssumption DEF Remaining, Readable, TypeOK
      <4> QED
        BY <3>1, <4>1
    <3> QED
      BY <3>2, <3>3
  <2>5. CutoffOK(p)' /\ PageOK(p)' /\ DeleteOK(p)'
    BY <2>2, <2>4 DEF PodOK, CutoffOK, PageOK, DeleteOK
  <2>6. CursorOK(p)' /\ ResumeOK(p)'
    BY <2>2 DEF PodOK, CursorOK, ResumeOK, Covered
  <2> QED
    BY <2>5, <2>6 DEF PodOK
<1>3. CASE ReadEmpty(p)
  <2>1. \A e \in hot : e.at < before[p] => e \in cold
    BY <1>3 DEF ReadEmpty, Remaining, Readable, PodOK, CursorOK, Covered
  <2> QED
    BY <1>3, <2>1, DrainedOK DEF ReadEmpty, PodOK, CutoffOK
<1>4. CASE SinkAccepts(p)
  <2>1. /\ stage[p] = "sink" /\ cold' = cold \cup page[p] /\ hot' = hot /\ now' = now
        /\ PageCloses(p) /\ before[p] <= now - After
    BY <1>4 DEF SinkAccepts, PodOK, PageOK, CutoffOK
  <2>2. CASE LastPageAccepted(p)
    <3>1. \A e \in hot' : e.at < before[p] => e \in cold'
      BY <2>1, <2>2 DEF LastPageAccepted, PageCloses
    <3> QED
      BY <2>1, <2>2, <3>1, DrainedOK DEF LastPageAccepted
  <2>3. ASSUME next[p] # None
        PROVE  \A e \in hot' : e.at < before[p] /\ ~Older(e, next[p]) => e \in cold'
    BY <2>1, <2>3 DEF PageCloses
  <2>4. CASE CapReached(p)
    <3>1. resume'[p] = [before |-> before[p], cursor |-> next[p]]
      BY <2>4 DEF CapReached, TypeOK
    <3>2. resume'[p].before = before[p] /\ resume'[p].cursor = next[p]
      BY <3>1
    <3>3. ResumeOK(p)'
      BY <2>1, <2>3, <2>4, <3>2 DEF ResumeOK, Covered, CapReached
    <3> QED
      BY <2>4, <3>3, Ended DEF CapReached
  <2>5. CASE MorePages(p)
    <3>1. /\ stage'[p] = "read" /\ cursor'[p] = next[p] /\ before' = before /\ resume' = resume
          /\ next[p] # None
      BY <2>5 DEF MorePages, TypeOK
    <3>2. CutoffOK(p)' /\ PageOK(p)' /\ DeleteOK(p)'
      BY <2>1, <3>1 DEF CutoffOK, PageOK, DeleteOK
    <3>3. CursorOK(p)'
      BY <2>1, <2>3, <3>1 DEF CursorOK, Covered
    <3>4. ResumeOK(p)'
      BY <2>1, <3>1 DEF PodOK, ResumeOK, Covered
    <3> QED
      BY <3>2, <3>3, <3>4 DEF PodOK
  <2> QED
    BY <1>4, <2>2, <2>4, <2>5 DEF SinkAccepts
<1>5. CASE ExportFails(p)
  <2>1. /\ stage[p] \in {"read", "sink"} /\ hot' = hot /\ now' = now /\ cold \subseteq cold'
        /\ EndCycle(p)
    BY <1>5 DEF ExportFails
  <2>2. CASE cursor[p] = None
    <3>1. resume' = resume
      BY <1>5, <2>2 DEF ExportFails
    <3> QED
      BY <2>1, <3>1, Ended DEF PodOK, ResumeOK, Covered
  <2>3. CASE cursor[p] # None
    <3>1. resume'[p] = [before |-> before[p], cursor |-> cursor[p]]
      BY <1>5, <2>3 DEF ExportFails, TypeOK
    <3>2. resume'[p].before = before[p] /\ resume'[p].cursor = cursor[p]
      BY <3>1
    <3>3. before[p] <= now - After /\ Covered(before[p], cursor[p])
      BY <2>1, <2>3 DEF PodOK, CutoffOK, CursorOK
    <3>4. ResumeOK(p)'
      BY <2>1, <3>2, <3>3 DEF ResumeOK, Covered
    <3> QED
      BY <2>1, <3>4, Ended
  <2> QED
    BY <2>2, <2>3
<1>6. CASE DeleteBatch(p)
  <2>1. /\ stage[p] = "delete" /\ hot' \subseteq hot /\ cold' = cold /\ now' = now
        /\ resume' = resume
    BY <1>6 DEF DeleteBatch
  <2>2. ResumeOK(p)'
    BY <2>1 DEF PodOK, ResumeOK, Covered
  <2>3. CASE EndCycle(p)
    BY <2>2, <2>3, Ended
  <2>4. CASE UNCHANGED <<stage, before, cursor, page, next>>
    BY <2>1, <2>2, <2>4 DEF PodOK, CutoffOK, CursorOK, PageOK, DeleteOK
  <2> QED
    BY <1>6, <2>3, <2>4 DEF DeleteBatch
<1>7. CASE DeleteFails(p)
  BY <1>7, Ended DEF DeleteFails, PodOK, ResumeOK, Covered
<1>8. CASE Crash(p)
  <2>1. resume'[p] = None
    BY <1>8 DEF Crash, TypeOK
  <2> QED
    BY <1>8, <2>1, Ended DEF Crash, ResumeOK
<1> QED
  BY <1>1, <1>2, <1>3, <1>4, <1>5, <1>6, <1>7, <1>8 DEF CycleStep

(* What a pod's step does to the store and to what is archived.            *)
LEMMA StepBenign ==
  ASSUME TypeOK, NEW p \in Pods, CycleStep(p) \/ Crash(p)
  PROVE  Benign
<1>1. now \in Int
  BY DEF TypeOK
<1>2. now' = now
  BY DEF CycleStep, StartCycle, ReadPage, ReadEmpty, SinkAccepts, ExportFails, DeleteBatch,
         DeleteFails, Crash
<1>3. hot' \subseteq hot
  BY DEF CycleStep, StartCycle, ReadPage, ReadEmpty, SinkAccepts, ExportFails, DeleteBatch,
         DeleteFails, Crash
<1>4. cold \subseteq cold'
  BY DEF CycleStep, StartCycle, ReadPage, ReadEmpty, SinkAccepts, ExportFails, DeleteBatch,
         DeleteFails, Crash
<1> QED
  BY <1>1, <1>2, <1>3, <1>4 DEF Benign

(* Only a licensed delete adds to what is deleted.                         *)
LEMMA StepDeletes ==
  ASSUME TypeOK, NEW p \in Pods, PodOK(p), DeletedArchived, CycleStep(p) \/ Crash(p)
  PROVE  DeletedArchived'
<1>1. CASE DeleteBatch(p)
  <2> PICK P \in SUBSET Expired(p) : deleted' = deleted \cup P
    BY <1>1 DEF DeleteBatch
  <2>1. stage[p] = "delete" /\ cold' = cold
    BY <1>1 DEF DeleteBatch
  <2> QED
    BY <2>1 DEF PodOK, DeleteOK, Expired, DeletedArchived
<1>2. CASE ~DeleteBatch(p)
  <2>1. deleted' = deleted
    BY <1>2 DEF CycleStep, StartCycle, ReadPage, ReadEmpty, SinkAccepts, ExportFails,
                DeleteFails, Crash
  <2> QED
    BY <2>1, StepBenign DEF Benign, DeletedArchived
<1> QED
  BY <1>1, <1>2

(* The invariant holds if entries reach the store promptly: an entry is    *)
(* deleted only once the sink has accepted it, and a remembered position   *)
(* skips none (pruneArchivedThenDelete, archiveResume).                    *)
THEOREM ArchiveInvariant ==
  ASSUME Prompt
  PROVE  Spec => [](DeletedArchived /\ \A p \in Pods : PodOK(p))
<1> DEFINE I == DeletedArchived /\ \A p \in Pods : PodOK(p)
<1>1. Init => I
  BY DEF Init, DeletedArchived, PodOK, CutoffOK, CursorOK, PageOK, DeleteOK, ResumeOK
<1>2. TypeOK /\ TypeOK' /\ I /\ [Next]_vars => I'
  <2> SUFFICES ASSUME TypeOK, TypeOK', I, [Next]_vars PROVE I'
    OBVIOUS
  <2>1. ASSUME NEW p \in Pods, CycleStep(p) \/ Crash(p) PROVE I'
    <3>1. ASSUME NEW q \in Pods PROVE PodOK(q)'
      <4>1. CASE q = p
        BY <2>1, <4>1, OwnStep
      <4>2. CASE q # p
        <5>1. SamePod(q)
          BY <2>1, <4>2, Others
        <5>2. Benign
          BY <2>1, StepBenign
        <5> QED
          BY <5>1, <5>2, Frame
      <4> QED
        BY <4>1, <4>2
    <3> QED
      BY <2>1, <3>1, StepDeletes
  <2>2. CASE Tick
    <3>1. Benign /\ \A q \in Pods : SamePod(q)
      BY <2>2 DEF Tick, Benign, SamePod, cycleVars, TypeOK
    <3>2. \A q \in Pods : PodOK(q)'
      BY <3>1, Frame
    <3> QED
      BY <2>2, <3>2 DEF Tick, DeletedArchived
  <2>3. ASSUME NEW e \in [at : 0 .. MaxTime, id : Ids], Store(e) PROVE I'
    <3>1. now \in Int /\ e.at \in Int /\ MaxDelay \in Int /\ After \in Int
      BY ArchiveAssumption DEF TypeOK
    <3>2. e.at >= now - After
      BY <2>3, <3>1 DEF Store, Prompt
    <3>3. Benign /\ \A q \in Pods : SamePod(q)
      BY <2>3, <3>1, <3>2 DEF Store, Benign, SamePod, cycleVars
    <3>4. \A q \in Pods : PodOK(q)'
      BY <3>3, Frame
    <3> QED
      BY <2>3, <3>4 DEF Store, DeletedArchived
  <2>4. CASE UNCHANGED vars
    BY <2>4 DEF vars, cycleVars, DeletedArchived, PodOK, CutoffOK, CursorOK, PageOK, PageCloses,
                DeleteOK, ResumeOK, Covered
  <2> QED
    BY <2>1, <2>2, <2>3, <2>4 DEF Next
<1> QED
  BY <1>1, <1>2, TypeCorrect, PTL DEF Spec

(* Nothing the sink has not accepted is deleted (pruneArchivedThenDelete). *)
THEOREM ArchiveBeforeDelete ==
  ASSUME Prompt
  PROVE  Spec => []DeletedArchived
BY ArchiveInvariant, PTL

(* A remembered position skips nothing (archiveResume).                    *)
THEOREM ResumeInvariant ==
  ASSUME Prompt
  PROVE  Spec => []ResumeSkipsNothing
<1>1. (\A p \in Pods : PodOK(p)) => ResumeSkipsNothing
  BY DEF PodOK, ResumeOK, Covered, ResumeSkipsNothing
<1> QED
  BY <1>1, ArchiveInvariant, PTL

-----------------------------------------------------------------------------
(* What the export reads back.                                             *)

(* An entry is in the store or deleted, never both: a store() of an id is  *)
(* the only one, and a delete moves what it takes.                         *)
Gone == \A e \in hot, f \in deleted : e.id # f.id

(* Over a store that reads only what it holds, no pod hands to its sink    *)
(* what any pod has deleted, whatever cursors, resumed positions and       *)
(* cutoffs the pods are at (pruneArchivedThenDelete).  tieredStorage(),    *)
(* which reads the archive too, is the case the premise leaves out.        *)
THEOREM ExportedOnceOverOneTier ==
  ASSUME ~Tiered
  PROVE  Spec => ExportedOnce
<1> DEFINE J == Gone /\ \A e, f \in hot : e.id = f.id => e = f
<1>1. Init => J
  BY DEF Init, Gone
<1>2. TypeOK /\ J /\ [Next]_vars => J'
  <2> SUFFICES ASSUME TypeOK, J, [Next]_vars PROVE J'
    OBVIOUS
  <2>1. CASE hot' = hot /\ deleted' = deleted
    BY <2>1 DEF Gone
  <2>2. ASSUME NEW e \in [at : 0 .. MaxTime, id : Ids], Store(e) PROVE J'
    BY <2>2 DEF Store, Gone
  <2>3. ASSUME NEW p \in Pods, DeleteBatch(p) PROVE J'
    <3>1. PICK P \in SUBSET Expired(p) : hot' = hot \ P /\ deleted' = deleted \cup P
      BY <2>3 DEF DeleteBatch
    <3>2. P \subseteq hot
      BY DEF Expired
    <3> QED
      BY <3>1, <3>2 DEF Gone
  <2>4. ASSUME NEW p \in Pods, CycleStep(p) \/ Crash(p), ~DeleteBatch(p)
        PROVE  hot' = hot /\ deleted' = deleted
    BY <2>4 DEF CycleStep, StartCycle, ReadPage, ReadEmpty, SinkAccepts, ExportFails,
                DeleteFails, Crash
  <2> QED
    BY <2>1, <2>2, <2>3, <2>4 DEF Next, Tick, vars
<1>3. TypeOK /\ J /\ [Next]_vars
        => [\A p \in Pods : page'[p] # page[p] => page'[p] \cap deleted = {}]_vars
  <2> SUFFICES ASSUME TypeOK, J, [Next]_vars, NEW p \in Pods, page'[p] # page[p]
               PROVE  page'[p] \cap deleted = {}
    OBVIOUS
  <2>1. CASE page'[p] \subseteq hot
    BY <2>1 DEF Gone
  <2>2. CASE ~(page'[p] \subseteq hot)
    <3>1. ASSUME NEW q \in Pods, EndCycle(q) \/ Drained(q) \/ MorePages(q) PROVE FALSE
      BY <2>2, <3>1 DEF EndCycle, Drained, MorePages, TypeOK
    <3>2. ASSUME NEW q \in Pods, ReadPage(q) PROVE FALSE
      <4>1. Remaining(q) \subseteq hot
        BY DEF Remaining, Readable
      <4>2. page' = [page EXCEPT ![q] = page'[q]] /\ page'[q] \subseteq Remaining(q)
        BY <3>2 DEF ReadPage, TypeOK
      <4> QED
        BY <2>2, <4>1, <4>2 DEF TypeOK
    <3>3. ASSUME page' = page PROVE FALSE
      BY <3>3
    <3>4. ASSUME NEW q \in Pods, CycleStep(q) \/ Crash(q)
          PROVE  \/ EndCycle(q) \/ Drained(q) \/ MorePages(q) \/ ReadPage(q)
                 \/ page' = page
      BY <3>4 DEF CycleStep, StartCycle, ReadEmpty, SinkAccepts, LastPageAccepted, CapReached,
                  ExportFails, DeleteBatch, DeleteFails, Crash
    <3> QED
      BY <3>1, <3>2, <3>3, <3>4 DEF Next, Tick, Store, vars, cycleVars
  <2> QED
    BY <2>1, <2>2
<1> QED
  BY <1>1, <1>2, <1>3, TypeCorrect, PTL DEF Spec, ExportedOnce
=============================================================================
