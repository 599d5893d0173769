----------------------------- MODULE ArchivePrune -----------------------------
(***************************************************************************)
(* Retention of one archived entry type: the cycle of                      *)
(* core/src/nest/telescope-pruner.service.ts that exports entries to the   *)
(* host's sink, newest first, and then deletes them, oldest first, in      *)
(* bounded batches.  Every pod of the fleet runs such cycles on one shared *)
(* store.  The prune lock is advisory (see PruneFleet), so here the cycles *)
(* of different pods overlap freely; within a pod they do not.             *)
(*                                                                         *)
(* A process keeps the position of an unfinished export in memory          *)
(* (archiveResume) and loses it in a crash.                                *)
(***************************************************************************)
EXTENDS Integers, FiniteSets

CONSTANTS
  Pods,              \* the processes that share the store
  Ids,               \* bound: ids of the entries a behaviour may store
  MaxTime,           \* bound: the last instant of the clock
  After,             \* the type's retention window (prune.after or perType)
  MaxDelay,          \* how long after its createdAt an entry may be stored
  PageSize,          \* archive.batchSize
  PagesPerCycle,     \* archive.maxBatchesPerCycle
  BatchSize,         \* prune.batchSize
  BatchesPerCycle,   \* prune.maxBatchesPerCycle
  MaxCrashes,        \* bound: process restarts
  Tiered,            \* the store is parquet's tieredStorage over the sink
  None               \* no cursor, no resume position

ASSUME ArchiveAssumption ==
  /\ Ids \subseteq Nat
  /\ {MaxTime, After, MaxDelay, MaxCrashes} \subseteq Nat
  /\ {PageSize, PagesPerCycle, BatchSize, BatchesPerCycle} \subseteq Nat \ {0}
  /\ Tiered \in BOOLEAN

Entry == [at : Nat, id : Ids]

ASSUME NoneAssumption == None \notin Entry \cup [before : Int, cursor : Entry]

VARIABLES
  now,       \* the clock, that of the callers (Date.now())
  hot,       \* entries of the type in the store
  cold,      \* entries the sink has accepted
  deleted,   \* history: entries the pruner has deleted
  stage,     \* pod -> the await its cycle is in, or "idle"
  before,    \* pod -> the cutoff its cycle exports and deletes under
  cursor,    \* pod -> the last entry the sink accepted in this export
  page,      \* pod -> the entries handed to the sink
  next,      \* pod -> the page's nextCursor, None on the last page
  rounds,    \* pod -> batchesDone of the export, or batches deleted
  resume,    \* archiveResume: pod -> where its unfinished export stopped
  crashes    \* process restarts so far

cycleVars == <<stage, before, cursor, page, next, rounds>>
vars == <<now, hot, cold, deleted, cycleVars, resume, crashes>>

Stages == {"idle", "read", "sink", "delete"}

(* The keyset order (createdAt, id) of the pages.                          *)
Older(e, f) == e.at < f.at \/ (e.at = f.at /\ e.id < f.id)

(* What storage.get() searches: tieredStorage merges both tiers.           *)
Readable == IF Tiered THEN hot \cup cold ELSE hot

RemainingOfBothTiers(p) ==               \* mutant: the sink's own entries are read back
  {e \in hot \cup cold : e.at < before[p] /\ (cursor[p] # None => Older(e, cursor[p]))}

(* What is left to export under pod p's cutoff, behind its cursor.         *)
Remaining(p) ==
  {e \in Readable : e.at < before[p] /\ (cursor[p] # None => Older(e, cursor[p]))}

Expired(p) == {e \in hot : e.at < before[p]}

Full(P, S, n) == Cardinality(P) = n \/ (P = S /\ Cardinality(S) < n)

Init ==
  /\ now = 0
  /\ hot = {}
  /\ cold = {}
  /\ deleted = {}
  /\ stage = [p \in Pods |-> "idle"]
  /\ before = [p \in Pods |-> 0]
  /\ cursor = [p \in Pods |-> None]
  /\ page = [p \in Pods |-> {}]
  /\ next = [p \in Pods |-> None]
  /\ rounds = [p \in Pods |-> 0]
  /\ resume = [p \in Pods |-> None]
  /\ crashes = 0

-----------------------------------------------------------------------------
(* The environment.                                                        *)

Tick ==
  /\ now < MaxTime
  /\ now' = now + 1
  /\ UNCHANGED <<hot, cold, deleted, cycleVars, resume, crashes>>

(* A recorder's flush stores an entry.  Its createdAt is the startedAt its *)
(* watcher gave, else the moment of record(): MaxDelay ago at the most.    *)
Store(e) ==
  /\ \A f \in hot \cup deleted : f.id # e.id
  /\ e.at <= now
  /\ now <= e.at + MaxDelay
  /\ hot' = hot \cup {e}
  /\ UNCHANGED <<now, cold, deleted, cycleVars, resume, crashes>>

-----------------------------------------------------------------------------
(* One cycle of a pod.                                                     *)

(* The cycle ends: whatever the next one does starts from `resume'.        *)
EndCycle(p) ==
  /\ stage' = [stage EXCEPT ![p] = "idle"]
  /\ page' = [page EXCEPT ![p] = {}]
  /\ cursor' = [cursor EXCEPT ![p] = None]
  /\ next' = [next EXCEPT ![p] = None]
  /\ rounds' = [rounds EXCEPT ![p] = 0]
  /\ UNCHANGED before

(* The export is complete: the delete follows in the same cycle.           *)
Drained(p) ==
  /\ resume' = [resume EXCEPT ![p] = None]
  /\ stage' = [stage EXCEPT ![p] = "delete"]
  /\ page' = [page EXCEPT ![p] = {}]
  /\ cursor' = [cursor EXCEPT ![p] = None]
  /\ next' = [next EXCEPT ![p] = None]
  /\ rounds' = [rounds EXCEPT ![p] = 0]
  /\ UNCHANGED before

(* runCycle reaches the type: its cutoff is fixed, unless an unfinished    *)
(* export brings its own.                                                  *)
StartCycle(p) ==
  /\ stage[p] = "idle"
  /\ stage' = [stage EXCEPT ![p] = "read"]
  /\ before' = [before EXCEPT ![p] = IF resume[p] = None THEN now - After ELSE resume[p].before]
  /\ cursor' = [cursor EXCEPT ![p] = IF resume[p] = None THEN None ELSE resume[p].cursor]
  /\ UNCHANGED <<now, hot, cold, deleted, page, next, rounds, resume, crashes>>

(* storage.get() resolves with a page, which goes to the sink ...          *)
ReadPage(p) ==
  /\ stage[p] = "read"
  /\ \E last \in Remaining(p) :
       LET P == {e \in Remaining(p) : ~Older(e, last)}
       IN  /\ Full(P, Remaining(p), PageSize)
           /\ page' = [page EXCEPT ![p] = P]
           /\ next' = [next EXCEPT ![p] = IF P = Remaining(p) THEN None ELSE last]
  /\ stage' = [stage EXCEPT ![p] = "sink"]
  /\ UNCHANGED <<now, hot, cold, deleted, before, cursor, rounds, resume, crashes>>

(* ... or with none: nothing is left to export.                            *)
ReadEmpty(p) ==
  /\ stage[p] = "read"
  /\ Remaining(p) = {}
  /\ Drained(p)
  /\ UNCHANGED <<now, hot, cold, deleted, crashes>>

(* The sink accepts the page: it was the last one, or the last one this    *)
(* cycle may hand over, or the next page is read.                          *)
LastPageAccepted(p) ==
  /\ next[p] = None
  /\ Drained(p)

CapReachedForgetting(p) ==               \* mutant: the next cycle starts over
  /\ next[p] # None
  /\ rounds[p] + 1 = PagesPerCycle
  /\ resume' = resume
  /\ EndCycle(p)

CapReachedDeleting(p) ==                 \* mutant: a capped export is followed by the delete
  /\ next[p] # None
  /\ rounds[p] + 1 = PagesPerCycle
  /\ Drained(p)

CapReached(p) ==
  /\ next[p] # None
  /\ rounds[p] + 1 = PagesPerCycle
  /\ resume' = [resume EXCEPT ![p] = [before |-> before[p], cursor |-> next[p]]]
  /\ EndCycle(p)

MorePages(p) ==
  /\ next[p] # None
  /\ rounds[p] + 1 < PagesPerCycle
  /\ cursor' = [cursor EXCEPT ![p] = next[p]]
  /\ rounds' = [rounds EXCEPT ![p] = @ + 1]
  /\ stage' = [stage EXCEPT ![p] = "read"]
  /\ page' = [page EXCEPT ![p] = {}]
  /\ UNCHANGED <<before, next, resume>>

SinkAccepts(p) ==
  /\ stage[p] = "sink"
  /\ cold' = cold \cup page[p]
  /\ LastPageAccepted(p) \/ CapReached(p) \/ MorePages(p)
  /\ UNCHANGED <<now, hot, deleted, crashes>>

(* get() or the sink rejects; the sink may have kept part of the page.     *)
(* The position before the failed page is remembered, if there is one.     *)
ExportFails(p) ==
  /\ stage[p] \in {"read", "sink"}
  /\ \E kept \in SUBSET page[p] : cold' = cold \cup kept
  /\ resume' = IF cursor[p] = None THEN resume
               ELSE [resume EXCEPT ![p] = [before |-> before[p], cursor |-> cursor[p]]]
  /\ EndCycle(p)
  /\ UNCHANGED <<now, hot, deleted, crashes>>

(* One bounded delete, and then another one, or the end of the cycle: the  *)
(* scope is drained or the ceiling reached.                                *)
DeleteBatch(p) ==
  /\ stage[p] = "delete"
  /\ \E P \in SUBSET Expired(p) :
       /\ \A e \in P, f \in Expired(p) \ P : Older(e, f)
       /\ Full(P, Expired(p), BatchSize)
       /\ hot' = hot \ P
       /\ deleted' = deleted \cup P
       /\ \/ /\ P # Expired(p) /\ rounds[p] + 1 < BatchesPerCycle
             /\ rounds' = [rounds EXCEPT ![p] = @ + 1]
             /\ UNCHANGED <<stage, before, cursor, page, next>>
          \/ /\ P = Expired(p) \/ rounds[p] + 1 = BatchesPerCycle
             /\ EndCycle(p)
  /\ UNCHANGED <<now, cold, resume, crashes>>

DeleteFails(p) ==
  /\ stage[p] = "delete"
  /\ EndCycle(p)
  /\ UNCHANGED <<now, hot, cold, deleted, resume, crashes>>

(* The process dies, at any await, and a new one takes its place.          *)
Crash(p) ==
  /\ crashes < MaxCrashes
  /\ stage[p] # "idle" \/ resume[p] # None
  /\ crashes' = crashes + 1
  /\ \E kept \in SUBSET page[p] : cold' = cold \cup kept
  /\ resume' = [resume EXCEPT ![p] = None]
  /\ EndCycle(p)
  /\ UNCHANGED <<now, hot, deleted>>

CycleStep(p) ==
  \/ StartCycle(p)
  \/ ReadPage(p)
  \/ ReadEmpty(p)
  \/ SinkAccepts(p)
  \/ ExportFails(p)
  \/ DeleteBatch(p)
  \/ DeleteFails(p)

Next ==
  \/ Tick
  \/ \E e \in [at : 0 .. MaxTime, id : Ids] : Store(e)
  \/ \E p \in Pods : CycleStep(p) \/ Crash(p)

Spec == Init /\ [][Next]_vars

(* The interval keeps ticking on every pod, every await settles, and       *)
(* neither the sink nor the store rejects for ever.                        *)
Fairness ==
  /\ WF_vars(Tick)
  /\ \A p \in Pods : /\ WF_vars(CycleStep(p))
                     /\ SF_vars(ReadPage(p) \/ ReadEmpty(p))
                     /\ SF_vars(SinkAccepts(p))
                     /\ SF_vars(DeleteBatch(p))

FairSpec == Spec /\ Fairness

-----------------------------------------------------------------------------
(* Properties.                                                             *)

Position == [before : Int, cursor : Entry]

TypeOK ==
  /\ now \in Nat
  /\ hot \subseteq Entry
  /\ cold \subseteq Entry
  /\ deleted \subseteq Entry
  /\ stage \in [Pods -> Stages]
  /\ before \in [Pods -> Int]
  /\ cursor \in [Pods -> Entry \cup {None}]
  /\ page \in [Pods -> SUBSET Entry]
  /\ next \in [Pods -> Entry \cup {None}]
  /\ rounds \in [Pods -> Nat]
  /\ resume \in [Pods -> Position \cup {None}]
  /\ crashes \in Nat

(* An archived entry is deleted only after the sink has accepted it,       *)
(* through failures, caps, resumed exports, crashes and overlapping pods   *)
(* (pruneArchivedThenDelete).                                              *)
DeletedArchived == deleted \subseteq cold

(* A remembered position skips nothing: every stored entry the resumed     *)
(* export will not visit, and the delete after it may take, has been       *)
(* accepted by the sink (archiveResume, "never skips one").                *)
ResumeSkipsNothing ==
  \A p \in Pods : resume[p] # None =>
    \A e \in hot :
      e.at < resume[p].before /\ ~Older(e, resume[p].cursor) => e \in cold

(* A backlog larger than a cycle shrinks: an entry past its retention      *)
(* leaves the store (archiveResume, maxBatchesPerCycle).                   *)
BacklogDrains ==
  \A id \in Ids :
    (\E e \in hot : e.id = id /\ e.at < MaxTime - After)
      ~> ~(\E e \in hot : e.id = id)

(* What the pruner has deleted it never reads again to hand it to the      *)
(* sink: an entry is "read once by the archiver and deleted" (storage-     *)
(* evolution design).                                                      *)
ExportedOnce ==
  [][\A p \in Pods : page'[p] # page[p] => page'[p] \cap deleted = {}]_vars
=============================================================================
