------------------------------ MODULE RedisStore ------------------------------
(***************************************************************************)
(* The shared Redis store under retention: store(), pruneScopedBatch() and *)
(* the tag counts of redis/src/redis-storage-provider.ts, with the calls   *)
(* the recorder and the pruner make of them.                               *)
(*                                                                         *)
(* An entry is its position in time: 1 is the oldest.  Its blobs and its   *)
(* members of the primary, type, family, batch and tag indexes are written *)
(* in one MULTI and removed in one, so `stored' stands for all of them;    *)
(* the tag-count hash is kept by commands of its own.  A prune call reads  *)
(* a page of an index, reads the page's entries, removes them and corrects *)
(* the counts: four round trips, anything may happen between two.          *)
(*                                                                         *)
(* The pruner calls the bulk scope, which spares the types with a window   *)
(* of their own, and the scope of those types.  Unreadable blobs, keepLast *)
(* and update(), which nothing calls at run time, are not modelled.        *)
(***************************************************************************)
EXTENDS Integers, FiniteSets, FiniteSetsExt

CONSTANTS
  Pods,          \* the processes that prune
  Entries,       \* the entries of a behaviour: their order is their age
  Kept,          \* the entries of the types with a window of their own
  Tags,          \* the tags
  TagsOf,        \* entry -> its tags
  Limit,         \* prune.batchSize
  ScanMultiple,  \* SCAN_BUDGET_MULTIPLE
  KeptLonger,    \* how much longer the window of the kept types is
  MaxFailures    \* bound: calls that fail

ASSUME StoreAssumption ==
  /\ Entries \subseteq Nat \ {0} /\ IsFiniteSet(Entries)
  /\ Kept \subseteq Entries
  /\ TagsOf \in [Entries -> SUBSET Tags]
  /\ Limit \in Nat \ {0}
  /\ ScanMultiple \in Nat \ {0}
  /\ KeptLonger \in Nat
  /\ MaxFailures \in Nat

VARIABLES
  cutoff,    \* entries up to this age are past prune.after
  unsaved,   \* entries no store() call has held
  stored,    \* entries in the store
  counts,    \* the hash `tags': tag -> count, 0 for an absent field
  stage,     \* pod -> where its pruneScopedBatch() call is
  scope,     \* pod -> the scope of that call
  before,    \* pod -> its cutoff
  page,      \* pod -> index members it read
  seen,      \* pod -> those whose entry it read
  owed,      \* pod -> tag -> the decrement it has yet to send
  deleted, skipped, scanned,   \* pod -> the call's counters
  due,       \* history: pod -> what was in scope when the call began
  failures   \* calls that failed so far

callVars  == <<stage, scope, before, page, seen, owed, deleted, skipped, scanned, due>>
storeVars == <<unsaved, stored, counts>>
vars      == <<cutoff, storeVars, callVars, failures>>

Scopes == {"bulk", "own"}
Stages == {"idle", "scan", "read", "remove", "count", "more", "drained"}

Count(es, t) == Cardinality({e \in es : t \in TagsOf[e]})
NoTags       == [t \in Tags |-> 0]

Init ==
  /\ cutoff = 0
  /\ unsaved = Entries
  /\ stored = {}
  /\ counts = NoTags
  /\ stage = [p \in Pods |-> "idle"]
  /\ scope = [p \in Pods |-> "bulk"]
  /\ before = [p \in Pods |-> 0]
  /\ page = [p \in Pods |-> {}]
  /\ seen = [p \in Pods |-> {}]
  /\ owed = [p \in Pods |-> NoTags]
  /\ deleted = [p \in Pods |-> 0]
  /\ skipped = [p \in Pods |-> 0]
  /\ scanned = [p \in Pods |-> 0]
  /\ due = [p \in Pods |-> {}]
  /\ failures = 0

-----------------------------------------------------------------------------

Age ==
  /\ \E e \in Entries : e > cutoff
  /\ cutoff' = cutoff + 1
  /\ UNCHANGED <<storeVars, callVars, failures>>

(* store() of a batch of one.  Its MULTI may be executed although the call *)
(* fails, and the recorder sends it once more: SET and ZADD repeat         *)
(* themselves, HINCRBY counts twice.                                       *)
Store(e, times) ==
  /\ e \in unsaved
  /\ failures + times - 1 <= MaxFailures
  /\ failures' = failures + times - 1
  /\ unsaved' = unsaved \ {e}
  /\ stored' = stored \cup {e}
  /\ counts' = [t \in Tags |-> IF t \in TagsOf[e] THEN counts[t] + times ELSE counts[t]]
  /\ UNCHANGED <<cutoff, callVars>>

-----------------------------------------------------------------------------
(* pruneScopedBatch().                                                     *)

(* The members of a scope's source index inside its window: the type's own *)
(* index, or the primary one, which holds the spared types too.            *)
Candidates(s, b) == {e \in stored : e <= b /\ (s = "own" => e \in Kept)}

SparedAnywhere(s, e) == e \in Kept       \* mutant: a type's own scope spares it too

Spared(s, e) == s = "bulk" /\ e \in Kept

(* The n oldest of es after the first `offset' (ZREVRANGEBYLEX ... LIMIT). *)
Page(es, offset, n) ==
  {e \in es : Cardinality({d \in es : d < e}) \in offset .. offset + n - 1}

Begin(p, s) ==
  /\ stage[p] = "idle"
  /\ LET b == IF s = "own" THEN cutoff - KeptLonger ELSE cutoff
     IN  /\ before' = [before EXCEPT ![p] = b]
         /\ due' = [due EXCEPT ![p] = {e \in Candidates(s, b) : ~Spared(s, e)}]
  /\ stage' = [stage EXCEPT ![p] = "scan"]
  /\ scope' = [scope EXCEPT ![p] = s]
  /\ deleted' = [deleted EXCEPT ![p] = 0]
  /\ skipped' = [skipped EXCEPT ![p] = 0]
  /\ scanned' = [scanned EXCEPT ![p] = 0]
  /\ UNCHANGED <<cutoff, storeVars, page, seen, owed, failures>>

Want(p) == Limit - deleted[p]

(* The loop's head: a page of index members, or an end.                    *)
ReadPage(p) ==
  /\ stage[p] = "scan"
  /\ LET found == Page(Candidates(scope[p], before[p]), skipped[p], Want(p))
     IN  IF deleted[p] < Limit /\ scanned[p] < Limit * ScanMultiple
           THEN /\ page' = [page EXCEPT ![p] = found]
                /\ scanned' = [scanned EXCEPT ![p] = @ + Cardinality(found)]
                /\ stage' = [stage EXCEPT ![p] = IF found = {} THEN "drained" ELSE "read"]
           ELSE /\ stage' = [stage EXCEPT ![p] = "more"]
                /\ UNCHANGED <<page, scanned>>
  /\ UNCHANGED <<cutoff, storeVars, scope, before, seen, owed, deleted, skipped, due, failures>>

(* readEntries(): an entry somebody removed since reads as null.           *)
ReadEntries(p) ==
  /\ stage[p] = "read"
  /\ seen' = [seen EXCEPT ![p] = page[p] \cap stored]
  /\ stage' = [stage EXCEPT ![p] = "remove"]
  /\ UNCHANGED <<cutoff, storeVars, scope, before, page, owed, deleted, skipped, scanned, due,
                 failures>>

(* What the call removes, null entries included, and what it takes off the *)
(* tag counts for it.                                                      *)
Doomed(p) == {e \in page[p] : e \in seen[p] => ~Spared(scope[p], e)}

DecrementsOfPage(p) ==                   \* mutant: the spared entries' tags as well
  [t \in Tags |-> Count(seen[p], t)]

Decrements(p) == [t \in Tags |-> Count(seen[p] \cap Doomed(p), t)]

SkipWholePage(p) == Cardinality(page[p]) \* mutant: the offset passes the removed as well

Skip(p) == Cardinality(page[p] \ Doomed(p))

(* removeMembers() has returned: the counters follow, and a page shorter   *)
(* than asked for is the index's end.                                      *)
PageDone(p) ==
  /\ deleted' = [deleted EXCEPT ![p] = @ + Cardinality(Doomed(p))]
  /\ skipped' = [skipped EXCEPT ![p] = @ + Skip(p)]
  /\ stage' = [stage EXCEPT
       ![p] = IF Cardinality(page[p]) < Want(p) THEN "drained" ELSE "scan"]

(* The MULTI is executed.                                                  *)
Remove(p) ==
  /\ stage[p] = "remove"
  /\ stored' = stored \ Doomed(p)
  /\ owed' = [owed EXCEPT ![p] = Decrements(p)]
  /\ IF Decrements(p) = NoTags
       THEN PageDone(p)
       ELSE /\ stage' = [stage EXCEPT ![p] = "count"]
            /\ UNCHANGED <<deleted, skipped>>
  /\ UNCHANGED <<cutoff, unsaved, counts, scope, before, page, seen, scanned, due, failures>>

(* DECREMENT_TAGS_LUA: a field that reaches zero is deleted.               *)
Decremented(p) ==
  [t \in Tags |-> IF counts[t] > owed[p][t] THEN counts[t] - owed[p][t] ELSE 0]

CountTags(p) ==
  /\ stage[p] = "count"
  /\ counts' = Decremented(p)
  /\ owed' = [owed EXCEPT ![p] = NoTags]
  /\ PageDone(p)
  /\ UNCHANGED <<cutoff, unsaved, stored, scope, before, page, seen, scanned, due, failures>>

(* The call returns, with hasMore or without.                              *)
Return(p) ==
  /\ stage[p] \in {"more", "drained"}
  /\ stage' = [stage EXCEPT ![p] = "idle"]
  /\ UNCHANGED <<cutoff, storeVars, scope, before, page, seen, owed, deleted, skipped, scanned,
                 due, failures>>

(* A command fails, executed or not, or the process dies: the call is over *)
(* and pruneArchivedThenDelete logs it.                                    *)
Fail(p) ==
  /\ stage[p] \in {"scan", "read", "remove", "count"}
  /\ failures < MaxFailures
  /\ failures' = failures + 1
  /\ \/ stored' = stored /\ counts' = counts
     \/ stage[p] = "remove" /\ stored' = stored \ Doomed(p) /\ counts' = counts
     \/ stage[p] = "count" /\ stored' = stored /\ counts' = Decremented(p)
  /\ stage' = [stage EXCEPT ![p] = "idle"]
  /\ owed' = [owed EXCEPT ![p] = NoTags]
  /\ UNCHANGED <<cutoff, unsaved, scope, before, page, seen, deleted, skipped, scanned, due>>

CallStep(p) == ReadPage(p) \/ ReadEntries(p) \/ Remove(p) \/ CountTags(p) \/ Return(p)

Next ==
  \/ Age
  \/ \E e \in Entries, times \in {1, 2} : Store(e, times)
  \/ \E p \in Pods :
       \/ \E s \in Scopes : Begin(p, s)
       \/ CallStep(p)
       \/ Fail(p)

Spec == Init /\ [][Next]_vars

(* Time passes, a cycle calls each scope, and what it awaits settles.      *)
Fairness ==
  /\ WF_vars(Age)
  /\ \A p \in Pods : WF_vars(CallStep(p)) /\ \A s \in Scopes : SF_vars(Begin(p, s))

FairSpec == Spec /\ Fairness

-----------------------------------------------------------------------------
(* Properties.                                                             *)

(* The state has its type: a call deletes no more than its limit           *)
(* (BoundedPruneScope.limit).                                              *)
TypeOK ==
  /\ cutoff \in Nat
  /\ unsaved \subseteq Entries
  /\ stored \subseteq Entries \ unsaved
  /\ counts \in [Tags -> Nat]
  /\ stage \in [Pods -> Stages]
  /\ scope \in [Pods -> Scopes]
  /\ before \in [Pods -> Int]
  /\ page \in [Pods -> SUBSET Entries]
  /\ seen \in [Pods -> SUBSET Entries]
  /\ owed \in [Pods -> [Tags -> Nat]]
  /\ deleted \in [Pods -> 0 .. Limit]
  /\ skipped \in [Pods -> Nat]
  /\ scanned \in [Pods -> Nat]
  /\ due \in [Pods -> SUBSET Entries]
  /\ failures \in 0 .. MaxFailures

(* No stored entry is missing from the count of its tags, so tags() lists  *)
(* every tag in use, through failed and repeated calls; and without a      *)
(* failure the counts are right once the decrements are in.                *)
CountsCover ==
  \A t \in Tags :
    /\ counts[t] >= Count(stored, t)
    /\ failures = 0 =>
         counts[t] = Count(stored, t) + SumFunction([p \in Pods |-> owed[p][t]])

(* A call that reports its scope drained has left nothing of what was in   *)
(* it when the call began (BoundedPruneResult.hasMore).  The state has its *)
(* type throughout.                                                        *)
DrainedIsDrained ==
  /\ TypeOK
  /\ \A p \in Pods : stage[p] = "drained" => due[p] \cap stored = {}

(* Retention converges: an entry past its type's window leaves             *)
(* (deleteScopeInBatches, "a backlog drains over several cycles").         *)
PastWindow(e) ==
  e \in stored /\ e <= (IF e \in Kept THEN cutoff - KeptLonger ELSE cutoff)

RetentionConverges == \A e \in Entries : PastWindow(e) ~> e \notin stored
=============================================================================
