----------------------------- MODULE StatsRead -----------------------------
(***************************************************************************)
(* What a report of StatsService.getStats() is computed from, for one      *)
(* entry type (exceptions): a paged scan of the window, a second read of   *)
(* the contents it shows, and the pre-aggregated rollups.  Each is a       *)
(* separate await, between which the recorder stores chunks and records    *)
(* their rollups, and the pruner deletes.                                  *)
(*                                                                         *)
(* The provider is the in-memory one, whose methods run to their end, or   *)
(* the Redis one, which reads a page and writes and reads the rollups in   *)
(* several round trips, with the same others between them.                 *)
(*                                                                         *)
(* An entry's number is its id; its time, duration, family and content are *)
(* fixed.  Entries arrive in any order: a flush may be late.               *)
(***************************************************************************)
EXTENDS Integers, FiniteSets, Sequences, SequencesExt, FiniteSetsExt, Folds

CONSTANTS
  Entries,       \* ids
  TimeOf,        \* id -> createdAt
  DurationOf,    \* id -> durationMs, or None
  FamilyOf,      \* id -> familyHash, or None
  Readable,      \* the ids whose content has the fields a report shows
  None,          \* null
  WindowStart,   \* a report covers what is later than this ...
  WindowEnd,     \* ... and was asked for at this time
  MinuteLength,  \* ROLLUP_BUCKET_MS
  Boundaries,    \* LATENCY_BOUNDARIES_MS
  PageSize,      \* pageSize of the window scan
  ScanCap,       \* scanCap of the window scan
  HydrateChunk,  \* HYDRATE_CHUNK
  MaxChunk       \* bound: entries of one flushed chunk

ASSUME StatsAssumption ==
  /\ Entries \subseteq Nat /\ IsFiniteSet(Entries)
  /\ None \notin Nat
  /\ TimeOf \in [Entries -> Nat]
  /\ DurationOf \in [Entries -> Nat \cup {None}]
  /\ Readable \subseteq Entries
  /\ {WindowStart, WindowEnd} \subseteq Nat
  /\ {MinuteLength, PageSize, ScanCap, HydrateChunk, MaxChunk} \subseteq Nat \ {0}
  /\ Boundaries \in Seq(Nat) \ {<<>>}
  /\ \A i \in 1 .. Len(Boundaries) - 1 : Boundaries[i] < Boundaries[i + 1]

VARIABLES
  provider,     \* "memory" or "redis"
  stored,       \* ids in the store
  rollups,      \* minute -> its row
  flushing,     \* the chunk stored whose rollups are not recorded yet
  step,         \* where the report is
  read,         \* the entries scanned, in order
  cursor,       \* the last one of the last page, or None
  truncated,    \* the scan hit its cap
  todo,         \* ids whose content is still to be read in this pass
  contents,     \* ids whose content was read
  rows,         \* minute -> the row read of it
  percentiles,  \* percent -> estimate, or None
  members,      \* Redis: index members whose entries are being fetched
  kept,         \* Redis: the entries found for the page
  from,         \* Redis: the last index member looked at, or None
  ever,         \* ghost: ids ever stored
  rolled,       \* ghost: ids whose rollups were recorded
  steady,       \* ghost: ids in the store since the report began
  covered       \* ghost: ids the rollups read stand for

storeVars  == <<provider, stored, rollups, flushing, ever, rolled>>
pageVars   == <<members, kept, from>>
scanVars   == <<read, cursor, truncated>>
rollupVars == <<rows, percentiles, covered>>
reportVars == <<step, scanVars, pageVars, todo, contents, rollupVars>>
statsVars == <<storeVars, reportVars, steady>>

Cells == 1 .. Len(Boundaries) + 1
Percents == {50, 95, 99}

FloorToBucket(t) == (t \div MinuteLength) * MinuteLength
Minutes == {FloorToBucket(TimeOf[e]) : e \in Entries}

Newer(a, b) == TimeOf[a] > TimeOf[b] \/ (TimeOf[a] = TimeOf[b] /\ a > b)

\* The order of the members of a Redis index: newest first, but the ids of one
\* millisecond ascend.
IndexBefore(a, b) == TimeOf[a] > TimeOf[b] \/ (TimeOf[a] = TimeOf[b] /\ a < b)

\* The ids of S in one of these orders.
InOrder(S, before(_, _)) ==
  [i \in 1 .. Cardinality(S) |->
     CHOOSE e \in S : Cardinality({d \in S : before(d, e)}) = i - 1]

-----------------------------------------------------------------------------
(* Rollups.                                                                *)

\* histogramBucketIndex
HistogramCell(d) ==
  Min({i \in 1 .. Len(Boundaries) : d <= Boundaries[i]} \cup {Len(Boundaries) + 1})

Timed(S) == {e \in S : DurationOf[e] # None}

\* The row of a group of entries: a null duration counts, as zero, in all but
\* the histogram.
Aggregate(S) ==
  [count     |-> Cardinality(S),
   sum       |-> SumFunctionOnSet(DurationOf, Timed(S)),
   max       |-> Max({DurationOf[e] : e \in Timed(S)} \cup {0}),
   histogram |-> [c \in Cells |->
                   Cardinality({e \in Timed(S) : HistogramCell(DurationOf[e]) = c})]]

AggregateDeltas(S) ==
  [m \in Minutes |-> Aggregate({e \in S : FloorToBucket(TimeOf[e]) = m})]

AddHistograms(a, b) == [c \in Cells |-> a[c] + b[c]]

\* mutant: a row's max is the last delta's
MergeLastMax(row, delta) ==
  [count     |-> row.count + delta.count,
   sum       |-> row.sum + delta.sum,
   max       |-> delta.max,
   histogram |-> AddHistograms(row.histogram, delta.histogram)]

\* recordRollups, for one row and one delta
Merge(row, delta) ==
  [count     |-> row.count + delta.count,
   sum       |-> row.sum + delta.sum,
   max       |-> Max({row.max, delta.max}),
   histogram |-> AddHistograms(row.histogram, delta.histogram)]

\* mutant: the rank is rounded down
RankDown(percent, n) == (percent * n) \div 100

\* ceil(percent/100 * n)
Rank(percent, n) == (percent * n + 99) \div 100

\* 1-based rank of a percentile among n > 0 samples
TargetRank(percent, n) == Max({1, Rank(percent, n)})

\* estimatePercentileFromHistogram, of a histogram that is not empty: the upper
\* edge of the first cell whose cumulative count reaches the rank.
EstimatePercentile(histogram, percent) ==
  LET upTo(c) == SumFunctionOnSet(histogram, 1 .. c)
      total == upTo(Len(Boundaries) + 1)
      cell == Min({c \in Cells : upTo(c) >= TargetRank(percent, total)})
  IN Boundaries[Min({cell, Len(Boundaries)})]

-----------------------------------------------------------------------------
(* The store and its writers.                                              *)

StatsInit ==
  /\ provider \in {"memory", "redis"}
  /\ members = <<>> /\ kept = {} /\ from = None
  /\ rows = <<>>
  /\ stored = {} /\ ever = {} /\ rolled = {} /\ flushing = {}
  /\ rollups = AggregateDeltas({})
  /\ step = "idle"
  /\ read = <<>> /\ todo = <<>>
  /\ cursor = None
  /\ truncated = FALSE
  /\ contents = {} /\ steady = {} /\ covered = {}
  /\ percentiles = None

\* Recorder: a chunk is stored; the next one waits for its rollups.
StoreChunk(C) ==
  /\ flushing = {}
  /\ stored' = stored \cup C
  /\ ever' = ever \cup C
  /\ flushing' = C
  /\ UNCHANGED <<provider, rollups, rolled, reportVars, steady>>

\* The rows written at once: in Redis each has a script of its own.
RowsTogether == IF provider = "redis" THEN {{m} : m \in Minutes} ELSE {Minutes}

RecordRollups(M) ==
  LET C == {e \in flushing : FloorToBucket(TimeOf[e]) \in M} IN
  /\ C # {}
  /\ rollups' = LET deltas == AggregateDeltas(C)
                IN [m \in Minutes |-> Merge(rollups[m], deltas[m])]
  /\ rolled' = rolled \cup C
  /\ flushing' = flushing \ C
  /\ UNCHANGED <<provider, stored, ever, reportVars, steady>>

\* Rollups are best-effort: a failure is swallowed.
RollupsFail(M) ==
  LET C == {e \in flushing : FloorToBucket(TimeOf[e]) \in M} IN
  /\ C # {}
  /\ flushing' = flushing \ C
  /\ UNCHANGED <<provider, stored, rollups, ever, rolled, reportVars, steady>>

\* pruneScopedBatch, one entry at a time: an oldest one goes (the providers
\* differ in which of one millisecond is first), its rollups stay.
Prune ==
  \E oldest \in stored :
    /\ \A e \in stored : TimeOf[oldest] <= TimeOf[e]
    /\ stored' = stored \ {oldest}
    /\ steady' = steady \ {oldest}
    /\ UNCHANGED <<provider, rollups, flushing, ever, rolled, reportVars>>

-----------------------------------------------------------------------------
(* The report.                                                             *)

\* What the keyset cursor leaves for the next page.
Past(e) == Newer(cursor, e)

\* get() with the window's lower bound: one entry more than the page is looked
\* for, to know whether there is a next page.
Window ==
  InOrder({e \in stored : TimeOf[e] > WindowStart /\ (cursor # None => Past(e))},
               Newer)

FirstOfFamily(entries) ==
  {entries[i] : i \in {i \in DOMAIN entries :
     /\ FamilyOf[entries[i]] # None
     /\ \A j \in 1 .. i - 1 : FamilyOf[entries[j]] # FamilyOf[entries[i]]}}

Unkeyed(entries) == {e \in ToSet(entries) : FamilyOf[e] = None}

\* The families of exceptions whose first row gives no class and message.
PerRow(entries) ==
  {e \in ToSet(entries) : \E f \in FirstOfFamily(entries) :
     FamilyOf[e] = FamilyOf[f] /\ f \notin contents \cap Readable}

Ids(S) == InOrder(S, Newer)

Ask ==
  /\ step = "idle"
  /\ step' = "scan"
  /\ steady' = stored
  /\ UNCHANGED <<storeVars, scanVars, pageVars, todo, contents, rollupVars>>

EndScan(entries) ==
  /\ step' = "hydrate"
  /\ todo' = Ids(FirstOfFamily(entries) \cup Unkeyed(entries))

\* What a scan keeps of the entries it has read.
CutAtCap(entries) == SubSeq(entries, 1, Min({ScanCap, Len(entries)}))

\* collectEntriesInWindow, when get() answers: found are the entries looked for,
\* newest first, more than a page of them if there is a next page.
PageArrives(found) ==
  LET page == SubSeq(found, 1, Min({PageSize, Len(found)}))
      entries == read \o page
      capped == page # <<>> /\ Len(entries) >= ScanCap
      more == ~capped /\ Len(found) > PageSize /\ Last(page) # cursor
  IN /\ truncated' = capped
     /\ read' = CutAtCap(entries)
     /\ cursor' = IF more THEN Last(page) ELSE cursor
     /\ IF more THEN UNCHANGED <<step, todo>> ELSE EndScan(CutAtCap(entries))

ScanPage ==
  /\ step = "scan" /\ provider = "memory"
  /\ PageArrives(Window)
  /\ UNCHANGED <<storeVars, steady, pageVars, contents, rollupVars>>

\* Redis get(): the next members of the index; the cursor's millisecond is read
\* again from its beginning.
NextMembers ==
  LET inRange == {e \in stored :
        /\ TimeOf[e] > WindowStart
        /\ IF from # None THEN IndexBefore(from, e)
           ELSE cursor # None => TimeOf[e] <= TimeOf[cursor]}
      inOrder == InOrder(inRange, IndexBefore)
  IN SubSeq(inOrder, 1, Min({PageSize + 1, Len(inOrder)}))

ReadMembers ==
  /\ step = "scan" /\ provider = "redis" /\ members = <<>>
  /\ IF NextMembers = <<>>
       THEN /\ PageArrives(InOrder(kept, Newer))
            /\ kept' = {} /\ from' = None
            /\ UNCHANGED members
       ELSE /\ members' = NextMembers
            /\ UNCHANGED <<step, scanVars, kept, from, todo>>
  /\ UNCHANGED <<storeVars, steady, contents, rollupVars>>

\* readEntries: both copies of an entry deleted since are missing.
Present(S) == S \cap stored

\* What is kept of members that were looked at: not those of the cursor's
\* millisecond that the last page gave.
KeptOf(S) == {e \in Present(S) : cursor # None => Past(e)}

\* mutant: a page is cut inside a millisecond
FullAtOnce(S, last, next) == Cardinality(S) > PageSize

\* With S kept, the page is complete before the member next: it has one entry
\* too many, and the millisecond of the last member is over.
Full(S, last, next) == Cardinality(S) > PageSize /\ TimeOf[next] # TimeOf[last]

\* Their entries, up to where the page is complete or the index has ended.
ReadEntries ==
  /\ members # <<>>
  /\ LET before(i) == kept \cup KeptOf(ToSet(SubSeq(members, 1, i - 1)))
         previous(i) == IF i = 1 THEN from ELSE members[i - 1]
         stops == {i \in DOMAIN members : Full(before(i), previous(i), members[i])}
         all == before(Min(stops \cup {Len(members) + 1}))
     IN IF stops # {} \/ Len(members) <= PageSize
          THEN /\ PageArrives(InOrder(all, Newer))
               /\ kept' = {} /\ from' = None
          ELSE /\ kept' = all /\ from' = Last(members)
               /\ UNCHANGED <<step, scanVars, todo>>
  /\ members' = <<>>
  /\ UNCHANGED <<storeVars, steady, contents, rollupVars>>

\* contentFor: the contents of one chunk of ids that are still there.
HydratePage ==
  /\ step \in {"hydrate", "fallback"}
  /\ todo # <<>>
  /\ LET n == Min({HydrateChunk, Len(todo)})
     IN /\ contents' = contents \cup (ToSet(SubSeq(todo, 1, n)) \cap stored)
        /\ todo' = SubSeq(todo, n + 1, Len(todo))
  /\ UNCHANGED <<storeVars, steady, step, scanVars, pageVars, rollupVars>>

\* mutant: no second pass for a family whose first row gives nothing
HydratedOnce ==
  /\ step \in {"hydrate", "fallback"}
  /\ todo = <<>>
  /\ step' = "rollups"
  /\ UNCHANGED <<storeVars, steady, scanVars, pageVars, todo, contents, rollupVars>>

\* A pass is over: the first may call for a second, of every row of the
\* families it left without content.
Hydrated ==
  /\ step \in {"hydrate", "fallback"}
  /\ todo = <<>>
  /\ IF step = "hydrate" /\ PerRow(read) # {}
       THEN step' = "fallback" /\ todo' = Ids(PerRow(read))
       ELSE step' = "rollups" /\ UNCHANGED todo
  /\ UNCHANGED <<storeVars, steady, scanVars, pageVars, contents, rollupVars>>

\* The minutes the window touches.
WindowMinutes ==
  {m \in Minutes : m \in FloorToBucket(WindowStart) .. FloorToBucket(WindowEnd)}

\* estimatePercentiles: the rows merged, and an estimate that is never above
\* their max.
Estimate(r) ==
  LET merged == [c \in Cells |-> SumFunction([m \in DOMAIN r |-> r[m].histogram[c]])]
      max == Max({r[m].max : m \in DOMAIN r} \cup {0})
  IN IF \A c \in Cells : merged[c] = 0 THEN None
     ELSE [p \in Percents |-> Min({EstimatePercentile(merged, p), max})]

ReadRows(M) ==
  /\ rows' = [m \in DOMAIN rows \cup M |-> IF m \in M THEN rollups[m] ELSE rows[m]]
  /\ covered' = covered \cup {e \in rolled : FloorToBucket(TimeOf[e]) \in M}
  /\ IF DOMAIN rows' = WindowMinutes
       THEN step' = "done" /\ percentiles' = Estimate(rows')
       ELSE step' = "rows" /\ UNCHANGED percentiles
  /\ UNCHANGED <<storeVars, steady, scanVars, pageVars, todo, contents>>

\* In memory all rows at once; in Redis first the index, which lists the rows
\* that exist, ...
ReadRollups ==
  /\ step = "rollups"
  /\ ReadRows({m \in WindowMinutes : provider = "memory" \/ rollups[m].count = 0})

\* ... and then each of those.
ReadRow ==
  /\ step = "rows"
  /\ \E m \in WindowMinutes \ DOMAIN rows : ReadRows({m})

\* The rows a report of exceptions groups and counts (computeExceptions): those
\* that have content, their own or their family's first row's.
Counted ==
  {e \in ToSet(read) :
     \/ e \in contents \cap Readable
     \/ \E f \in FirstOfFamily(read) \cap contents \cap Readable :
          FamilyOf[e] = FamilyOf[f]}

-----------------------------------------------------------------------------

StatsNext ==
  \/ \E C \in SUBSET (Entries \ ever) :
       C # {} /\ Cardinality(C) <= MaxChunk /\ StoreChunk(C)
  \/ \E M \in RowsTogether : RecordRollups(M) \/ RollupsFail(M)
  \/ Prune
  \/ Ask
  \/ ScanPage
  \/ ReadMembers
  \/ ReadEntries
  \/ HydratePage
  \/ Hydrated
  \/ ReadRollups
  \/ ReadRow

StatsSpec == StatsInit /\ [][StatsNext]_statsVars

-----------------------------------------------------------------------------

Scanned == step \notin {"idle", "scan"}

StatsTypeOK ==
  /\ stored \subseteq ever /\ ever \subseteq Entries
  /\ flushing \subseteq ever /\ rolled \subseteq ever
  /\ step \in {"idle", "scan", "hydrate", "fallback", "rollups", "rows", "done"}
  /\ provider = "memory" => members = <<>> /\ kept = {} /\ from = None
  /\ members \in Seq(Entries) /\ Len(members) <= PageSize + 1
  /\ kept \subseteq Entries
  /\ from \in Entries \cup {None}
  /\ DOMAIN rows \subseteq WindowMinutes
  /\ read \in Seq(Entries) /\ Len(read) <= ScanCap
  /\ cursor \in Entries \cup {None}
  /\ truncated \in BOOLEAN
  /\ todo \in Seq(Entries)
  /\ contents \subseteq ToSet(read)
  /\ percentiles = None \/ percentiles \in [Percents -> Nat]

\* However entries of one millisecond fall on a page's boundary, and whatever is
\* stored or deleted between two pages, a scan repeats nothing and misses nothing
\* that was in the window from its beginning to its end, unless it says so, and
\* then only what is older than everything it has.  The state has its type.
ScanComplete ==
  /\ StatsTypeOK
  /\ \A i, j \in DOMAIN read : i < j => Newer(read[i], read[j])
  /\ Scanned =>
       \A e \in steady : TimeOf[e] > WindowStart =>
         \/ e \in ToSet(read)
         \/ truncated /\ \A o \in ToSet(read) : Newer(o, e)

\* However chunks are cut, ordered and lost, a minute's row is the aggregate of
\* the entries whose rollups were recorded, deleted since or not.
RollupsExact == rollups = AggregateDeltas(rolled)

\* Nearest-rank percentile of the raw durations (stats.ts percentile): the
\* least one that Rank of the samples do not exceed.
NearestRank(S, percent) ==
  LET n == Cardinality(S)
      notAbove(d) == Cardinality({e \in S : DurationOf[e] <= d})
  IN Min({d \in {DurationOf[e] : e \in S} : 100 * notAbove(d) >= percent * n})

\* An estimated percentile is the exact one to within its histogram cell, never
\* below it and never above the slowest entry; beyond the last boundary it is
\* that boundary.
EstimateSound ==
  percentiles # None =>
    LET timed == Timed(covered) IN
    \A p \in Percents :
      LET exact == NearestRank(timed, p)
          last == Boundaries[Len(Boundaries)]
          slowest == Max({DurationOf[e] : e \in timed})
      IN IF exact > last THEN percentiles[p] = last
         ELSE /\ percentiles[p] \in exact .. slowest
              /\ \A b \in ToSet(Boundaries) : ~(exact <= b /\ b < percentiles[p])

\* An exception that was scanned is left out of its report's groups only if it
\* was deleted meanwhile, or its own content never had what the report shows.
LeftOutOnlyIfGone ==
  step \in {"rollups", "rows", "done"} =>
    \A e \in ToSet(read) \cap Readable : e \in Counted \/ e \notin stored

\* "so a percentile is never reported above the observed maximum"
\* (metrics/stats.service.ts): the maximum reported is that of the scan.
PercentileBelowMax ==
  step = "done" /\ percentiles # None /\ Timed(ToSet(read)) # {} =>
    percentiles[99] <= Max({DurationOf[e] : e \in Timed(ToSet(read))})

=============================================================================
