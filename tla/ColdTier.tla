------------------------------ MODULE ColdTier ------------------------------
(***************************************************************************)
(* The cold tier of packages/parquet and the tiered reads over it.  Rows   *)
(* move from the hot store into immutable files, one per hour and archive  *)
(* batch; maintenance expires hours and merges the small files of closed   *)
(* ones; a reader pages through both tiers.  Each location call, and each  *)
(* read of a file, is a step, so all three interleave.                     *)
(*                                                                         *)
(* A row is its place in the (createdAt, id) order, one type and one day   *)
(* of them, and the day's partitions are its hours.  A merged hour fits    *)
(* one file of targetFileMb; how often maintain() runs (its cadence) is    *)
(* left out.  The hot store is any provider: a set here.                   *)
(* The location is S3's: a listing shows the files of one moment.          *)
(***************************************************************************)
EXTENDS Integers, Sequences, FiniteSets, FiniteSetsExt

CONSTANTS
  Maintainers,    \* processes whose pruner runs cycles
  MaxRow,         \* bound: rows
  BigFile,        \* rows from which a file is not small: targetFileMb / 2
  ClosedAfter,    \* closedAfter, in hours
  Retention,      \* retention, in hours
  Limit,          \* page size of the reads
  MaxTime,        \* bound: the clock stops here
  MaxFiles,       \* bound: files at once, listed ones included
  MaxFaults       \* bound: calls that fail, processes that die, leases that run out

ASSUME ColdAssumption ==
  /\ {BigFile, Retention, Limit} \subseteq Nat \ {0}
  /\ {MaxRow, ClosedAfter, MaxTime, MaxFiles, MaxFaults} \subseteq Nat

VARIABLES
  now,        \* hours since the day began
  hot,        \* rows in the hot store
  files,      \* the location: files [id, hour, rows]
  maint,      \* process -> where its prune cycle is
  reader,     \* where the read is
  hours,      \* the hour of each row recorded, in order
  faults      \* what has failed so far

vars == <<now, hot, files, maint, reader, hours, faults>>

(* floorHour: the partition of a row.                                      *)
Hour(r) == hours[r]

HoursOf(S) == {Hour(r) : r \in S}
InHour(S, h) == {r \in S : Hour(r) = h}
RowsIn(fs) == UNION {f.rows : f \in fs}

Idle == [stage |-> "idle", rows |-> {}, unwritten |-> {},
         listed |-> {}, inputs |-> {}, removing |-> {}]

NoRead == [stage |-> "idle", cursor |-> MaxRow + 1, hotPage |-> {}, listed |-> {}, unread |-> {},
           opened |-> {}, again |-> FALSE, found |-> {}, owed |-> {}, partial |-> FALSE,
           crowded |-> FALSE]

Init ==
  /\ now = 0
  /\ hot = {}
  /\ files = {}
  /\ maint = [m \in Maintainers |-> Idle]
  /\ reader = NoRead
  /\ hours = <<>>
  /\ faults = 0

TimePasses ==
  /\ now < MaxTime
  /\ now' = now + 1
  /\ UNCHANGED <<hot, files, maint, reader, hours, faults>>

Fault == faults < MaxFaults /\ faults' = faults + 1

(* A file name no file has and nobody still holds: fileKey draws a UUID.   *)
Held == files \cup reader.listed \cup reader.unread \cup reader.opened
          \cup UNION {maint[m].listed \cup maint[m].inputs \cup maint[m].removing :
                      m \in Maintainers}

FreeIds == (1 .. MaxFiles) \ {f.id : f \in Held}

AnId == CHOOSE id \in FreeIds : TRUE

NewFile(S) == [id |-> AnId, hour |-> Hour(CHOOSE r \in S : TRUE), rows |-> S]

(* Files are opened side by side; the order of the answers makes no        *)
(* difference, as a file that is gone never comes back.                    *)
First(fs) == CHOOSE f \in fs : TRUE

(* The bound on files leaves a name to every other file still to be        *)
(* written and to the merge of every process.                              *)
RoomFor(hs) ==
  Cardinality(FreeIds) >= Cardinality(hs) + Cardinality(Maintainers)
                          + MapThenSumSet(LAMBDA m : Cardinality(maint[m].unwritten), Maintainers)

Goes(m, stage, upd) == maint' = [maint EXCEPT ![m] = [upd EXCEPT !.stage = stage]]

Store ==
  /\ Len(hours) < MaxRow
  /\ now < MaxTime                      \* bound: the hour of every row ends
  /\ hours' = Append(hours, now)
  /\ hot' = hot \cup {Len(hours')}
  /\ UNCHANGED <<now, files, maint, reader, faults>>

-----------------------------------------------------------------------------
(* A prune cycle: archive, delete, then the location's maintenance.  The   *)
(* prune lease keeps the cycles of other processes out, unless it ran out  *)
(* under one.                                                              *)

(* The archiver hands the rows up to a cutoff to write(), which groups     *)
(* them by hour.  It reads them from the tiered store, the cold rows with  *)
(* the hot ones, or the hot ones alone when the cold tier cannot be read.  *)
(* Idle processes are alike, so the next one is any fixed one of them.     *)
Archive(m) ==
  /\ maint[m].stage = "idle"
  /\ m = First({p \in Maintainers : maint[p].stage = "idle"})
  /\ IF \A other \in Maintainers : maint[other].stage = "idle"
     THEN UNCHANGED faults
     ELSE Fault
  /\ \E readable \in {hot, hot \cup RowsIn(files)}, cutoff \in 0 .. Len(hours) :
       LET rows == {r \in readable : r <= cutoff}
       IN  /\ rows = {} \/ RoomFor(HoursOf(rows))
           /\ Goes(m, "writing", [Idle EXCEPT !.rows = rows, !.unwritten = HoursOf(rows)])
  /\ UNCHANGED <<now, hot, files, reader, hours>>

(* One file per hour; the location writes a file whole or not at all.      *)
WriteFile(m) ==
  /\ maint[m].stage = "writing"
  /\ FreeIds # {}                       \* bound: RoomFor left a name
  /\ \E h \in maint[m].unwritten :
       /\ files' = files \cup {NewFile(InHour(maint[m].rows, h))}
       /\ maint' = [maint EXCEPT ![m].unwritten = @ \ {h}]
  /\ UNCHANGED <<now, hot, reader, hours, faults>>

(* Only once every write resolved are the rows deleted from the hot store. *)
DeleteEarly(m) ==                        \* mutant: the first write is enough
  /\ maint[m].stage = "writing" /\ maint[m].unwritten # HoursOf(maint[m].rows)
  /\ hot' = hot \ maint[m].rows
  /\ Goes(m, "archived", Idle)
  /\ UNCHANGED <<now, files, reader, hours, faults>>

Delete(m) ==
  /\ maint[m].stage = "writing" /\ maint[m].unwritten = {}
  /\ hot' = hot \ maint[m].rows
  /\ Goes(m, "archived", Idle)
  /\ UNCHANGED <<now, files, reader, hours, faults>>

(* A write or the delete fails: what was written stays, the rows stay hot  *)
(* for a later cycle, and the other scopes' deletes reach maintain().      *)
ArchiveFails(m) ==
  /\ Fault
  /\ maint[m].stage = "writing"
  /\ Goes(m, "archived", Idle)
  /\ UNCHANGED <<now, hot, files, reader, hours>>

Expired(h) == h + 1 <= now - Retention
Closed(h)  == h + 1 <= now - ClosedAfter
Small(f)   == Cardinality(f.rows) < BigFile

(* The hours of listed that have two small files to merge.                 *)
Mergeable(listed) ==
  {h \in 0 .. now : Cardinality({f \in listed : f.hour = h}) >= 2}

(* The newest of them is next; with none left the cycle is over.           *)
MergeNext(m, listed) ==
  IF Mergeable(listed) = {}
  THEN Goes(m, "idle", Idle)
  ELSE LET inputs == {f \in listed : f.hour = Max(Mergeable(listed))}
       IN  Goes(m, "merging", [Idle EXCEPT !.listed = listed \ inputs,
                                           !.inputs = inputs,
                                           !.removing = inputs])

(* expire lists the day.                                                   *)
ExpireLate(m) ==                         \* mutant: an hour too many is kept
  /\ maint[m].stage = "archived"
  /\ Goes(m, "expiring", [Idle EXCEPT !.removing = {f \in files : Expired(f.hour + 1)}])
  /\ UNCHANGED <<now, hot, files, reader, hours, faults>>

Expire(m) ==
  /\ maint[m].stage = "archived"
  /\ Goes(m, "expiring", [Idle EXCEPT !.removing = {f \in files : Expired(f.hour)}])
  /\ UNCHANGED <<now, hot, files, reader, hours, faults>>

(* remove: one key at a time, and one already gone is not an error.  After *)
(* the inputs of a merge, the next hour.                                   *)
RemoveFile(m) ==
  /\ maint[m].stage \in {"expiring", "clearing"}
  /\ \E f \in maint[m].removing :
       /\ files' = files \ {f}
       /\ IF maint[m].stage = "clearing" /\ maint[m].removing = {f}
          THEN MergeNext(m, maint[m].listed)
          ELSE maint' = [maint EXCEPT ![m].removing = @ \ {f}]
  /\ UNCHANGED <<now, hot, reader, hours, faults>>

(* compact lists the day, once what had expired is removed.                *)
Compact(m) ==
  /\ maint[m].stage = "expiring" /\ maint[m].removing = {}
  /\ MergeNext(m, {f \in files : Closed(f.hour) /\ Small(f)})
  /\ UNCHANGED <<now, hot, files, reader, hours, faults>>

(* mergeFiles reads the inputs; one that is gone fails the maintenance.    *)
ReadInput(m) ==
  /\ maint[m].stage = "merging" /\ maint[m].inputs # {}
  /\ \E f \in {First(maint[m].inputs)} :
       IF f \in files
       THEN Goes(m, "merging", [maint[m] EXCEPT !.inputs = @ \ {f}, !.rows = @ \cup f.rows])
       ELSE Goes(m, "idle", Idle)
  /\ UNCHANGED <<now, hot, files, reader, hours, faults>>

(* Every distinct row goes to the output; only then are the inputs, and no *)
(* other file of the hour, removed.                                        *)
WriteMerged(m) ==
  /\ maint[m].stage = "merging" /\ maint[m].inputs = {}
  /\ FreeIds # {}                       \* bound
  /\ files' = files \cup {NewFile(maint[m].rows)}
  /\ Goes(m, "clearing", [maint[m] EXCEPT !.rows = {}])
  /\ UNCHANGED <<now, hot, reader, hours, faults>>

(* A call of maintain() fails, or the process dies.                        *)
CycleFails(m) ==
  /\ Fault
  /\ maint[m].stage # "idle"
  /\ Goes(m, "idle", Idle)
  /\ UNCHANGED <<now, hot, files, reader, hours>>

-----------------------------------------------------------------------------
(* A tiered read, page after page.                                         *)

(* The newest n rows of S, and whether there are fewer.                    *)
Newest(S, n) == {r \in S : Cardinality({s \in S : s > r}) < n}

Below(S, cursor) == {r \in S : r < cursor}

Reading(stage, upd) == reader' = [upd EXCEPT !.stage = stage]

readUnchanged == <<now, hot, files, maint, hours, faults>>

(* The page is made of both tiers' rows, in order, with a cursor if there  *)
(* are more.                                                               *)
MakePage(read) ==
  LET merged == read.hotPage \cup Newest(read.found, Limit + 1)
      data   == Newest(merged, Limit)
      after  == [NoRead EXCEPT !.owed = read.owed \ data]
  IN  IF Cardinality(merged) > Limit
      THEN Reading("hot", [after EXCEPT !.cursor = Min(data)])
      ELSE Reading("done", after)

(* scan opens the newest hour still listed, unless the newest Limit + 1    *)
(* matches are already certain.                                            *)
Scan(read) ==
  IF read.listed = {} \/ Cardinality(read.found) > Limit
  THEN MakePage(read)
  ELSE LET fs == {f \in read.listed : f.hour = Max({g.hour : g \in read.listed})}
       IN  Reading("read", [read EXCEPT !.listed = @ \ fs, !.unread = fs,
                                        !.opened = {}, !.again = FALSE])

(* hotPage: one row more than the page holds, behind the cursor.  A read   *)
(* owes the rows in either tier when it begins, until it returns them.     *)
ReadHot ==
  /\ reader.stage \in {"idle", "hot"}
  /\ Reading("list", [reader EXCEPT
       !.hotPage = Newest(Below(hot, reader.cursor), Limit + 1),
       !.owed = IF reader.stage = "idle" THEN hot \cup RowsIn(files) ELSE @])
  /\ UNCHANGED readUnchanged

(* A full hot page bounds what the cold tier can still contribute.         *)
Wanted(r) ==
  /\ r < reader.cursor
  /\ Cardinality(reader.hotPage) > Limit => r >= Min(reader.hotPage)

MayHold(h) == \E r \in DOMAIN hours : Hour(r) = h /\ Wanted(r)

(* The day's files are listed, in one call, once the hot page is there.    *)
ListDay ==
  /\ reader.stage = "list"
  /\ Scan([reader EXCEPT !.listed = {f \in files : MayHold(f.hour)}])
  /\ UNCHANGED readUnchanged

(* engine.read keeps the newest Limit + 1 rows of the hour's files, the    *)
(* copies of a row counted; scan drops the copies afterwards.              *)
Copies(S, fs) == Cardinality({c \in S \X fs : c[1] \in c[2].rows})

EngineRead(fs) ==
  LET rows == {r \in RowsIn(fs) : Wanted(r)}
  IN  {r \in rows : Copies({s \in rows : s > r}, fs) < Limit + 1}

(* Copies of newer rows took the place of rows of this hour.               *)
CopiesCrowd(fs) ==
  EngineRead(fs) # Newest({r \in RowsIn(fs) : Wanted(r)}, Limit + 1)

(* The hour's files are opened; after the last one the scan goes on.  A    *)
(* read that lost rows to copies is followed no further.                   *)
Opened(read) ==
  IF read.unread # {}
  THEN Reading("read", read)
  ELSE IF CopiesCrowd(read.opened)
       THEN Reading("done", [NoRead EXCEPT !.owed = read.owed, !.crowded = TRUE])
       ELSE Scan([read EXCEPT !.found = @ \cup EngineRead(read.opened)])

(* readHour: a file that is gone has the hour listed again, once; gone a   *)
(* second time, the page is the hot one, and says it is partial; such a    *)
(* read is followed no further.                                            *)
OpenSkipsGone ==                         \* mutant: a file that is gone is passed over
  /\ reader.stage = "read"
  /\ \E f \in {First(reader.unread)} :
       Opened([reader EXCEPT !.unread = @ \ {f},
                             !.opened = IF f \in files THEN @ \cup {f} ELSE @])
  /\ UNCHANGED readUnchanged

OpenFile ==
  /\ reader.stage = "read"
  /\ \E f \in {First(reader.unread)} :
       IF f \in files
       THEN Opened([reader EXCEPT !.unread = @ \ {f}, !.opened = @ \cup {f}])
       ELSE IF ~reader.again
            THEN Opened([reader EXCEPT !.unread = {g \in files : g.hour = f.hour},
                                       !.opened = {}, !.again = TRUE])
            ELSE Reading("done", [NoRead EXCEPT !.owed = reader.owed, !.partial = TRUE])
  /\ UNCHANGED readUnchanged

Read == ReadHot \/ ListDay \/ OpenFile

Cycle(m) ==
  \/ Archive(m) \/ WriteFile(m) \/ Delete(m)
  \/ Expire(m) \/ RemoveFile(m) \/ Compact(m) \/ ReadInput(m) \/ WriteMerged(m)

Next ==
  \/ TimePasses
  \/ Store
  \/ \E m \in Maintainers : Cycle(m) \/ ArchiveFails(m) \/ CycleFails(m)
  \/ Read

Spec == Init /\ [][Next]_vars

(* The clock goes on, the calls of a cycle and of a read end, and the      *)
(* pruner's interval keeps starting cycles.                                *)
FairSpec ==
  /\ Spec
  /\ WF_vars(TimePasses)
  /\ WF_vars(Read)
  /\ \A m \in Maintainers : WF_vars(Cycle(m))

-----------------------------------------------------------------------------
(* Properties.                                                             *)

TypeOK ==
  /\ now \in 0 .. MaxTime
  /\ \A r \in DOMAIN hours : hours[r] \in 0 .. now
  /\ hot \subseteq DOMAIN hours
  /\ \A m \in Maintainers :
       /\ maint[m].stage \in {"idle", "writing", "archived", "expiring", "merging", "clearing"}
       /\ maint[m].rows \subseteq DOMAIN hours
       /\ maint[m].unwritten \subseteq HoursOf(maint[m].rows)
  /\ \A f \in files : f.rows # {} /\ HoursOf(f.rows) = {f.hour}
  /\ \A f, g \in Held : f.id = g.id => f = g
  /\ reader.owed \subseteq DOMAIN hours

(* A recorded row is in the hot store or in a cold file for as long as its *)
(* retention lasts: not a failed archive, a process that dies between the  *)
(* merged file and the removal of its inputs, nor a second maintainer over *)
(* the same hour loses one.                                                *)
RowsKept == \A r \in DOMAIN hours : Expired(Hour(r)) \/ r \in hot \cup RowsIn(files)

(* A read that does not say it is partial returns every row that was in    *)
(* either tier when it began and is not past its retention, although rows  *)
(* move from the hot store to files, and from files to merged files, while *)
(* it goes on ("paging across the boundary has no gap", tiered-storage).   *)
(* A read in which copies crowded rows out of an hour is let off.          *)
ReadComplete ==
  reader.stage = "done" /\ ~reader.partial /\ ~reader.crowded =>
    \A r \in reader.owed : Expired(Hour(r))

(* Over and over, no file is past its retention and no closed hour is left *)
(* with two small files, although a late archive may bring old rows, every *)
(* cycle archives the rows of the cold tier again, and a failure, a death  *)
(* or a second process leaves copies behind.                               *)
TierTidied ==
  []<>( /\ \A f \in files : ~Expired(f.hour)
        /\ \A f, g \in files : f # g /\ Small(f) /\ Small(g) /\ f.hour = g.hour => ~Closed(f.hour))

=============================================================================
