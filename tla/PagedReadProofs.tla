-------------------------- MODULE PagedReadProofs --------------------------
(***************************************************************************)
(* Proofs about the two components that read a store page by page while    *)
(* others write to it and delete from it: the tiered storage (ColdTier)    *)
(* and the statistics of a window (StatsRead).                             *)
(***************************************************************************)
EXTENDS ColdTier, StatsRead, TLAPS, FiniteSetTheorems, SequenceTheorems,
        WellFoundedInduction

-----------------------------------------------------------------------------
(***************************************************************************)
(* No row is lost before its retention, for any number of rows and of      *)
(* maintaining processes, and whatever fails, dies or overlaps.            *)
(*                                                                         *)
(* The argument: a file about to be removed is never what a row relies on. *)
(* The rows of a merge's inputs are in its output before the inputs are    *)
(* given up for removal, and nobody has yet listed that output; the rows of*)
(* an expired hour are past their retention.  So a row is safe once it is  *)
(* in a file that nobody is removing, and stays so.                        *)
(*                                                                         *)
(* And no read leaves a row out that was there when it began: at each call *)
(* of a read the row is found, on the page or behind a full one, or it has *)
(* gone cold and is in a file the read has yet to open (Coming).  A file   *)
(* that is gone by then is no loss: the row is safe, so the hour's new     *)
(* listing has it.  That nothing is cut off wrongly is a matter of counting*)
(* (NewestCut) and of hours being in the order of rows (Ordered).          *)
(***************************************************************************)


Removing(m) ==
  IF maint[m].stage \in {"expiring", "clearing"} THEN maint[m].removing ELSE {}

Doomed == UNION {Removing(m) : m \in Maintainers}

Safe(r) == Expired(Hour(r)) \/ \E f \in files \ Doomed : r \in f.rows

WellFormed(f) == \A r \in f.rows : r \in DOMAIN hours /\ Hour(r) = f.hour

Cyc(stage, held, unwritten, listed, inputs, removing) ==
  [stage |-> stage, rows |-> held, unwritten |-> unwritten,
   listed |-> listed, inputs |-> inputs, removing |-> removing]

IsCycle(c) ==
  c \in [stage : {c.stage}, rows : {c.rows}, unwritten : {c.unwritten},
         listed : {c.listed}, inputs : {c.inputs}, removing : {c.removing}]

(* What a cycle knows: the files it works on are well formed; while it     *)
(* archives, the rows of the hours it wrote are safe; while it merges, the *)
(* inputs are of one hour and it has the rows of those it read.            *)
CycleOK(m) ==
  LET c == maint[m] IN
  /\ IsCycle(c)
  /\ c.rows \subseteq DOMAIN hours
  /\ \A f \in c.listed \cup c.inputs \cup c.removing : WellFormed(f)
  /\ c.stage = "writing" =>
       \A r \in c.rows : Hour(r) \in c.unwritten \/ Safe(r)
  /\ c.stage = "merging" =>
       /\ \A f, g \in c.removing : f.hour = g.hour
       /\ c.inputs \subseteq c.removing
       /\ c.rows = RowsIn(c.removing \ c.inputs)

IInv ==
  /\ now \in Nat
  /\ hours \in Seq(Nat)
  /\ hot \subseteq DOMAIN hours
  /\ maint = [m \in Maintainers |-> maint[m]]
  /\ \A f \in files : WellFormed(f)
  /\ \A m \in Maintainers : CycleOK(m)
  /\ \A r \in DOMAIN hours : r \in hot \/ Safe(r)

LEMMA InitInv == Init => IInv
  BY ColdAssumption
  DEF Init, IInv, CycleOK, IsCycle, Idle, WellFormed, RowsIn

LEMMA CycFields ==
  ASSUME NEW st, NEW rs, NEW un, NEW li, NEW ins, NEW re
  PROVE  LET c == Cyc(st, rs, un, li, ins, re) IN
         /\ IsCycle(c)
         /\ c.stage = st /\ c.rows = rs /\ c.unwritten = un
         /\ c.listed = li /\ c.inputs = ins /\ c.removing = re
  BY DEF Cyc, IsCycle

(* A row that was safe is safe, if no file but an expired one has come to  *)
(* be doomed, unless another one took its rows over.                       *)
LEMMA SafeStays ==
  ASSUME IInv, NEW r \in DOMAIN hours, Safe(r),
         now' \in Nat, now' >= now,
         hours' \in Seq(Nat), Len(hours') >= Len(hours), hours'[r] = hours[r],
         \A f \in files \ Doomed : r \in f.rows =>
           \/ f \in files' \ Doomed'
           \/ Expired(f.hour)
           \/ \E g \in files' \ Doomed' : r \in g.rows
  PROVE  Safe(r)'
<1>1. Hour(r) \in Nat /\ Hour(r)' = Hour(r)
  BY DEF IInv, Hour
<1>2. Expired(Hour(r)) => Expired(Hour(r))'
  BY <1>1, ColdAssumption DEF IInv, Expired
<1>3. ASSUME NEW f \in files \ Doomed, r \in f.rows, Expired(f.hour)
      PROVE  Expired(Hour(r))
  BY <1>3 DEF IInv, WellFormed
<1> QED
  BY <1>2, <1>3 DEF Safe

(* What process m's change of its cycle does to what is being removed.     *)
LEMMA RemovingChange ==
  ASSUME IInv, NEW m \in Maintainers, NEW c, maint' = [maint EXCEPT ![m] = c]
  PROVE  /\ maint'[m] = c
         /\ \A d \in Maintainers \ {m} : maint'[d] = maint[d]
         /\ maint' = [d \in Maintainers |-> maint'[d]]
         /\ Doomed' \subseteq Doomed \cup Removing(m)'
<1>1. /\ maint'[m] = c
      /\ \A d \in Maintainers \ {m} : maint'[d] = maint[d]
      /\ maint' = [d \in Maintainers |-> maint'[d]]
  BY DEF IInv
<1>2. \A d \in Maintainers \ {m} : Removing(d)' = Removing(d)
  BY <1>1 DEF Removing
<1> QED
  BY <1>1, <1>2 DEF Doomed

(* A cycle nobody touched still knows what it knew.                        *)
LEMMA FrameCycle ==
  ASSUME IInv, NEW d \in Maintainers, maint'[d] = maint[d],
         hours' \in Seq(Nat), Len(hours') >= Len(hours),
         \A r \in DOMAIN hours : hours'[r] = hours[r],
         \A r \in DOMAIN hours : Safe(r) => Safe(r)'
  PROVE  CycleOK(d)'
<1>1. DOMAIN hours \subseteq DOMAIN hours' /\ \A r \in DOMAIN hours : Hour(r)' = Hour(r)
  BY DEF IInv, Hour
<1>2. \A f : WellFormed(f) => WellFormed(f)'
  BY <1>1 DEF WellFormed
<1> QED
  BY <1>1, <1>2 DEF IInv, CycleOK, IsCycle, RowsIn

(* A step of process m, which leaves the clock and the record alone.       *)
LEMMA CycleStep ==
  ASSUME IInv, NEW m \in Maintainers, NEW c, maint' = [maint EXCEPT ![m] = c],
         UNCHANGED <<now, hours>>,
         \A r \in DOMAIN hours : Safe(r) => Safe(r)',
         \A f \in files' \ files : WellFormed(f),
         hot' \subseteq hot,
         \A r \in hot \ hot' : Safe(r),
         CycleOK(m)'
  PROVE  IInv'
<1>1. \A d \in Maintainers \ {m} : maint'[d] = maint[d]
  BY RemovingChange
<1>2. ASSUME NEW d \in Maintainers \ {m} PROVE CycleOK(d)'
  <2>1. /\ hours' \in Seq(Nat) /\ Len(hours') >= Len(hours)
        /\ \A r \in DOMAIN hours : hours'[r] = hours[r]
    BY DEF IInv
  <2> QED
    BY <1>1, <2>1, FrameCycle
<1>3. maint' = [d \in Maintainers |-> maint'[d]]
  BY RemovingChange
<1>4. \A f : WellFormed(f)' = WellFormed(f)
  BY DEF WellFormed, Hour
<1>5. \A r \in DOMAIN hours : (r \in hot \/ Safe(r))'
  BY DEF IInv
<1> QED
  BY <1>2, <1>3, <1>4, <1>5 DEF IInv

(* As long as m removes nothing more and no file goes, what was safe is.   *)
LEMMA SafeQuiet ==
  ASSUME IInv, NEW m \in Maintainers, NEW c, maint' = [maint EXCEPT ![m] = c],
         UNCHANGED <<now, hours>>, files \subseteq files',
         Removing(m)' \subseteq Removing(m)
  PROVE  \A r \in DOMAIN hours : Safe(r) => Safe(r)'
<1>1. Doomed' \subseteq Doomed
  BY RemovingChange DEF Doomed
<1>2. files \ Doomed \subseteq files' \ Doomed'
  BY <1>1
<1> QED
  BY <1>2 DEF Safe, Expired, Hour

(* A file just written is one nobody is removing.                          *)
LEMMA NewFileFresh ==
  ASSUME NEW S, FreeIds # {}
  PROVE  NewFile(S) \notin Doomed
<1>1. \A f \in Doomed : f.id \notin FreeIds
  <2>1. Doomed \subseteq Held
    BY DEF Doomed, Removing, Held
  <2> QED
    BY <2>1 DEF FreeIds
<1>2. NewFile(S).id \in FreeIds
  BY DEF NewFile, AnId
<1> QED
  BY <1>1, <1>2

LEMMA ArchiveStep ==
  ASSUME IInv, NEW m \in Maintainers, Archive(m) PROVE IInv'
<1>1. PICK readable \in {hot, hot \cup RowsIn(files)}, cutoff \in 0 .. Len(hours) :
        maint' = [maint EXCEPT ![m] =
          [[Idle EXCEPT !.rows = {r \in readable : r <= cutoff},
                        !.unwritten = HoursOf({r \in readable : r <= cutoff})]
            EXCEPT !.stage = "writing"]]
  BY DEF Archive, Goes
<1> DEFINE held == {r \in readable : r <= cutoff}
           c == Cyc("writing", held, HoursOf(held), {}, {}, {})
<1>2. maint' = [maint EXCEPT ![m] = c]
  <2> DEFINE c1 == [Idle EXCEPT !.rows = held]
             c2 == [c1 EXCEPT !.unwritten = HoursOf(held)]
  <2> HIDE DEF held
  <2>1. IsCycle(Idle)
    BY DEF Idle, IsCycle
  <2>2. c1 = Cyc(Idle.stage, held, Idle.unwritten, Idle.listed, Idle.inputs, Idle.removing)
    BY <2>1 DEF Cyc, IsCycle
  <2>3. IsCycle(c1)
    BY <2>2 DEF Cyc, IsCycle
  <2>4. /\ Idle.listed = {} /\ Idle.inputs = {} /\ Idle.removing = {}
    BY DEF Idle
  <2>5. /\ c1.rows = held /\ c1.listed = {} /\ c1.inputs = {} /\ c1.removing = {}
    BY <2>2, <2>4 DEF Cyc
  <2> HIDE DEF c1
  <2>6. c2 = Cyc(c1.stage, c1.rows, HoursOf(held), c1.listed, c1.inputs, c1.removing)
    BY <2>3 DEF Cyc, IsCycle
  <2>7. IsCycle(c2)
    BY <2>6 DEF Cyc, IsCycle
  <2>8. /\ c2.rows = held /\ c2.unwritten = HoursOf(held)
        /\ c2.listed = {} /\ c2.inputs = {} /\ c2.removing = {}
    BY <2>5, <2>6 DEF Cyc
  <2> HIDE DEF c2
  <2>9. [c2 EXCEPT !.stage = "writing"]
          = Cyc("writing", c2.rows, c2.unwritten, c2.listed, c2.inputs, c2.removing)
    BY <2>7 DEF Cyc, IsCycle
  <2> QED
    BY <1>1, <2>8, <2>9 DEF c2, c1, held
<1>3. UNCHANGED <<now, hot, files, hours>>
  BY DEF Archive
<1>4. maint'[m] = c
  BY <1>2, RemovingChange
<1>5. held \subseteq DOMAIN hours
  BY DEF IInv, RowsIn, WellFormed
<1>6. /\ IsCycle(c) /\ c.stage = "writing" /\ c.rows = held /\ c.unwritten = HoursOf(held)
      /\ c.listed = {} /\ c.inputs = {} /\ c.removing = {}
  BY CycFields
<1> HIDE DEF c, held
<1>7. CycleOK(m)'
  BY <1>3, <1>4, <1>5, <1>6 DEF CycleOK, IsCycle, HoursOf, Hour
<1>8. Removing(m)' = {}
  BY <1>4, <1>6 DEF Removing
<1> QED
  BY <1>2, <1>3, <1>7, <1>8, SafeQuiet, CycleStep

LEMMA WriteFileStep ==
  ASSUME IInv, NEW m \in Maintainers, WriteFile(m) PROVE IInv'
<1>1. PICK h \in maint[m].unwritten :
        /\ files' = files \cup {NewFile(InHour(maint[m].rows, h))}
        /\ maint' = [maint EXCEPT ![m].unwritten = @ \ {h}]
  BY DEF WriteFile
<1> DEFINE old == maint[m]
           new == NewFile(InHour(old.rows, h))
           c == Cyc("writing", old.rows, old.unwritten \ {h}, old.listed, old.inputs, old.removing)
<1>2. UNCHANGED <<now, hot, hours>> /\ old.stage = "writing" /\ FreeIds # {}
  BY DEF WriteFile
<1>3. maint' = [maint EXCEPT ![m] = c]
  <2>1. IsCycle(old)
    BY DEF IInv, CycleOK
  <2> HIDE DEF old
  <2>2. [old EXCEPT !.unwritten = old.unwritten \ {h}] = c
    BY <1>2, <2>1 DEF Cyc, IsCycle
  <2>3. maint' = [maint EXCEPT ![m] = [old EXCEPT !.unwritten = old.unwritten \ {h}]]
    BY <1>1 DEF old
  <2> QED
    BY <2>2, <2>3
<1>4. maint'[m] = c
  BY <1>3, RemovingChange
<1>5. /\ c.stage = "writing" /\ c.rows = old.rows /\ c.unwritten = old.unwritten \ {h}
      /\ c.listed = old.listed /\ c.inputs = old.inputs
      /\ c.removing = old.removing /\ IsCycle(c)
  BY CycFields
<1>6. Removing(m)' = {}
  BY <1>4, <1>5 DEF Removing
<1>7. new.rows = {r \in old.rows : Hour(r) = h} /\ WellFormed(new)
  BY DEF IInv, CycleOK, NewFile, InHour, WellFormed
<1>8. new \notin Doomed
  BY <1>2, NewFileFresh
<1>9. Doomed' \subseteq Doomed
  BY <1>3, <1>6, RemovingChange
<1> HIDE DEF new, c
<1>10. \A r \in DOMAIN hours : Safe(r) => Safe(r)'
  BY <1>1, <1>2, <1>3, <1>6, SafeQuiet
<1>11. \A r \in old.rows : Hour(r) = h => Safe(r)'
  BY <1>1, <1>7, <1>8, <1>9 DEF Safe, new
<1>12. CycleOK(m)'
  BY <1>2, <1>4, <1>5, <1>10, <1>11 DEF IInv, CycleOK, IsCycle, WellFormed, Hour
<1> QED
  BY <1>1, <1>2, <1>3, <1>7, <1>10, <1>12, CycleStep DEF new

LEMMA DeleteStep ==
  ASSUME IInv, NEW m \in Maintainers, Delete(m) PROVE IInv'
<1> DEFINE c == [Idle EXCEPT !.stage = "archived"]
<1>1. /\ maint' = [maint EXCEPT ![m] = c]
      /\ maint[m].stage = "writing" /\ maint[m].unwritten = {}
      /\ hot' = hot \ maint[m].rows
      /\ UNCHANGED <<now, files, hours>>
  BY DEF Delete, Goes
<1>2. /\ c.stage = "archived" /\ c.rows = {} /\ c.listed = {} /\ c.inputs = {}
      /\ c.removing = {} /\ IsCycle(c)
  BY DEF Idle, IsCycle
<1> HIDE DEF c
<1>3. maint'[m] = c
  BY <1>1, RemovingChange
<1>4. CycleOK(m)'
  BY <1>2, <1>3 DEF CycleOK, IsCycle
<1>5. Removing(m)' = {}
  BY <1>2, <1>3 DEF Removing
<1>6. \A r \in hot \ hot' : Safe(r)
  BY <1>1 DEF IInv, CycleOK
<1> QED
  BY <1>1, <1>4, <1>5, <1>6, SafeQuiet, CycleStep

(* A cycle that gives up forgets what it was doing.                        *)
LEMMA IdleStep ==
  ASSUME IInv, NEW m \in Maintainers, NEW stage \in {"idle", "archived"},
         maint' = [maint EXCEPT ![m] = [Idle EXCEPT !.stage = stage]],
         UNCHANGED <<now, hot, files, hours>>
  PROVE  IInv'
<1> DEFINE c == [Idle EXCEPT !.stage = stage]
<1>1. maint' = [maint EXCEPT ![m] = c]
  OBVIOUS
<1>2. /\ c.stage = stage /\ c.rows = {} /\ c.listed = {} /\ c.inputs = {}
      /\ c.removing = {} /\ IsCycle(c)
  BY DEF Idle, IsCycle
<1> HIDE DEF c
<1>3. maint'[m] = c
  BY <1>1, RemovingChange
<1>4. CycleOK(m)'
  BY <1>2, <1>3 DEF CycleOK, IsCycle
<1>5. Removing(m)' = {}
  BY <1>2, <1>3 DEF Removing
<1> QED
  BY <1>1, <1>4, <1>5, SafeQuiet, CycleStep

(* What had expired is removed: no row relies on it.                       *)
LEMMA ExpireStep ==
  ASSUME IInv, NEW m \in Maintainers, Expire(m) PROVE IInv'
<1> DEFINE gone == {f \in files : Expired(f.hour)}
           c1 == [Idle EXCEPT !.removing = gone]
           c == [c1 EXCEPT !.stage = "expiring"]
<1>1. maint' = [maint EXCEPT ![m] = c] /\ UNCHANGED <<now, hot, files, hours>>
  BY DEF Expire, Goes
<1> HIDE DEF gone
<1>2. IsCycle(Idle) /\ Idle.rows = {} /\ Idle.listed = {} /\ Idle.inputs = {}
  BY DEF Idle, IsCycle
<1>3. /\ c1.rows = {} /\ c1.listed = {} /\ c1.inputs = {} /\ c1.removing = gone
      /\ IsCycle(c1)
  BY DEF Idle, IsCycle
<1> HIDE DEF c1
<1>4. /\ c.stage = "expiring" /\ c.rows = {} /\ c.listed = {} /\ c.inputs = {}
      /\ c.removing = gone /\ IsCycle(c)
  BY <1>3 DEF IsCycle
<1> HIDE DEF c
<1>5. maint'[m] = c
  BY <1>1, RemovingChange
<1>6. CycleOK(m)'
  <2>1. \A f \in gone : WellFormed(f)'
    BY <1>1 DEF gone, IInv, WellFormed, Hour
  <2> QED
    BY <1>4, <1>5, <2>1 DEF CycleOK, IsCycle
<1>7. Doomed' \subseteq Doomed \cup gone
  BY <1>1, <1>4, <1>5, RemovingChange DEF Removing
<1>8. ASSUME NEW r \in DOMAIN hours, Safe(r) PROVE Safe(r)'
  <2>1. \A f \in files \ Doomed : f \in files' \ Doomed' \/ Expired(f.hour)
    BY <1>1, <1>7 DEF gone
  <2>2. now' \in Nat /\ now' >= now /\ hours' \in Seq(Nat) /\ Len(hours') >= Len(hours)
        /\ hours'[r] = hours[r]
    BY <1>1 DEF IInv
  <2> QED
    BY <1>8, <2>1, <2>2, SafeStays
<1> QED
  BY <1>1, <1>6, <1>8, CycleStep

(* The next merge, or the end of the cycle: nothing is removed yet.        *)
LEMMA MergeNextStep ==
  ASSUME IInv, NEW m \in Maintainers, NEW listed,
         \A f \in listed : WellFormed(f),
         MergeNext(m, listed), UNCHANGED <<now, hours>>
  PROVE  CycleOK(m)' /\ Removing(m)' = {}
         /\ \E c : maint' = [maint EXCEPT ![m] = c]
<1>1. CASE Mergeable(listed) = {}
  <2> DEFINE c == [Idle EXCEPT !.stage = "idle"]
  <2>1. maint' = [maint EXCEPT ![m] = c]
    BY <1>1 DEF MergeNext, Goes
  <2>2. /\ c.stage = "idle" /\ c.rows = {} /\ c.listed = {} /\ c.inputs = {}
        /\ c.removing = {} /\ IsCycle(c)
    BY DEF Idle, IsCycle
  <2> HIDE DEF c
  <2>3. maint'[m] = c
    BY <2>1, RemovingChange
  <2> QED
    BY <2>1, <2>2, <2>3 DEF CycleOK, IsCycle, Removing
<1>2. CASE Mergeable(listed) # {}
  <2> DEFINE inputs == {f \in listed : f.hour = Max(Mergeable(listed))}
             rest == listed \ inputs
             c1 == [Idle EXCEPT !.listed = rest]
             c2 == [c1 EXCEPT !.inputs = inputs]
             c3 == [c2 EXCEPT !.removing = inputs]
             c == [c3 EXCEPT !.stage = "merging"]
  <2>1. maint' = [maint EXCEPT ![m] = c]
    BY <1>2 DEF MergeNext, Goes
  <2>2. inputs \subseteq listed /\ rest \subseteq listed
        /\ \A f, g \in inputs : f.hour = g.hour
    OBVIOUS
  <2> HIDE DEF inputs, rest
  <2>3. IsCycle(c1) /\ c1.rows = {} /\ c1.listed = rest
    BY DEF Idle, IsCycle
  <2> HIDE DEF c1
  <2>4. IsCycle(c2) /\ c2.rows = {} /\ c2.listed = rest /\ c2.inputs = inputs
    BY <2>3 DEF IsCycle
  <2> HIDE DEF c2
  <2>5. /\ IsCycle(c3) /\ c3.rows = {} /\ c3.listed = rest /\ c3.inputs = inputs
        /\ c3.removing = inputs
    BY <2>4 DEF IsCycle
  <2> HIDE DEF c3
  <2>6. /\ IsCycle(c) /\ c.stage = "merging" /\ c.rows = {} /\ c.listed = rest
        /\ c.inputs = inputs /\ c.removing = inputs
    BY <2>5 DEF IsCycle
  <2> HIDE DEF c
  <2>7. maint'[m] = c
    BY <2>1, RemovingChange
  <2>8. \A f \in listed : WellFormed(f)'
    BY DEF WellFormed, Hour
  <2>9. \A f \in c.listed \cup c.inputs \cup c.removing : WellFormed(f)'
    BY <2>2, <2>6, <2>8
  <2>10. c.rows = RowsIn(c.removing \ c.inputs)
    BY <2>6 DEF RowsIn
  <2>11. CycleOK(m)'
    BY <2>2, <2>6, <2>7, <2>9, <2>10 DEF CycleOK, IsCycle, RowsIn
  <2> QED
    BY <2>1, <2>6, <2>7, <2>11 DEF Removing
<1> QED
  BY <1>1, <1>2

LEMMA CompactStep ==
  ASSUME IInv, NEW m \in Maintainers, Compact(m) PROVE IInv'
<1> DEFINE listed == {f \in files : Closed(f.hour) /\ Small(f)}
<1>1. MergeNext(m, listed) /\ UNCHANGED <<now, hot, files, hours>>
  BY DEF Compact
<1>2. \A f \in listed : WellFormed(f)
  BY DEF IInv
<1> HIDE DEF listed
<1>3. PICK c : maint' = [maint EXCEPT ![m] = c]
  BY <1>1, <1>2, MergeNextStep
<1>4. CycleOK(m)' /\ Removing(m)' = {}
  BY <1>1, <1>2, MergeNextStep
<1> QED
  BY <1>1, <1>3, <1>4, SafeQuiet, CycleStep

(* A file goes: m was removing it, and so no row relied on it.             *)
LEMMA RemoveStep ==
  ASSUME IInv, NEW m \in Maintainers, RemoveFile(m) PROVE IInv'
<1>1. PICK f \in maint[m].removing :
        /\ files' = files \ {f}
        /\ IF maint[m].stage = "clearing" /\ maint[m].removing = {f}
           THEN MergeNext(m, maint[m].listed)
           ELSE maint' = [maint EXCEPT ![m].removing = @ \ {f}]
  BY DEF RemoveFile
<1>2. UNCHANGED <<now, hot, hours>> /\ maint[m].stage \in {"expiring", "clearing"}
  BY DEF RemoveFile
<1>3. \E c : maint' = [maint EXCEPT ![m] = c] /\ CycleOK(m)'
             /\ Removing(m)' \subseteq maint[m].removing
  <2>1. CASE maint[m].stage = "clearing" /\ maint[m].removing = {f}
    <3>1. \A g \in maint[m].listed : WellFormed(g)
      BY DEF IInv, CycleOK
    <3> QED
      BY <1>1, <1>2, <2>1, <3>1, MergeNextStep
  <2>2. CASE ~(maint[m].stage = "clearing" /\ maint[m].removing = {f})
    <3> DEFINE old == maint[m]
               c == [old EXCEPT !.removing = old.removing \ {f}]
    <3>1. maint' = [maint EXCEPT ![m] = c]
      BY <1>1, <2>2
    <3>2. IsCycle(old) /\ old.rows \subseteq DOMAIN hours
          /\ \A g \in old.listed \cup old.inputs \cup old.removing : WellFormed(g)
      BY DEF IInv, CycleOK
    <3> HIDE DEF old
    <3>3. /\ c.stage = old.stage /\ c.rows = old.rows /\ c.listed = old.listed
          /\ c.inputs = old.inputs /\ c.removing = old.removing \ {f} /\ IsCycle(c)
      BY <3>2 DEF IsCycle
    <3> HIDE DEF c
    <3>4. maint'[m] = c
      BY <3>1, RemovingChange
    <3>5. \A g \in c.listed \cup c.inputs \cup c.removing : WellFormed(g)'
      BY <1>2, <3>2, <3>3 DEF WellFormed, Hour
    <3>6. CycleOK(m)'
      BY <1>2, <3>2, <3>3, <3>4, <3>5 DEF CycleOK, old
    <3> QED
      BY <1>2, <3>1, <3>3, <3>4, <3>6 DEF Removing, old
  <2> QED
    BY <2>1, <2>2
<1>4. PICK c : maint' = [maint EXCEPT ![m] = c]
  BY <1>3
<1>5. Removing(m) = maint[m].removing
  BY <1>2 DEF Removing
<1>6. f \in Doomed /\ Doomed' \subseteq Doomed
  <2>1. Removing(m) \subseteq Doomed
    BY DEF Doomed
  <2>2. Removing(m)' \subseteq Removing(m)
    BY <1>3, <1>5
  <2>3. Doomed' \subseteq Doomed \cup Removing(m)'
    BY <1>4, RemovingChange
  <2> QED
    BY <1>5, <2>1, <2>2, <2>3
<1>7. \A r \in DOMAIN hours : Safe(r) => Safe(r)'
  BY <1>1, <1>2, <1>6 DEF Safe, Expired, Hour
<1> QED
  BY <1>1, <1>2, <1>3, <1>4, <1>7, CycleStep

LEMMA ReadInputStep ==
  ASSUME IInv, NEW m \in Maintainers, ReadInput(m) PROVE IInv'
<1> DEFINE old == maint[m]
           f == First(old.inputs)
<1>1. old.stage = "merging" /\ old.inputs # {} /\ UNCHANGED <<now, hot, files, hours>>
  BY DEF ReadInput
<1>2. f \in old.inputs
  BY <1>1 DEF First
<1>3. CASE f \notin files
  <2>1. Goes(m, "idle", Idle)
    BY <1>3 DEF ReadInput
  <2>2. maint' = [maint EXCEPT ![m] = [Idle EXCEPT !.stage = "idle"]]
    BY <2>1 DEF Goes
  <2> HIDE DEF old
  <2> QED
    BY <1>1, <2>2, IdleStep
<1>4. CASE f \in files
  <2> DEFINE c1 == [old EXCEPT !.inputs = old.inputs \ {f}]
             c2 == [c1 EXCEPT !.rows = old.rows \cup f.rows]
             c == [c2 EXCEPT !.stage = "merging"]
  <2>1. maint' = [maint EXCEPT ![m] = c]
    BY <1>4 DEF ReadInput, Goes
  <2>2. CycleOK(m)
    BY DEF IInv
  <2>3. IsCycle(old)
    BY <2>2 DEF CycleOK
  <2> HIDE DEF old, f
  <2>4. /\ IsCycle(c1) /\ c1.rows = old.rows /\ c1.listed = old.listed
        /\ c1.inputs = old.inputs \ {f} /\ c1.removing = old.removing
    BY <2>3 DEF IsCycle
  <2> HIDE DEF c1
  <2>5. /\ IsCycle(c2) /\ c2.rows = old.rows \cup f.rows /\ c2.listed = old.listed
        /\ c2.inputs = old.inputs \ {f} /\ c2.removing = old.removing
    BY <2>4 DEF IsCycle
  <2> HIDE DEF c2
  <2>6. /\ IsCycle(c) /\ c.stage = "merging" /\ c.rows = old.rows \cup f.rows
        /\ c.listed = old.listed /\ c.inputs = old.inputs \ {f} /\ c.removing = old.removing
    BY <2>5 DEF IsCycle
  <2> HIDE DEF c
  <2>7. maint'[m] = c
    BY <2>1, RemovingChange
  <2>8. /\ \A g \in old.listed \cup old.inputs \cup old.removing : WellFormed(g)
        /\ old.rows \subseteq DOMAIN hours
        /\ \A g, h \in old.removing : g.hour = h.hour
        /\ old.inputs \subseteq old.removing
        /\ old.rows = RowsIn(old.removing \ old.inputs)
    BY <1>1, <2>2 DEF CycleOK, old
  <2>9. c.rows = RowsIn(c.removing \ c.inputs)
    BY <1>2, <2>6, <2>8 DEF RowsIn
  <2>10. c.rows \subseteq DOMAIN hours
    BY <1>2, <2>6, <2>8 DEF WellFormed
  <2>11. \A g \in c.listed \cup c.inputs \cup c.removing : WellFormed(g)'
    BY <1>1, <2>6, <2>8 DEF WellFormed, Hour
  <2>12. CycleOK(m)'
    <3>1. \A g, h \in c.removing : g.hour = h.hour
      BY <2>6, <2>8
    <3>2. c.inputs \subseteq c.removing /\ c.stage = "merging" /\ IsCycle(c)
      BY <2>6, <2>8
    <3> QED
      BY <1>1, <2>7, <2>9, <2>10, <2>11, <3>1, <3>2 DEF CycleOK, RowsIn
  <2>13. Removing(m)' = {}
    BY <2>6, <2>7 DEF Removing
  <2> QED
    BY <1>1, <2>1, <2>12, <2>13, SafeQuiet, CycleStep
<1> QED
  BY <1>3, <1>4

(* The merged file is there, with the rows of every input, before the      *)
(* inputs are given up.                                                    *)
LEMMA WriteMergedStep ==
  ASSUME IInv, NEW m \in Maintainers, WriteMerged(m) PROVE IInv'
<1> DEFINE old == maint[m]
           new == NewFile(old.rows)
           c1 == [old EXCEPT !.rows = {}]
           c == [c1 EXCEPT !.stage = "clearing"]
<1>1. /\ old.stage = "merging" /\ old.inputs = {} /\ FreeIds # {}
      /\ files' = files \cup {new}
      /\ maint' = [maint EXCEPT ![m] = c]
      /\ UNCHANGED <<now, hot, hours>>
  BY DEF WriteMerged, Goes
<1>2. /\ IsCycle(old) /\ old.rows = RowsIn(old.removing)
      /\ \A g \in old.listed \cup old.inputs \cup old.removing : WellFormed(g)
      /\ \A g, h \in old.removing : g.hour = h.hour
  BY <1>1 DEF IInv, CycleOK
<1>3. new \notin Doomed /\ new \notin old.removing /\ new.rows = old.rows
  <2>1. old.removing \subseteq Held
    BY DEF Held
  <2>2. new.id \in FreeIds
    BY <1>1 DEF NewFile, AnId
  <2>3. \A g \in Held : g.id \notin FreeIds
    BY DEF FreeIds
  <2>4. new.rows = old.rows
    BY DEF NewFile
  <2> HIDE DEF new
  <2> QED
    BY <1>1, <2>1, <2>2, <2>3, <2>4, NewFileFresh DEF new
<1>4. WellFormed(new)
  <2>1. \A r \in old.rows : r \in DOMAIN hours /\ \E g \in old.removing : Hour(r) = g.hour
    BY <1>2 DEF RowsIn, WellFormed
  <2>2. \A r, q \in old.rows : Hour(r) = Hour(q)
    BY <1>2, <2>1
  <2>3. new.hour = Hour(CHOOSE r \in old.rows : TRUE) /\ new.rows = old.rows
    BY DEF NewFile
  <2> QED
    BY <2>1, <2>2, <2>3 DEF WellFormed
<1> HIDE DEF old
<1>5. /\ IsCycle(c1) /\ c1.rows = {} /\ c1.listed = old.listed
      /\ c1.inputs = old.inputs /\ c1.removing = old.removing
  BY <1>2 DEF IsCycle
<1> HIDE DEF c1
<1>6. /\ IsCycle(c) /\ c.stage = "clearing" /\ c.rows = {} /\ c.listed = old.listed
      /\ c.inputs = old.inputs /\ c.removing = old.removing
  BY <1>5 DEF IsCycle
<1> HIDE DEF c, new
<1>7. maint'[m] = c
  BY <1>1, RemovingChange
<1>8. \A g \in c.listed \cup c.inputs \cup c.removing : WellFormed(g)'
  BY <1>1, <1>2, <1>6 DEF WellFormed, Hour
<1>9. CycleOK(m)'
  BY <1>6, <1>7, <1>8 DEF CycleOK
<1>10. Doomed' \subseteq Doomed \cup old.removing
  BY <1>1, <1>6, <1>7, RemovingChange DEF Removing
<1>11. new \in files' \ Doomed'
  BY <1>1, <1>3, <1>10
<1>12. ASSUME NEW r \in DOMAIN hours, Safe(r) PROVE Safe(r)'
  <2>1. \A g \in old.removing : r \in g.rows => r \in new.rows
    BY <1>2, <1>3 DEF RowsIn
  <2>2. \A g \in files \ Doomed : r \in g.rows =>
          g \in files' \ Doomed' \/ r \in new.rows
    BY <1>1, <1>10, <2>1
  <2> QED
    BY <1>1, <1>11, <1>12, <2>2 DEF Safe, Expired, Hour
<1> QED
  BY <1>1, <1>4, <1>9, <1>12, CycleStep

(* The steps that touch neither a cycle nor a file.                        *)
LEMMA OutsideStep ==
  ASSUME IInv, UNCHANGED <<maint, files>>,
         now' \in Nat, now' >= now,
         hours' \in Seq(Nat), Len(hours') >= Len(hours),
         \A r \in DOMAIN hours : hours'[r] = hours[r],
         hot' \subseteq DOMAIN hours',
         \A r \in DOMAIN hours' : r \in hot' \/ r \in DOMAIN hours \ (hot \ hot')
  PROVE  IInv'
<1>1. Doomed' = Doomed
  BY DEF Doomed, Removing
<1>2. \A r \in DOMAIN hours : Safe(r) => Safe(r)'
  BY <1>1, SafeStays
<1>3. \A d \in Maintainers : CycleOK(d)'
  BY <1>2, FrameCycle
<1>4. \A f \in files' : WellFormed(f)'
  <2>1. DOMAIN hours \subseteq DOMAIN hours' /\ \A r \in DOMAIN hours : Hour(r)' = Hour(r)
    BY DEF IInv, Hour
  <2> QED
    BY <2>1 DEF IInv, WellFormed
<1>5. \A r \in DOMAIN hours' : (r \in hot \/ Safe(r))'
  BY <1>2 DEF IInv
<1> QED
  BY <1>3, <1>4, <1>5 DEF IInv

LEMMA Step == IInv /\ [Next]_vars => IInv'
<1> SUFFICES ASSUME IInv, [Next]_vars PROVE IInv'
  OBVIOUS
<1>1. CASE TimePasses
  <2>1. now' \in Nat /\ now' >= now /\ UNCHANGED <<hot, files, maint, hours>>
    BY <1>1 DEF TimePasses, IInv
  <2> QED
    BY <2>1, OutsideStep DEF IInv
<1>2. CASE Store
  <2>1. now \in Nat /\ hours' = Append(hours, now) /\ hot' = hot \cup {Len(hours')}
        /\ UNCHANGED <<now, files, maint>>
    BY <1>2 DEF Store, IInv
  <2>2. hours' \in Seq(Nat) /\ Len(hours') = Len(hours) + 1
        /\ \A r \in DOMAIN hours : hours'[r] = hours[r]
    BY <2>1 DEF IInv
  <2>3. hot' \subseteq DOMAIN hours'
        /\ \A r \in DOMAIN hours' : r \in hot' \/ r \in DOMAIN hours
    BY <2>1, <2>2 DEF IInv
  <2> QED
    BY <2>1, <2>2, <2>3, OutsideStep
<1>3. CASE Read \/ UNCHANGED vars
  <2>1. UNCHANGED <<now, hot, files, maint, hours>>
    BY <1>3 DEF Read, ReadHot, ListDay, OpenFile, readUnchanged, vars
  <2> QED
    BY <2>1, OutsideStep DEF IInv
<1>4. ASSUME NEW m \in Maintainers, Cycle(m) PROVE IInv'
  BY <1>4, ArchiveStep, WriteFileStep, DeleteStep, ExpireStep, RemoveStep, CompactStep,
     ReadInputStep, WriteMergedStep DEF Cycle
<1>5. ASSUME NEW m \in Maintainers, ArchiveFails(m) PROVE IInv'
  BY <1>5, IdleStep DEF ArchiveFails, Goes
<1>6. ASSUME NEW m \in Maintainers, CycleFails(m) PROVE IInv'
  BY <1>6, IdleStep DEF CycleFails, Goes
<1> QED
  BY <1>1, <1>2, <1>3, <1>4, <1>5, <1>6 DEF Next

(* A recorded row is in the hot store or in a cold file until its retention*)
(* is over, whatever archives, merges, expiries, failures, deaths and lost *)
(* leases overlap (compactHour writes before it removes; the pruner        *)
(* deletes what write() has resolved for).                                 *)
THEOREM RowsAreKept == Spec => []RowsKept
<1>1. IInv => RowsKept
  <2> SUFFICES ASSUME IInv, NEW r \in DOMAIN hours, r \notin hot, ~Expired(Hour(r))
               PROVE  r \in RowsIn(files)
    BY DEF RowsKept
  <2> QED
    BY DEF IInv, Safe, RowsIn
<1> QED
  BY <1>1, InitInv, Step, PTL DEF Spec

-----------------------------------------------------------------------------
(* What a paged read over both tiers returns.  First, what the newest n of *)
(* a set of rows are.                                                      *)

NewerRows(S, r) == {s \in S : s > r}

(* A page made of S, or of more than S, returns r or is full before it.    *)
Found(r, S) == r \in S \/ Cardinality(NewerRows(S, r)) > Limit

LEMMA FiniteRows ==
  ASSUME NEW n \in Nat, NEW S \in SUBSET (1 .. n)
  PROVE  /\ IsFiniteSet(S) /\ Cardinality(S) \in Nat
         /\ \A T \in SUBSET S : IsFiniteSet(T) /\ Cardinality(T) \in Nat
                                /\ Cardinality(T) <= Cardinality(S)
<1>1. IsFiniteSet(1 .. n)
  BY FS_Interval
<1>2. IsFiniteSet(S)
  BY <1>1, FS_Subset
<1> QED
  BY <1>2, FS_Subset, FS_CardinalityType

(* An older row has more newer ones.                                       *)
LEMMA NewerShrinks ==
  ASSUME NEW S, \A s \in S : s \in Nat, NEW a \in Nat, NEW b \in Nat, a <= b
  PROVE  /\ NewerRows(S, b) \subseteq NewerRows(S, a) /\ NewerRows(S, a) \subseteq S
         /\ b \notin NewerRows(S, b)
         /\ a < b /\ b \in S => b \in NewerRows(S, a)
<1>1. \A s \in S : s > b => s > a
  OBVIOUS
<1>2. ~(b > b) /\ (a < b => b > a)
  OBVIOUS
<1> QED
  BY <1>1, <1>2 DEF NewerRows

(* The CHOOSEs of Min and Max choose a least and a greatest element.       *)
LEMMA LeastIsMin ==
  ASSUME NEW S \in SUBSET Nat, S # {}
  PROVE  Min(S) \in S /\ \A y \in S : Min(S) <= y
<1>1. IsWellFoundedOn({p \in Nat \X Nat : p[1] < p[2]}, Nat)
  BY NatLessThanWellFounded DEF OpToRel
<1>2. PICK x \in S : \A y \in S : ~(<<y, x>> \in {p \in Nat \X Nat : p[1] < p[2]})
  BY <1>1, WFMin
<1>3. \A y \in S : x <= y
  <2> TAKE y \in S
  <2>1. x \in Nat /\ y \in Nat
    OBVIOUS
  <2>2. ~(y < x)
    BY <1>2, <2>1
  <2> QED
    BY <2>1, <2>2
<1> QED
  BY <1>3 DEF Min

LEMMA GreatestOf ==
  ASSUME NEW n \in Nat, NEW S \in SUBSET (0 .. n), S # {}
  PROVE  Max(S) \in S /\ \A y \in S : Max(S) >= y
<1> DEFINE R == {n - s : s \in S}
<1>0. \A s \in S : s \in Nat /\ n - s \in Nat
  <2> TAKE s \in S
  <2>1. s \in 0 .. n
    OBVIOUS
  <2> QED
    BY <2>1
<1>1. R \in SUBSET Nat /\ R # {}
  BY <1>0
<1>2. Min(R) \in R /\ \A y \in R : Min(R) <= y
  BY <1>1, LeastIsMin
<1>3. PICK x \in S : Min(R) = n - x
  BY <1>2
<1>4. \A y \in S : x >= y
  <2> TAKE y \in S
  <2>1. n - y \in R
    OBVIOUS
  <2>2. n - x <= n - y
    BY <1>2, <1>3, <2>1
  <2> QED
    BY <1>0, <2>2
<1> QED
  BY <1>4 DEF Max

(* The newest n of S: one left out has n of them before it.                *)
LEMMA NewestCut ==
  ASSUME NEW k \in Nat, NEW S \in SUBSET (1 .. k), NEW n \in Nat,
         NEW r \in S, r \notin Newest(S, n)
  PROVE  Cardinality(NewerRows(Newest(S, n), r)) >= n
<1> DEFINE T == NewerRows(S, r)
           t == Cardinality(T)
           f == [s \in T |-> Cardinality(NewerRows(S, s))]
<1>0. \A s \in S : s \in Nat
  <2> TAKE s \in S
  <2>1. s \in 1 .. k
    OBVIOUS
  <2> QED
    BY <2>1
<1>1. /\ IsFiniteSet(T) /\ t \in Nat /\ T \in SUBSET (1 .. k)
      /\ \A s \in T : IsFiniteSet(NewerRows(S, s)) /\ Cardinality(NewerRows(S, s)) \in Nat
  BY FiniteRows DEF NewerRows
<1>2. t >= n
  BY <1>1 DEF Newest, NewerRows
<1>a. r \in Nat /\ \A s \in T : s \in S /\ s \in Nat /\ s > r
  BY <1>0 DEF NewerRows
<1>3. \A s, u \in T : s < u => f[u] < f[s]
  <2> TAKE s, u \in T
  <2> HAVE s < u
  <2>0. s \in Nat /\ u \in S /\ u \in Nat /\ s <= u /\ s < u
    BY <1>a
  <2>1. NewerRows(S, u) \subseteq NewerRows(S, s) /\ u \in NewerRows(S, s) /\ u \notin NewerRows(S, u)
    <3> HIDE DEF f, T
    <3> QED
      BY <1>0, <2>0, NewerShrinks
  <2> QED
    BY <1>1, <2>1, FS_Subset
<1>4. \A s \in T : f[s] \in 0 .. t - 1
  <2> TAKE s \in T
  <2>0. s \in Nat /\ r \in Nat /\ r <= s
    BY <1>a
  <2>1. NewerRows(S, s) \subseteq NewerRows(S, r) /\ s \notin NewerRows(S, s)
    BY <1>0, <2>0, NewerShrinks
  <2>2. Cardinality(NewerRows(S, s)) < t
    BY <1>1, <2>1, FS_Subset
  <2> QED
    BY <1>1, <2>2
<1>5. f \in Injection(T, 0 .. t - 1)
  <2>1. \A s, u \in T : f[s] = f[u] => s = u
    BY <1>1, <1>3, <1>4
  <2>2. f \in [T -> 0 .. t - 1]
    BY <1>4
  <2> HIDE DEF f
  <2> QED
    BY <2>1, <2>2 DEF Injection, IsInjective
<1>6. \A m \in Nat : IsFiniteSet(0 .. m - 1) /\ Cardinality(0 .. m - 1) = m
  <2> TAKE m \in Nat
  <2>1. 0 \in Int /\ m - 1 \in Int /\ (0 > m - 1 => m = 0)
    OBVIOUS
  <2>2. /\ IsFiniteSet(0 .. m - 1)
        /\ Cardinality(0 .. m - 1) = IF 0 > m - 1 THEN 0 ELSE (m - 1) - 0 + 1
    BY <2>1, FS_Interval
  <2> QED
    BY <2>1, <2>2
<1>7. f \in Surjection(T, 0 .. t - 1)
  <2> HIDE DEF f, T
  <2> QED
    BY <1>1, <1>5, <1>6, FS_Injection DEF t
<1> DEFINE C == NewerRows(Newest(S, n), r)
           g == [s \in C |-> f[s]]
<1>8. C = {s \in T : f[s] < n}
  BY DEF Newest, NewerRows
<1>9. g \in Surjection(C, 0 .. n - 1)
  <2>1. C \subseteq T /\ \A s \in C : g[s] \in 0 .. n - 1
    BY <1>1, <1>4, <1>8
  <2>2. \A i \in 0 .. n - 1 : \E s \in C : g[s] = i
    <3> TAKE i \in 0 .. n - 1
    <3>1. i \in 0 .. t - 1
      BY <1>1, <1>2
    <3>2. PICK s \in T : f[s] = i
      <4> HIDE DEF f
      <4> QED
        BY <1>7, <3>1 DEF Surjection
    <3>3. s \in C
      <4>1. f[s] < n
        BY <1>1, <3>2
      <4> HIDE DEF f, C
      <4> QED
        BY <1>8, <3>2, <4>1
    <3>4. g[s] = f[s]
      <4> HIDE DEF f, C
      <4> QED
        BY <3>3
    <3> HIDE DEF f, g, C
    <3> QED
      BY <3>2, <3>3, <3>4
  <2>3. g \in [C -> 0 .. n - 1]
    BY <2>1
  <2> HIDE DEF g, C
  <2> QED
    BY <2>2, <2>3 DEF Surjection
<1>10. IsFiniteSet(C) /\ Cardinality(C) \in Nat
  <2>1. C \subseteq T
    BY <1>8
  <2> QED
    BY <1>1, <2>1, FS_Subset, FS_CardinalityType
<1>11. Cardinality(0 .. n - 1) <= Cardinality(C)
  <2> HIDE DEF g, C
  <2> QED
    BY <1>9, <1>10, FS_Surjection
<1>12. Cardinality(0 .. n - 1) = n
  BY <1>6
<1> QED
  BY <1>10, <1>11, <1>12

(* What is found stays so when more is.                                    *)
LEMMA FoundGrows ==
  ASSUME NEW k \in Nat, NEW S \in SUBSET (1 .. k), NEW T \in SUBSET (1 .. k), S \subseteq T,
         NEW r \in 1 .. k, Found(r, S)
  PROVE  Found(r, T)
<1>1. /\ NewerRows(S, r) \subseteq NewerRows(T, r) /\ NewerRows(T, r) \in SUBSET (1 .. k)
  BY DEF NewerRows
<1>2. /\ Cardinality(NewerRows(S, r)) \in Nat /\ Cardinality(NewerRows(T, r)) \in Nat
      /\ Cardinality(NewerRows(S, r)) <= Cardinality(NewerRows(T, r))
  BY <1>1, FiniteRows
<1> QED
  BY <1>2, ColdAssumption DEF Found

(* The newest Limit + 1 are enough of a tier for a page.                   *)
LEMMA NewestFinds ==
  ASSUME NEW k \in Nat, NEW H \in SUBSET (1 .. k), NEW F \in SUBSET (1 .. k),
         NEW r \in 1 .. k, Found(r, H \cup F)
  PROVE  Found(r, H \cup Newest(F, Limit + 1))
<1> DEFINE N == Newest(F, Limit + 1)
<1>0. Limit \in Nat /\ N \in SUBSET (1 .. k) /\ H \cup N \in SUBSET (1 .. k)
  BY ColdAssumption DEF Newest
<1>1. ASSUME NEW x \in F, x \notin N, x >= r PROVE Found(r, H \cup N)
  <2>1. Cardinality(NewerRows(N, x)) >= Limit + 1
    <3>1. Limit + 1 \in Nat
      BY <1>0
    <3> QED
      BY <1>1, <3>1, NewestCut
  <2>2. NewerRows(N, x) \subseteq NewerRows(H \cup N, r) /\ NewerRows(H \cup N, r) \in SUBSET (1 .. k)
    BY <1>0, <1>1 DEF NewerRows
  <2>3. /\ Cardinality(NewerRows(N, x)) \in Nat /\ Cardinality(NewerRows(H \cup N, r)) \in Nat
        /\ Cardinality(NewerRows(N, x)) <= Cardinality(NewerRows(H \cup N, r))
    BY <2>2, FiniteRows
  <2> QED
    BY <1>0, <2>1, <2>3 DEF Found
<1>2. CASE \A x \in F : x >= r => x \in N
  <2>1. r \in H \cup F => r \in H \cup N
    BY <1>2
  <2>2. NewerRows(H \cup F, r) = NewerRows(H \cup N, r)
    <3>1. \A x \in F : x \in Nat /\ (x > r => x >= r)
      <4> TAKE x \in F
      <4>1. x \in 1 .. k
        OBVIOUS
      <4> QED
        BY <4>1
    <3>2. N \subseteq F
      BY DEF Newest
    <3> HIDE DEF N
    <3> QED
      BY <1>2, <3>1, <3>2 DEF NewerRows
  <2> QED
    BY <2>1, <2>2 DEF Found
<1> QED
  BY <1>1, <1>2

(* A row found in M is behind all that a page made of M returns,           *)
(* or is returned.                                                         *)
LEMMA PageFinds ==
  ASSUME NEW k \in Nat, NEW M \in SUBSET (1 .. k), NEW r \in 1 .. k, Found(r, M),
         r \notin Newest(M, Limit)
  PROVE  Cardinality(M) > Limit /\ \A d \in Newest(M, Limit) : r < d
<1>0. /\ Limit \in Nat \ {0} /\ IsFiniteSet(M) /\ Cardinality(M) \in Nat
      /\ \A d \in 1 .. k : NewerRows(M, d) \subseteq M /\ Cardinality(NewerRows(M, d)) \in Nat
                           /\ Cardinality(NewerRows(M, d)) <= Cardinality(M)
  BY FiniteRows, ColdAssumption DEF NewerRows
<1>1. Cardinality(NewerRows(M, r)) >= Limit
  BY <1>0 DEF Found, Newest, NewerRows
<1>2. Cardinality(M) > Limit
  <2>1. CASE Cardinality(NewerRows(M, r)) > Limit
    BY <1>0, <2>1
  <2>2. CASE r \in M
    <3>1. r \notin NewerRows(M, r) /\ NewerRows(M, r) # M
      BY <2>2 DEF NewerRows
    <3>2. Cardinality(NewerRows(M, r)) # Cardinality(M)
      BY <1>0, <3>1, FS_Subset
    <3> QED
      BY <1>0, <1>1, <3>2
  <2> QED
    BY <2>1, <2>2 DEF Found
<1>3. ASSUME NEW d \in Newest(M, Limit) PROVE r < d
  <2>1. d \in M /\ d \in 1 .. k /\ Cardinality(NewerRows(M, d)) < Limit
    BY <1>3 DEF Newest, NewerRows
  <2>2. SUFFICES ASSUME d < r PROVE FALSE
    BY <1>3, <2>1
  <2>3. NewerRows(M, r) \subseteq NewerRows(M, d) /\ NewerRows(M, d) \in SUBSET (1 .. k)
    <3>1. \A s \in M : s \in Nat
      <4> TAKE s \in M
      <4>1. s \in 1 .. k
        OBVIOUS
      <4> QED
        BY <4>1
    <3>2. d \in Nat /\ r \in Nat /\ d <= r
      BY <2>1, <2>2
    <3>3. NewerRows(M, r) \subseteq NewerRows(M, d) /\ NewerRows(M, d) \subseteq M
      BY <3>1, <3>2, NewerShrinks
    <3> QED
      BY <3>3
  <2>4. Cardinality(NewerRows(M, r)) <= Cardinality(NewerRows(M, d))
    BY <2>3, FiniteRows
  <2> QED
    BY <1>0, <1>1, <2>1, <2>4
<1> QED
  BY <1>2, <1>3

(* More rows than a page holds give a page with a cursor.                  *)
LEMMA PageReturns ==
  ASSUME NEW k \in Nat, NEW M \in SUBSET (1 .. k), Cardinality(M) > Limit
  PROVE  /\ Newest(M, Limit) # {} /\ Newest(M, Limit) \in SUBSET (1 .. k)
         /\ Min(Newest(M, Limit)) \in Newest(M, Limit)
<1>0. Limit \in Nat \ {0} /\ Newest(M, Limit) \in SUBSET (1 .. k)
  BY ColdAssumption DEF Newest
<1>1. M # {}
  BY <1>0, FS_EmptySet
<1>2. Newest(M, Limit) # {}
  <2>1. PICK r \in M : TRUE
    BY <1>1
  <2>2. SUFFICES ASSUME Newest(M, Limit) = {} PROVE FALSE
    OBVIOUS
  <2>3. Cardinality(NewerRows({}, r)) >= Limit
    BY <1>0, <2>1, <2>2, NewestCut
  <2>4. NewerRows({}, r) = {}
    BY DEF NewerRows
  <2> QED
    BY <1>0, <2>3, <2>4, FS_EmptySet
<1> QED
  BY <1>0, <1>2, LeastIsMin

(* Rows come in the order of their hours, none of them ahead of the clock. *)
Ordered ==
  /\ Len(hours) <= MaxRow
  /\ \A i \in DOMAIN hours : hours[i] <= now
  /\ \A i, j \in DOMAIN hours : i <= j => hours[i] <= hours[j]

IsRead(c) ==
  c \in [stage : {c.stage}, cursor : {c.cursor}, hotPage : {c.hotPage}, listed : {c.listed},
         unread : {c.unread}, opened : {c.opened}, again : {c.again}, found : {c.found},
         owed : {c.owed}, partial : {c.partial}, crowded : {c.crowded}]

WantedBy(c, r) ==
  /\ r < c.cursor
  /\ Cardinality(c.hotPage) > Limit => r >= Min(c.hotPage)

(* A row a read c will return: its page has it, or has as much before it,  *)
(* or it is in one of the files fs the read still goes through.            *)
Coming(c, r, fs) ==
  \/ Found(r, c.hotPage \cup c.found)
  \/ WantedBy(c, r) /\ r \notin hot /\ \E f \in fs : r \in f.rows

RowsOf(c) == c.owed \cup c.hotPage \cup c.found

Dated(f) == WellFormed(f) /\ f.hour \in 0 .. now

(* The hour a read is at: the files before it are still listed, what it    *)
(* found is of later ones.                                                 *)
AtHour(c, h) ==
  /\ \A f \in c.listed \cup c.unread \cup c.opened : Dated(f)
  /\ \A f \in c.unread \cup c.opened : f.hour = h
  /\ \A f \in c.listed : f.hour < h
  /\ \A x \in c.found : h < Hour(x)

Kept(c, r) ==
  /\ c.stage = "hot" => r < c.cursor
  /\ c.stage = "list" => Found(r, c.hotPage) \/ (WantedBy(c, r) /\ r \notin hot)
  /\ c.stage = "read" => Coming(c, r, c.listed \cup c.unread \cup c.opened)
  /\ c.stage = "done" => c.partial \/ c.crowded

ReadOK(c) ==
  /\ IsRead(c)
  /\ RowsOf(c) \subseteq DOMAIN hours
  /\ c.stage = "idle" => c.cursor = MaxRow + 1
  /\ c.stage \in {"idle", "hot", "list"} => c.found = {}
  /\ c.stage = "read" => c.unread # {} /\ \E h \in 0 .. now : AtHour(c, h)
  /\ \A r \in c.owed : ~Expired(Hour(r)) => Kept(c, r)

RInv == Ordered /\ ReadOK(reader)

LEMMA ReadInit == Init => RInv
  BY ColdAssumption DEF Init, RInv, Ordered, ReadOK, NoRead, IsRead, RowsOf

(* One field of a read.                                                    *)
LEMMA SetStage ==
  ASSUME NEW c, IsRead(c), NEW v, NEW d, d = [c EXCEPT !.stage = v]
  PROVE  /\ IsRead(d) /\ d.stage = v
         /\ d.cursor = c.cursor /\ d.hotPage = c.hotPage /\ d.listed = c.listed
         /\ d.unread = c.unread /\ d.opened = c.opened /\ d.again = c.again
         /\ d.found = c.found /\ d.owed = c.owed /\ d.partial = c.partial
         /\ d.crowded = c.crowded
  BY DEF IsRead

LEMMA SetListed ==
  ASSUME NEW c, IsRead(c), NEW v, NEW d, d = [c EXCEPT !.listed = v]
  PROVE  /\ IsRead(d) /\ d.listed = v
         /\ d.cursor = c.cursor /\ d.hotPage = c.hotPage /\ d.found = c.found /\ d.owed = c.owed
  BY DEF IsRead

LEMMA SetFound ==
  ASSUME NEW c, IsRead(c), NEW v, NEW d, d = [c EXCEPT !.found = v]
  PROVE  /\ IsRead(d) /\ d.found = v
         /\ d.cursor = c.cursor /\ d.hotPage = c.hotPage /\ d.listed = c.listed
         /\ d.owed = c.owed
  BY DEF IsRead

(* A read that begins anew, or is over.                                    *)
LEMMA SetOwed ==
  ASSUME NEW v, NEW d, d = [NoRead EXCEPT !.owed = v]
  PROVE  /\ IsRead(d) /\ d.owed = v /\ d.hotPage = {} /\ d.found = {}
  BY DEF NoRead, IsRead

LEMMA SetCursor ==
  ASSUME NEW c, IsRead(c), NEW v, NEW d, d = [c EXCEPT !.cursor = v]
  PROVE  /\ IsRead(d) /\ d.cursor = v /\ d.owed = c.owed /\ d.hotPage = c.hotPage /\ d.found = c.found
  BY DEF IsRead

(* Steps of anyone but the reader.                                         *)
LEMMA ReadWaits ==
  ASSUME IInv, ReadOK(reader), reader' = reader,
         now' \in Nat, now' >= now,
         hours' \in Seq(Nat), Len(hours') >= Len(hours),
         \A r \in DOMAIN hours : hours'[r] = hours[r],
         \A r \in DOMAIN hours : r \notin hot => r \notin hot'
  PROVE  ReadOK(reader)'
<1> DEFINE c == reader
<1>1. DOMAIN hours \subseteq DOMAIN hours' /\ \A r \in DOMAIN hours : Hour(r)' = Hour(r) /\ Hour(r) \in Nat
  BY DEF IInv, Hour
<1>2. \A f : Dated(f) => Dated(f)'
  BY <1>1 DEF Dated, WellFormed, IInv
<1>3. \A r \in DOMAIN hours : Expired(Hour(r)) => Expired(Hour(r))'
  BY <1>1, ColdAssumption DEF IInv, Expired
<1>4. ASSUME NEW h \in 0 .. now, AtHour(c, h), c.found \subseteq DOMAIN hours
      PROVE  h \in 0 .. now' /\ AtHour(reader, h)'
  BY <1>1, <1>2, <1>4 DEF AtHour, IInv
<1>5. ASSUME NEW r \in DOMAIN hours, Kept(c, r)
      PROVE  Kept(reader, r)'
  BY <1>5 DEF Kept, Coming, WantedBy
<1>6. IsRead(reader)' /\ RowsOf(reader)' = RowsOf(c)
  BY DEF ReadOK, IsRead, RowsOf
<1>7. reader'.stage = "read" => \E h \in 0 .. now' : AtHour(reader, h)'
  BY <1>4 DEF ReadOK, RowsOf
<1>8. ASSUME NEW r \in reader'.owed, ~Expired(Hour(r))' PROVE Kept(reader, r)'
  BY <1>3, <1>5, <1>8 DEF ReadOK, RowsOf
<1> QED
  BY <1>1, <1>6, <1>7, <1>8 DEF ReadOK

(* A step of the reader leaves the rest as it is.                          *)
LEMMA ReadMoves ==
  ASSUME UNCHANGED readUnchanged, NEW d, d = reader', ReadOK(d)
  PROVE  ReadOK(reader)'
<1>1. \A x : Hour(x)' = Hour(x) /\ Expired(x)' = Expired(x)
  BY DEF readUnchanged, Hour, Expired
<1>2. \A f : Dated(f)' = Dated(f)
  BY <1>1 DEF readUnchanged, Dated, WellFormed
<1>3. \A h : AtHour(d, h) => AtHour(reader, h)'
  BY <1>1, <1>2 DEF AtHour
<1>4. \A r : Kept(d, r) => Kept(reader, r)'
  BY DEF readUnchanged, Kept, Coming, WantedBy
<1>5. IsRead(reader)' /\ RowsOf(reader)' = RowsOf(d)
  BY DEF ReadOK, IsRead, RowsOf
<1>6. UNCHANGED <<now, hours>>
  BY DEF readUnchanged
<1>7. reader'.stage = "read" => reader'.unread # {} /\ \E h \in 0 .. now' : AtHour(reader, h)'
  BY <1>3, <1>6 DEF ReadOK
<1>8. ASSUME NEW r \in reader'.owed, ~Expired(Hour(r))' PROVE Kept(reader, r)'
  <2>1. Expired(Hour(r))' = Expired(Hour(r))
    BY <1>6 DEF Expired, Hour
  <2> QED
    BY <1>4, <1>8, <2>1 DEF ReadOK
<1> QED
  BY <1>5, <1>6, <1>7, <1>8 DEF ReadOK

(* A read about to scan what is listed, or to make its page.               *)
ScanReady(c) ==
  /\ IsRead(c)
  /\ RowsOf(c) \subseteq DOMAIN hours
  /\ \A f \in c.listed : Dated(f) /\ \A x \in c.found : f.hour < Hour(x)
  /\ \A r \in c.owed : ~Expired(Hour(r)) => Coming(c, r, c.listed)

(* A row whose hour is before that of more rows than a page holds is found.*)
LEMMA FoundEarlier ==
  ASSUME IInv, Ordered, NEW S \in SUBSET DOMAIN hours, Cardinality(S) > Limit,
         NEW r \in DOMAIN hours, \A x \in S : Hour(r) < Hour(x)
  PROVE  Found(r, S)
<1>1. ASSUME NEW x \in S PROVE x > r
  <2>1. /\ x \in Nat /\ r \in Nat /\ hours[x] \in Nat /\ hours[r] \in Nat
        /\ hours[r] < hours[x]
    BY DEF IInv, Hour
  <2>2. x <= r => hours[x] <= hours[r]
    BY DEF Ordered
  <2> QED
    BY <2>1, <2>2
<1>2. NewerRows(S, r) = S
  BY <1>1 DEF NewerRows
<1> QED
  BY <1>2 DEF Found

(* The page is made: a row still due is behind its cursor.                 *)
LEMMA MakePageStep ==
  ASSUME IInv, Ordered, NEW c, ScanReady(c), c.listed = {} \/ Cardinality(c.found) > Limit,
         MakePage(c), UNCHANGED readUnchanged
  PROVE  ReadOK(reader)'
<1> DEFINE k == Len(hours)
           merged == c.hotPage \cup Newest(c.found, Limit + 1)
           data == Newest(merged, Limit)
           after == [NoRead EXCEPT !.owed = c.owed \ data]
           hotter == [after EXCEPT !.cursor = Min(data)]
<1>1. /\ k \in Nat /\ DOMAIN hours = 1 .. k
      /\ c.hotPage \in SUBSET (1 .. k) /\ c.found \in SUBSET (1 .. k)
      /\ c.owed \in SUBSET (1 .. k) /\ merged \in SUBSET (1 .. k)
  <2>1. k \in Nat /\ DOMAIN hours = 1 .. k
    BY DEF IInv
  <2> QED
    BY <2>1 DEF ScanReady, RowsOf, Newest
<1>2. ASSUME NEW r \in c.owed, ~Expired(Hour(r))
      PROVE  Found(r, c.hotPage \cup c.found)
  <2>1. SUFFICES ASSUME WantedBy(c, r), NEW f \in c.listed, r \in f.rows
                 PROVE  Found(r, c.hotPage \cup c.found)
    BY <1>2 DEF ScanReady, Coming
  <2>2. Cardinality(c.found) > Limit
    BY <2>1
  <2>3. Hour(r) = f.hour /\ \A x \in c.found : f.hour < Hour(x)
    BY <2>1 DEF ScanReady, Dated, WellFormed
  <2>4. Found(r, c.found)
    BY <1>1, <2>2, <2>3, FoundEarlier
  <2>5. c.hotPage \cup c.found \in SUBSET (1 .. k)
    BY <1>1
  <2> QED
    BY <1>1, <2>4, <2>5, FoundGrows
<1>3. ASSUME NEW r \in c.owed, ~Expired(Hour(r)), r \notin data
      PROVE  Cardinality(merged) > Limit /\ \A d \in data : r < d
  <2>1. Found(r, merged)
    BY <1>1, <1>2, <1>3, NewestFinds
  <2> HIDE DEF merged
  <2> QED
    BY <1>1, <1>3, <2>1, PageFinds
<1>4. /\ IsRead(after) /\ after.owed = c.owed \ data /\ after.hotPage = {} /\ after.found = {}
  BY SetOwed
<1>5. after.owed \subseteq DOMAIN hours
  BY <1>1, <1>4
<1>6. CASE Cardinality(merged) > Limit
  <2>1. reader' = [hotter EXCEPT !.stage = "hot"]
    BY <1>6 DEF MakePage, Reading
  <2>2. Min(data) \in data
    <3> HIDE DEF merged
    <3> QED
      BY <1>1, <1>6, PageReturns
  <2>3. \A r \in after.owed : ~Expired(Hour(r)) => r < Min(data)
    BY <1>3, <1>4, <2>2
  <2> HIDE DEF data, after
  <2>4. /\ IsRead(hotter) /\ hotter.cursor = Min(data) /\ hotter.owed = after.owed
        /\ hotter.hotPage = {} /\ hotter.found = {}
    BY <1>4, SetCursor
  <2> HIDE DEF hotter
  <2>5. PICK d : d = reader' /\ d = [hotter EXCEPT !.stage = "hot"]
    BY <2>1
  <2>6. /\ IsRead(d) /\ d.stage = "hot" /\ d.cursor = Min(data) /\ d.owed = after.owed
        /\ d.hotPage = {} /\ d.found = {}
    BY <2>4, <2>5, SetStage
  <2>7. ReadOK(d)
    BY <1>5, <2>3, <2>6 DEF ReadOK, RowsOf, Kept
  <2> QED
    BY <2>5, <2>7, ReadMoves
<1>7. CASE ~(Cardinality(merged) > Limit)
  <2>1. reader' = [after EXCEPT !.stage = "done"]
    BY <1>7 DEF MakePage, Reading
  <2>2. \A r \in after.owed : Expired(Hour(r))
    BY <1>3, <1>4, <1>7
  <2> HIDE DEF data, after
  <2>3. PICK d : d = reader' /\ d = [after EXCEPT !.stage = "done"]
    BY <2>1
  <2>4. /\ IsRead(d) /\ d.stage = "done" /\ d.owed = after.owed
        /\ d.hotPage = {} /\ d.found = {}
    BY <1>4, <2>3, SetStage
  <2>5. ReadOK(d)
    BY <1>5, <2>2, <2>4 DEF ReadOK, RowsOf
  <2> QED
    BY <2>3, <2>5, ReadMoves
<1> QED
  BY <1>6, <1>7

(* The newest hour listed is opened next, or the page is made.             *)
LEMMA ScanStep ==
  ASSUME IInv, Ordered, NEW c, ScanReady(c), Scan(c), UNCHANGED readUnchanged
  PROVE  ReadOK(reader)'
<1>1. CASE c.listed = {} \/ Cardinality(c.found) > Limit
  BY <1>1, MakePageStep DEF Scan
<1>2. CASE ~(c.listed = {} \/ Cardinality(c.found) > Limit)
  <2> DEFINE dates == {g.hour : g \in c.listed}
             h == Max(dates)
             fs == {f \in c.listed : f.hour = h}
             c1 == [c EXCEPT !.listed = c.listed \ fs, !.unread = fs,
                             !.opened = {}, !.again = FALSE]
  <2>1. reader' = [c1 EXCEPT !.stage = "read"]
    BY <1>2 DEF Scan, Reading
  <2>2. h \in dates /\ \A y \in dates : h >= y
    <3>1. now \in Nat
      BY DEF IInv
    <3>2. dates \in SUBSET (0 .. now) /\ dates # {}
      BY <1>2 DEF ScanReady, Dated
    <3> HIDE DEF dates
    <3> QED
      BY <3>1, <3>2, GreatestOf
  <2>3. h \in 0 .. now /\ fs # {} /\ \A f \in c.listed \ fs : f.hour < h
    <3>1. \A f \in c.listed : f.hour \in 0 .. now
      BY DEF ScanReady, Dated
    <3>2. \E f \in c.listed : f.hour = h
      BY <2>2
    <3>3. \A f \in c.listed : f.hour <= h
      BY <2>2, <3>1, <3>2
    <3> HIDE DEF h
    <3> QED
      BY <3>1, <3>2, <3>3
  <2> HIDE DEF h
  <2>4. IsRead(c)
    BY DEF ScanReady
  <2>5. /\ IsRead(c1) /\ c1.listed = c.listed \ fs /\ c1.unread = fs /\ c1.opened = {}
        /\ c1.cursor = c.cursor /\ c1.hotPage = c.hotPage /\ c1.found = c.found
        /\ c1.owed = c.owed
    <3> HIDE DEF fs
    <3> QED
      BY <2>4 DEF IsRead
  <2> HIDE DEF c1
  <2>6. PICK d : d = reader' /\ d = [c1 EXCEPT !.stage = "read"]
    BY <2>1
  <2>7. /\ IsRead(d) /\ d.stage = "read" /\ d.listed = c.listed \ fs /\ d.unread = fs
        /\ d.opened = {} /\ d.cursor = c.cursor /\ d.hotPage = c.hotPage
        /\ d.found = c.found /\ d.owed = c.owed
    BY <2>5, <2>6, SetStage
  <2>8. AtHour(d, h)
    <3>1. \A f \in fs : f \in c.listed /\ f.hour = h
      OBVIOUS
    <3>2. \A x \in c.found : h < Hour(x)
      BY <2>3, <3>1 DEF ScanReady
    <3> HIDE DEF fs
    <3> QED
      BY <2>3, <2>7, <3>1, <3>2 DEF AtHour, ScanReady
  <2>9. ASSUME NEW r \in d.owed, ~Expired(Hour(r)) PROVE Kept(d, r)
    <3>1. Coming(c, r, c.listed)
      BY <2>7, <2>9 DEF ScanReady
    <3>2. c.listed = d.listed \cup d.unread \cup d.opened
      BY <2>7
    <3> HIDE DEF fs
    <3> QED
      BY <2>7, <3>1, <3>2 DEF Kept, Coming, WantedBy
  <2>10. RowsOf(d) \subseteq DOMAIN hours
    BY <2>7 DEF RowsOf, ScanReady
  <2> HIDE DEF fs
  <2>11. ReadOK(d)
    BY <2>3, <2>7, <2>8, <2>9, <2>10 DEF ReadOK
  <2> QED
    BY <2>6, <2>11, ReadMoves
<1> QED
  BY <1>1, <1>2

(* A read between two files of the hour h.                                 *)
OpenReady(c, h) ==
  /\ IsRead(c) /\ c.cursor = reader.cursor /\ c.hotPage = reader.hotPage
  /\ RowsOf(c) \subseteq DOMAIN hours
  /\ h \in 0 .. now /\ AtHour(c, h)
  /\ \A r \in c.owed : ~Expired(Hour(r)) =>
       Coming(c, r, c.listed \cup c.unread \cup c.opened)

(* The hour is read: its newest rows are among those found.                *)
LEMMA HourReadStep ==
  ASSUME IInv, Ordered, NEW c, NEW h, OpenReady(c, h), c.unread = {}, ~CopiesCrowd(c.opened),
         Scan([c EXCEPT !.found = @ \cup EngineRead(c.opened)]), UNCHANGED readUnchanged
  PROVE  ReadOK(reader)'
<1> DEFINE k == Len(hours)
           W == {x \in RowsIn(c.opened) : Wanted(x)}
           N == Newest(W, Limit + 1)
           found == c.found \cup N
<1>1. EngineRead(c.opened) = N
  BY DEF CopiesCrowd
<1>2. PICK d : d = [c EXCEPT !.found = found]
  OBVIOUS
<1>3. Scan(d)
  BY <1>1, <1>2
<1>4. /\ IsRead(d) /\ d.found = found /\ d.cursor = c.cursor /\ d.hotPage = c.hotPage
      /\ d.listed = c.listed /\ d.owed = c.owed
  <2> HIDE DEF found
  <2> QED
    BY <1>2, SetFound DEF OpenReady
<1>5. \A x \in W : x \in DOMAIN hours /\ Hour(x) = h
  BY DEF RowsIn, OpenReady, AtHour, Dated, WellFormed
<1>6. /\ k \in Nat /\ DOMAIN hours = 1 .. k /\ W \in SUBSET (1 .. k) /\ N \in SUBSET (1 .. k)
      /\ N \subseteq W /\ c.hotPage \in SUBSET (1 .. k) /\ c.found \in SUBSET (1 .. k)
      /\ c.owed \in SUBSET (1 .. k)
  <2>1. k \in Nat /\ DOMAIN hours = 1 .. k
    BY DEF IInv
  <2>2. N \subseteq W
    BY DEF Newest
  <2> HIDE DEF W, N
  <2> QED
    BY <1>5, <2>1, <2>2 DEF OpenReady, RowsOf
<1> HIDE DEF N
<1>7. RowsOf(d) \subseteq DOMAIN hours
  BY <1>4, <1>6 DEF RowsOf
<1>8. ASSUME NEW f \in d.listed PROVE Dated(f) /\ \A x \in d.found : f.hour < Hour(x)
  <2>1. Dated(f) /\ f.hour \in Nat /\ h \in Nat /\ f.hour < h
    BY <1>4, <1>8 DEF OpenReady, AtHour, Dated, IInv
  <2>2. ASSUME NEW x \in d.found PROVE f.hour < Hour(x)
    <3>1. CASE x \in c.found
      <4>1. h < Hour(x) /\ Hour(x) \in Nat
        BY <1>6, <3>1 DEF OpenReady, AtHour, IInv, Hour
      <4> QED
        BY <2>1, <4>1
    <3>2. CASE x \in N
      <4>1. Hour(x) = h
        BY <1>5, <1>6, <3>2
      <4> QED
        BY <2>1, <4>1
    <3> QED
      BY <1>4, <2>2, <3>1, <3>2
  <2> QED
    BY <2>1, <2>2
<1>9. ASSUME NEW r \in d.owed, ~Expired(Hour(r)) PROVE Coming(d, r, d.listed)
  <2>0. r \in 1 .. k /\ d.hotPage \cup d.found \in SUBSET (1 .. k)
    BY <1>4, <1>6, <1>9
  <2>1. Coming(c, r, c.listed \cup c.opened)
    BY <1>4, <1>9 DEF OpenReady
  <2>2. CASE Found(r, c.hotPage \cup c.found)
    <3>1. c.hotPage \cup c.found \subseteq d.hotPage \cup d.found
      BY <1>4
    <3>2. c.hotPage \cup c.found \in SUBSET (1 .. k)
      BY <1>6
    <3>3. Found(r, d.hotPage \cup d.found)
      BY <1>6, <2>0, <2>2, <3>1, <3>2, FoundGrows
    <3> QED
      BY <3>3 DEF Coming
  <2>3. ASSUME WantedBy(c, r), r \notin hot, NEW f \in c.listed, r \in f.rows
        PROVE  Coming(d, r, d.listed)
    BY <1>4, <2>3 DEF Coming, WantedBy
  <2>4. ASSUME WantedBy(c, r), NEW f \in c.opened, r \in f.rows
        PROVE  Coming(d, r, d.listed)
    <3>1. r \in W
      BY <2>4 DEF RowsIn, Wanted, WantedBy, OpenReady
    <3>2. Found(r, {} \cup W)
      BY <3>1 DEF Found
    <3> HIDE DEF W
    <3>3. Found(r, {} \cup N)
      BY <1>6, <2>0, <3>2, NewestFinds DEF N
    <3>4. {} \cup N \subseteq d.hotPage \cup d.found /\ {} \cup N \in SUBSET (1 .. k)
      BY <1>4, <1>6
    <3>5. Found(r, d.hotPage \cup d.found)
      BY <1>6, <2>0, <3>3, <3>4, FoundGrows
    <3> QED
      BY <3>5 DEF Coming
  <2> QED
    BY <2>1, <2>2, <2>3, <2>4 DEF Coming
<1>10. ScanReady(d)
  BY <1>4, <1>7, <1>8, <1>9 DEF ScanReady
<1> QED
  BY <1>3, <1>10, ScanStep

LEMMA OpenedStep ==
  ASSUME IInv, Ordered, NEW c, NEW h, OpenReady(c, h), Opened(c), UNCHANGED readUnchanged
  PROVE  ReadOK(reader)'
<1>1. CASE c.unread # {}
  <2>1. PICK d : d = reader' /\ d = [c EXCEPT !.stage = "read"]
    BY <1>1 DEF Opened, Reading
  <2>2. /\ IsRead(d) /\ d.stage = "read" /\ d.listed = c.listed /\ d.unread = c.unread
        /\ d.opened = c.opened /\ d.cursor = c.cursor /\ d.hotPage = c.hotPage
        /\ d.found = c.found /\ d.owed = c.owed
    BY <2>1, SetStage DEF OpenReady
  <2>3. RowsOf(d) \subseteq DOMAIN hours /\ AtHour(d, h) /\ h \in 0 .. now
    BY <2>2 DEF OpenReady, RowsOf, AtHour
  <2>4. \A r \in d.owed : ~Expired(Hour(r)) => Kept(d, r)
    BY <2>2 DEF OpenReady, Kept, Coming, WantedBy
  <2>5. ReadOK(d)
    BY <1>1, <2>2, <2>3, <2>4 DEF ReadOK
  <2> QED
    BY <2>1, <2>5, ReadMoves
<1>2. CASE c.unread = {} /\ CopiesCrowd(c.opened)
  <2> DEFINE e == [NoRead EXCEPT !.owed = c.owed, !.crowded = TRUE]
  <2>1. PICK d : d = reader' /\ d = [e EXCEPT !.stage = "done"]
    BY <1>2 DEF Opened, Reading
  <2>2. /\ IsRead(e) /\ e.owed = c.owed /\ e.hotPage = {} /\ e.found = {} /\ e.crowded
    BY DEF NoRead, IsRead
  <2> HIDE DEF e
  <2>3. /\ IsRead(d) /\ d.stage = "done" /\ d.owed = c.owed /\ d.hotPage = {} /\ d.found = {}
        /\ d.crowded
    BY <2>1, <2>2, SetStage
  <2>4. ReadOK(d)
    BY <2>3 DEF ReadOK, RowsOf, Kept, OpenReady
  <2> QED
    BY <2>1, <2>4, ReadMoves
<1>3. CASE c.unread = {} /\ ~CopiesCrowd(c.opened)
  BY <1>3, HourReadStep DEF Opened
<1> QED
  BY <1>1, <1>2, <1>3

(* What is cut off the hot page is behind a full page; what a full page    *)
(* does not want is too.                                                   *)
LEMMA ReadHotStep ==
  ASSUME IInv, RInv, ReadHot
  PROVE  ReadOK(reader)'
<1> DEFINE k == Len(hours)
           B == Below(hot, reader.cursor)
           page == Newest(B, Limit + 1)
           owed == IF reader.stage = "idle" THEN hot \cup RowsIn(files) ELSE reader.owed
           c == [reader EXCEPT !.hotPage = page, !.owed = owed]
<1>1. PICK d : d = reader' /\ d = [c EXCEPT !.stage = "list"]
  BY DEF ReadHot, Reading
<1>2. UNCHANGED readUnchanged /\ reader.stage \in {"idle", "hot"}
  BY DEF ReadHot
<1>3. k \in Nat /\ DOMAIN hours = 1 .. k /\ k <= MaxRow /\ MaxRow \in Nat /\ Limit \in Nat
  BY ColdAssumption DEF IInv, RInv, Ordered
<1>4. owed \subseteq 1 .. k
  BY <1>3 DEF IInv, RowsIn, WellFormed, RInv, ReadOK, RowsOf
<1>5. B \in SUBSET (1 .. k) /\ page \in SUBSET (1 .. k) /\ {} \cup page = page /\ {} \cup B = B
  BY <1>3 DEF IInv, Below, Newest
<1>6. ASSUME NEW r \in owed, ~Expired(Hour(r)) PROVE r < reader.cursor
  <2>1. CASE reader.stage = "idle"
    <3>1. r \in Nat /\ r <= MaxRow
      BY <1>3, <1>4
    <3>2. reader.cursor = MaxRow + 1
      BY <2>1 DEF RInv, ReadOK
    <3> QED
      BY <1>3, <3>1, <3>2
  <2>2. CASE reader.stage = "hot"
    <3>1. r \in reader.owed
      BY <2>2
    <3> QED
      BY <1>6, <2>2, <3>1 DEF RInv, ReadOK, Kept
  <2> QED
    BY <1>2, <2>1, <2>2
<1> HIDE DEF owed, page
<1>7. IsRead(reader) /\ reader.found = {}
  BY <1>2 DEF RInv, ReadOK
<1>8. IsRead(c) /\ c.hotPage = page /\ c.owed = owed /\ c.cursor = reader.cursor /\ c.found = {}
  BY <1>7 DEF IsRead
<1> HIDE DEF c
<1>9. /\ IsRead(d) /\ d.stage = "list" /\ d.hotPage = page /\ d.owed = owed
      /\ d.cursor = reader.cursor /\ d.found = {}
  BY <1>1, <1>8, SetStage
<1>10. ASSUME NEW r \in owed, ~Expired(Hour(r)) PROVE Kept(d, r)
  <2>0. r \in 1 .. k /\ r < reader.cursor
    BY <1>4, <1>6, <1>10
  <2>1. CASE r \in hot
    <3>1. Found(r, {} \cup B)
      BY <2>0, <2>1 DEF Below, Found
    <3>2. Found(r, {} \cup page)
      <4> HIDE DEF B
      <4> QED
        BY <1>3, <1>5, <2>0, <3>1, NewestFinds DEF page
    <3> QED
      BY <1>5, <1>9, <3>2 DEF Kept
  <2>2. CASE r \notin hot /\ ~WantedBy(d, r)
    <3>1. Cardinality(page) > Limit /\ ~(r >= Min(page))
      BY <1>9, <2>0, <2>2 DEF WantedBy
    <3>2. page # {}
      BY <1>3, <3>1, FS_EmptySet
    <3>3. page \in SUBSET Nat
      BY <1>5
    <3>4. Min(page) \in page /\ \A y \in page : Min(page) <= y
      BY <3>2, <3>3, LeastIsMin
    <3>5. r \in Nat /\ Min(page) \in Nat
      <4>1. r \in Nat
        BY <2>0
      <4> HIDE DEF B
      <4>2. Min(page) \in Nat
        BY <3>3, <3>4
      <4> QED
        BY <4>1, <4>2
    <3>6. NewerRows(page, r) = page
      <4>1. \A y \in page : y > r
        BY <3>1, <3>3, <3>4, <3>5
      <4> QED
        BY <4>1 DEF NewerRows
    <3> QED
      BY <1>9, <3>1, <3>6 DEF Kept, Found
  <2> QED
    BY <1>9, <2>1, <2>2 DEF Kept
<1>11. ReadOK(d)
  BY <1>3, <1>4, <1>5, <1>9, <1>10 DEF ReadOK, RowsOf
<1> QED
  BY <1>1, <1>2, <1>11, ReadMoves

(* A row that is not hot, and not expired, is in a file.                   *)
LEMMA ColdRow ==
  ASSUME IInv, NEW r \in DOMAIN hours, r \notin hot, ~Expired(Hour(r))
  PROVE  \E f \in files : r \in f.rows /\ f.hour = Hour(r)
  BY DEF IInv, Safe, WellFormed

LEMMA ListDayStep ==
  ASSUME IInv, RInv, ListDay
  PROVE  ReadOK(reader)'
<1> DEFINE listed == {f \in files : MayHold(f.hour)}
<1>1. PICK d : d = [reader EXCEPT !.listed = listed]
  OBVIOUS
<1>2. Scan(d) /\ UNCHANGED readUnchanged /\ reader.stage = "list"
  BY <1>1 DEF ListDay
<1>3. /\ IsRead(reader) /\ RowsOf(reader) \subseteq DOMAIN hours /\ reader.found = {}
      /\ \A r \in reader.owed : ~Expired(Hour(r)) => Kept(reader, r)
  BY <1>2 DEF RInv, ReadOK
<1>4. \A f \in listed : Dated(f)
  <2> TAKE f \in listed
  <2>1. PICK r \in DOMAIN hours : f.hour = hours[r]
    BY DEF MayHold, Hour
  <2>2. hours[r] \in Nat /\ hours[r] <= now /\ now \in Nat
    BY DEF IInv, RInv, Ordered
  <2>3. WellFormed(f)
    BY DEF IInv
  <2> QED
    BY <2>1, <2>2, <2>3 DEF Dated
<1>5. /\ IsRead(d) /\ d.listed = listed /\ d.cursor = reader.cursor
      /\ d.hotPage = reader.hotPage /\ d.found = {} /\ d.owed = reader.owed
  <2> HIDE DEF listed
  <2> QED
    BY <1>1, <1>3, SetListed
<1>6. ASSUME NEW r \in d.owed, ~Expired(Hour(r)) PROVE Coming(d, r, d.listed)
  <2>0. r \in DOMAIN hours /\ Kept(reader, r)
    BY <1>3, <1>5, <1>6 DEF RowsOf
  <2>1. CASE Found(r, reader.hotPage)
    <3>1. d.hotPage \cup d.found = reader.hotPage
      BY <1>5
    <3> QED
      BY <2>1, <3>1 DEF Coming
  <2>2. CASE WantedBy(reader, r) /\ r \notin hot
    <3>1. PICK f \in files : r \in f.rows /\ f.hour = Hour(r)
      BY <1>6, <2>0, <2>2, ColdRow
    <3>2. f \in listed
      BY <2>0, <2>2, <3>1 DEF MayHold, Wanted, WantedBy
    <3> QED
      BY <1>5, <2>2, <3>1, <3>2 DEF Coming, WantedBy
  <2> QED
    BY <1>2, <2>0, <2>1, <2>2 DEF Kept
<1>7. ScanReady(d)
  BY <1>3, <1>4, <1>5, <1>6 DEF ScanReady, RowsOf
<1> QED
  BY <1>2, <1>7, ScanStep DEF RInv

(* A file that is gone: the hour's new listing has the rows it had.        *)
LEMMA OpenFileStep ==
  ASSUME IInv, RInv, OpenFile
  PROVE  ReadOK(reader)'
<1> DEFINE f == First(reader.unread)
<1>1. /\ reader.stage = "read" /\ UNCHANGED readUnchanged
      /\ IsRead(reader) /\ RowsOf(reader) \subseteq DOMAIN hours /\ reader.unread # {}
      /\ \A r \in reader.owed : ~Expired(Hour(r)) =>
           Coming(reader, r, reader.listed \cup reader.unread \cup reader.opened)
  BY DEF OpenFile, RInv, ReadOK, Kept
<1>2. PICK h \in 0 .. now : AtHour(reader, h)
  BY <1>1 DEF RInv, ReadOK
<1>3. f \in reader.unread /\ f.hour = h
  <2>1. f \in reader.unread
    BY <1>1 DEF First
  <2> QED
    BY <1>2, <2>1 DEF AtHour
<1>4. CASE f \in files
  <2>1. PICK c : c = [reader EXCEPT !.unread = reader.unread \ {f},
                                    !.opened = reader.opened \cup {f}]
    OBVIOUS
  <2>2. Opened(c)
    BY <1>4, <2>1 DEF OpenFile
  <2> HIDE DEF f
  <2>3. /\ IsRead(c) /\ c.unread = reader.unread \ {f} /\ c.opened = reader.opened \cup {f}
        /\ c.listed = reader.listed /\ c.cursor = reader.cursor
        /\ c.hotPage = reader.hotPage /\ c.found = reader.found /\ c.owed = reader.owed
    BY <1>1, <2>1 DEF IsRead
  <2>4. c.unread \cup c.opened = reader.unread \cup reader.opened
    BY <1>3, <2>3
  <2>5. AtHour(c, h)
    BY <1>2, <2>3, <2>4 DEF AtHour
  <2>6. ASSUME NEW r \in c.owed, ~Expired(Hour(r))
        PROVE  Coming(c, r, c.listed \cup c.unread \cup c.opened)
    <3>1. Coming(reader, r, reader.listed \cup reader.unread \cup reader.opened)
      BY <1>1, <2>3, <2>6
    <3>2. c.listed \cup c.unread \cup c.opened
            = reader.listed \cup reader.unread \cup reader.opened
      BY <2>3, <2>4
    <3> QED
      BY <2>3, <3>1, <3>2 DEF Coming, WantedBy
  <2>7. OpenReady(c, h)
    BY <1>1, <2>3, <2>5, <2>6 DEF OpenReady, RowsOf
  <2> QED
    BY <1>1, <2>2, <2>7, OpenedStep DEF RInv
<1>5. CASE f \notin files /\ ~reader.again
  <2> DEFINE un == {g \in files : g.hour = f.hour}
  <2>1. PICK c : c = [reader EXCEPT !.unread = un, !.opened = {}, !.again = TRUE]
    OBVIOUS
  <2>2. Opened(c)
    BY <1>5, <2>1 DEF OpenFile
  <2>3. \A g \in un : Dated(g) /\ g.hour = h
    BY <1>2, <1>3 DEF IInv, Dated
  <2>4. \A g \in files : g.hour = h => g \in un
    BY <1>3
  <2> HIDE DEF f, un
  <2>5. /\ IsRead(c) /\ c.unread = un /\ c.opened = {}
        /\ c.listed = reader.listed /\ c.cursor = reader.cursor
        /\ c.hotPage = reader.hotPage /\ c.found = reader.found /\ c.owed = reader.owed
    BY <1>1, <2>1 DEF IsRead
  <2>6. AtHour(c, h)
    BY <1>2, <2>3, <2>5 DEF AtHour
  <2>7. ASSUME NEW r \in c.owed, ~Expired(Hour(r))
        PROVE  Coming(c, r, c.listed \cup c.unread \cup c.opened)
    <3>1. Coming(reader, r, reader.listed \cup reader.unread \cup reader.opened)
          /\ r \in DOMAIN hours
      BY <1>1, <2>5, <2>7 DEF RowsOf
    <3>2. CASE Found(r, reader.hotPage \cup reader.found)
      BY <2>5, <3>2 DEF Coming
    <3>3. ASSUME WantedBy(reader, r), r \notin hot, NEW g \in reader.listed, r \in g.rows
          PROVE  Coming(c, r, c.listed \cup c.unread \cup c.opened)
      BY <2>5, <3>3 DEF Coming, WantedBy
    <3>4. ASSUME WantedBy(reader, r), r \notin hot,
                 NEW g \in reader.unread \cup reader.opened, r \in g.rows
          PROVE  Coming(c, r, c.listed \cup c.unread \cup c.opened)
      <4>1. Hour(r) = h
        BY <1>2, <3>4 DEF AtHour, Dated, WellFormed
      <4>2. PICK e \in files : r \in e.rows /\ e.hour = Hour(r)
        BY <2>7, <3>1, <3>4, ColdRow
      <4>3. e \in c.unread
        BY <2>4, <2>5, <4>1, <4>2
      <4> QED
        BY <2>5, <3>4, <4>2, <4>3 DEF Coming, WantedBy
    <3> QED
      BY <3>1, <3>2, <3>3, <3>4 DEF Coming
  <2>8. OpenReady(c, h)
    BY <1>1, <2>5, <2>6, <2>7 DEF OpenReady, RowsOf
  <2> QED
    BY <1>1, <2>2, <2>8, OpenedStep DEF RInv
<1>6. CASE f \notin files /\ reader.again
  <2> DEFINE e == [NoRead EXCEPT !.owed = reader.owed, !.partial = TRUE]
  <2>1. PICK d : d = reader' /\ d = [e EXCEPT !.stage = "done"]
    BY <1>6 DEF OpenFile, Reading
  <2>2. /\ IsRead(e) /\ e.owed = reader.owed /\ e.hotPage = {} /\ e.found = {} /\ e.partial
    BY DEF NoRead, IsRead
  <2> HIDE DEF e
  <2>3. /\ IsRead(d) /\ d.stage = "done" /\ d.owed = reader.owed /\ d.hotPage = {}
        /\ d.found = {} /\ d.partial
    BY <2>1, <2>2, SetStage
  <2>4. ReadOK(d)
    BY <1>1, <2>3 DEF ReadOK, RowsOf, Kept
  <2> QED
    BY <1>1, <2>1, <2>4, ReadMoves
<1> QED
  BY <1>4, <1>5, <1>6

LEMMA OrderStep == IInv /\ Ordered /\ [Next]_vars => Ordered'
<1> SUFFICES ASSUME IInv, Ordered, [Next]_vars PROVE Ordered'
  OBVIOUS
<1>1. CASE TimePasses
  <2>1. now \in Nat /\ hours \in Seq(Nat) /\ now' = now + 1 /\ hours' = hours
    BY <1>1 DEF TimePasses, IInv
  <2> QED
    BY <2>1 DEF Ordered
<1>2. CASE Store
  <2>1. /\ now \in Nat /\ hours \in Seq(Nat) /\ now' = now /\ hours' = Append(hours, now)
        /\ Len(hours) < MaxRow /\ MaxRow \in Nat
    BY <1>2, ColdAssumption DEF Store, IInv
  <2>2. /\ Len(hours') = Len(hours) + 1 /\ hours' \in Seq(Nat)
        /\ \A i \in 1 .. Len(hours) : hours'[i] = hours[i] /\ hours[i] <= now
        /\ hours'[Len(hours) + 1] = now
    BY <2>1 DEF Ordered
  <2>3. \A i \in 1 .. Len(hours) + 1 : hours'[i] <= now
    BY <2>1, <2>2
  <2>4. ASSUME NEW i \in 1 .. Len(hours) + 1, NEW j \in 1 .. Len(hours) + 1, i <= j
        PROVE  hours'[i] <= hours'[j]
    <3>1. CASE j = Len(hours) + 1
      BY <2>2, <2>3, <3>1
    <3>2. CASE j \in 1 .. Len(hours)
      <4>1. i \in 1 .. Len(hours)
        BY <2>4, <3>2
      <4> QED
        BY <2>2, <2>4, <3>2, <4>1 DEF Ordered
    <3> QED
      BY <2>1, <3>1, <3>2
  <2>5. DOMAIN hours' = 1 .. Len(hours) + 1 /\ Len(hours') <= MaxRow
    BY <2>1, <2>2
  <2> QED
    BY <2>1, <2>3, <2>4, <2>5 DEF Ordered
<1>3. CASE UNCHANGED <<now, hours>>
  BY <1>3 DEF Ordered
<1>4. TimePasses \/ Store \/ UNCHANGED <<now, hours>>
  BY DEF Next, Cycle, Archive, WriteFile, Delete, Expire, RemoveFile, Compact, ReadInput,
         WriteMerged, ArchiveFails, CycleFails, Read, ReadHot, ListDay, OpenFile,
         readUnchanged, vars
<1> QED
  BY <1>1, <1>2, <1>3, <1>4

LEMMA ReadStep == IInv /\ IInv' /\ RInv /\ [Next]_vars => RInv'
<1> SUFFICES ASSUME IInv, IInv', RInv, [Next]_vars PROVE RInv'
  OBVIOUS
<1>1. Ordered'
  BY OrderStep DEF RInv
<1>2. CASE Read
  BY <1>1, <1>2, ReadHotStep, ListDayStep, OpenFileStep DEF Read, RInv
<1>3. CASE ~Read
  <2>1. reader' = reader
    BY <1>3 DEF Next, TimePasses, Store, Cycle, Archive, WriteFile, Delete, Expire, RemoveFile,
                Compact, ReadInput, WriteMerged, ArchiveFails, CycleFails, vars
  <2>2. now' \in Nat /\ now' >= now /\ hours' \in Seq(Nat)
    <3>1. now' = now \/ now' = now + 1
      BY <1>3 DEF Next, TimePasses, Store, Cycle, Archive, WriteFile, Delete, Expire, RemoveFile,
                  Compact, ReadInput, WriteMerged, ArchiveFails, CycleFails, vars
    <3> QED
      BY <3>1 DEF IInv
  <2>3. (hours' = hours /\ hot' \subseteq hot) \/ Store
    BY <1>3 DEF Next, TimePasses, Cycle, Archive, WriteFile, Delete, Expire, RemoveFile,
                Compact, ReadInput, WriteMerged, ArchiveFails, CycleFails, vars
  <2>4. /\ Len(hours') >= Len(hours) /\ \A r \in DOMAIN hours : hours'[r] = hours[r]
        /\ \A r \in DOMAIN hours : r \notin hot => r \notin hot'
    <3>1. CASE hours' = hours /\ hot' \subseteq hot
      BY <3>1 DEF IInv
    <3>2. CASE Store
      <4>1. now \in Nat /\ hours \in Seq(Nat) /\ hours' = Append(hours, now)
            /\ hot' = hot \cup {Len(hours')}
        BY <3>2 DEF Store, IInv
      <4>2. Len(hours') = Len(hours) + 1 /\ DOMAIN hours = 1 .. Len(hours)
            /\ \A r \in DOMAIN hours : hours'[r] = hours[r]
        BY <4>1
      <4> QED
        BY <4>1, <4>2
    <3> QED
      BY <2>3, <3>1, <3>2
  <2> QED
    BY <1>1, <2>1, <2>2, <2>4, ReadWaits DEF RInv
<1> QED
  BY <1>2, <1>3

(* A read that does not say it is partial, and lost nothing to copies,     *)
(* returned every row that was in either tier when it began and is not     *)
(* past its retention, however archives, deletes, merges, expiries and     *)
(* failures interleave with its calls (tieredGet, scan, readHour).         *)
THEOREM ReadsAreComplete == Spec => []ReadComplete
<1>1. RInv => ReadComplete
  BY DEF RInv, ReadOK, Kept, ReadComplete
<1>2. Spec => []IInv
  BY InitInv, Step, PTL DEF Spec
<1> QED
  BY <1>1, <1>2, ReadInit, ReadStep, PTL DEF Spec

-----------------------------------------------------------------------------
(***************************************************************************)
(* The statistics of a window, for any entries, families, durations and    *)
(* boundaries, any page size and cap, and whatever is stored and deleted   *)
(* between two calls of the report.                                        *)
(*                                                                         *)
(* Four invariants, each with what it needs of those before it.  Written:  *)
(* a row of the rollups is the aggregate of what was recorded of its       *)
(* minute, because an aggregate is additive over disjoint sets.  Scanning: *)
(* what a scan has is the newest of what it must have, page by page, and   *)
(* in Redis also between the round trips of a page (Paging).  Hydration:   *)
(* the content of each row that the report may show is read, is still to   *)
(* be read in this pass, or is gone.  Rows: the rows a report reads stand  *)
(* for known entries, so that their merged histogram counts those.         *)
(*                                                                         *)
(* The model's sums, minima and maxima are over sets.  What they compute   *)
(* is shown by induction over a set of naturals (UpTo) or of the subsets   *)
(* of a finite set (Growing), from the least element of the ones that fail.*)
(***************************************************************************)

(* A set of naturals that is not empty has a least element.                *)
LEMMA LeastOf ==
  ASSUME NEW T \in SUBSET Nat, T # {}
  PROVE  \E x \in T : \A y \in T : x <= y
BY LeastIsMin

(* Induction up to n, over a set of naturals.                              *)
LEMMA UpTo ==
  ASSUME NEW n \in Nat, NEW I, 0 \in I,
         \A k \in 0 .. n - 1 : k \in I => k + 1 \in I
  PROVE  \A k \in 0 .. n : k \in I
<1> DEFINE T == {k \in 0 .. n : k \notin I}
<1>1. ASSUME T # {}
      PROVE  FALSE
  <2>1. PICK x \in T : \A y \in T : x <= y
    <3>1. T \in SUBSET Nat /\ T # {}
      BY <1>1
    <3> HIDE DEF T
    <3> QED
      BY <3>1, LeastOf
  <2>2. x # 0 /\ x \in 1 .. n
    BY <2>1
  <2>3. x - 1 \notin T /\ x - 1 \in 0 .. n - 1
    BY <2>1, <2>2
  <2>4. x - 1 \in I /\ (x - 1) + 1 = x
    BY <2>3
  <2> QED
    BY <2>1, <2>3, <2>4
<1> QED
  BY <1>1

(* A finite set is reached from the empty one, an element at a time.       *)
LEMMA Growing ==
  ASSUME NEW S, IsFiniteSet(S), NEW F, {} \in F,
         \A T \in SUBSET S : \A x \in S \ T : T \in F => T \cup {x} \in F
  PROVE  S \in F
<1> DEFINE n == Cardinality(S)
<1>1. n \in Nat /\ ExistsBijection(1 .. n, S)
  BY FS_CardinalityType
<1> HIDE DEF n
<1>2. PICK b \in Bijection(1 .. n, S) : TRUE
  BY <1>1 DEF ExistsBijection
<1>3. /\ b \in [1 .. n -> S]
      /\ \A i, j \in 1 .. n : b[i] = b[j] => i = j
      /\ \A x \in S : \E i \in 1 .. n : b[i] = x
  BY <1>2 DEF Bijection, Injection, Surjection, IsInjective
<1> DEFINE T(k) == {b[i] : i \in 1 .. k}
           I == {k \in 0 .. n : T(k) \in F}
<1>4. 0 \in I
  <2>1. T(0) = {} /\ 0 \in 0 .. n
    BY <1>1
  <2> QED
    BY <2>1
<1>5. ASSUME NEW k \in 0 .. n - 1, k \in I
      PROVE  k + 1 \in I
  <2>1. k + 1 \in 1 .. n /\ k + 1 \in 0 .. n /\ 1 .. k \subseteq 1 .. n
    BY <1>1
  <2>2. T(k) \in SUBSET S /\ T(k) \in F
    BY <1>3, <1>5, <2>1
  <2>3. b[k + 1] \in S \ T(k)
    <3>1. ASSUME NEW i \in 1 .. k, b[i] = b[k + 1]
          PROVE  FALSE
      BY <1>3, <2>1, <3>1
    <3> QED
      BY <1>3, <2>1, <3>1
  <2>4. T(k + 1) = T(k) \cup {b[k + 1]}
    <3>1. 1 .. k + 1 = (1 .. k) \cup {k + 1}
      OBVIOUS
    <3> QED
      BY <3>1
  <2> HIDE DEF T
  <2>5. T(k) \cup {b[k + 1]} \in F
    BY <2>2, <2>3
  <2> QED
    BY <2>1, <2>4, <2>5
<1>6. \A k \in 0 .. n : k \in I
  <2> HIDE DEF I
  <2> QED
    BY <1>1, <1>4, <1>5, UpTo
<1>7. T(n) = S
  BY <1>3
<1> QED
  <2>1. n \in I
    BY <1>1, <1>6
  <2> QED
    BY <1>7, <2>1

(* A finite set of naturals that is not empty has a greatest element.      *)
LEMMA GreatestIsMax ==
  ASSUME NEW S \in SUBSET Nat, IsFiniteSet(S), S # {}
  PROVE  Max(S) \in S /\ \A y \in S : Max(S) >= y
<1> DEFINE F == {T \in SUBSET S : T # {} => \E m \in T : \A y \in T : m >= y}
<1>1. {} \in F
  OBVIOUS
<1>2. ASSUME NEW T \in SUBSET S, NEW x \in S \ T, T \in F
      PROVE  T \cup {x} \in F
  <2>1. CASE T = {}
    <3>1. T \cup {x} = {x} /\ x >= x
      BY <2>1
    <3> QED
      BY <3>1
  <2>2. CASE T # {}
    <3>1. PICK m \in T : \A y \in T : m >= y
      BY <1>2, <2>2
    <3>2. CASE m >= x
      BY <3>1, <3>2
    <3>3. CASE ~(m >= x)
      <4>1. \A y \in T \cup {x} : x >= y
        BY <3>1, <3>3
      <4> QED
        BY <4>1
    <3> QED
      BY <3>2, <3>3
  <2> QED
    BY <2>1, <2>2
<1>3. S \in F
  <2> HIDE DEF F
  <2> QED
    BY <1>1, <1>2, Growing
<1>4. \E m \in S : \A y \in S : m >= y
  BY <1>3
<1> QED
  BY <1>4 DEF Max

(* Sums of the values of a function over finite sets: the recursion that   *)
(* the library's fold stands for.                                          *)
SumEq(g, f, s) ==
  g[s] = IF s = {} THEN 0
         ELSE f[CHOOSE x \in s : TRUE] + g[s \ {CHOOSE x \in s : TRUE}]

Sums(g, f, U) == \A s \in SUBSET U : SumEq(g, f, s)

LEMMA SumEqSame ==
  ASSUME NEW f, NEW g, NEW h, NEW s, SumEq(g, f, s), h[s] = g[s],
         s # {} => h[s \ {CHOOSE x \in s : TRUE}] = g[s \ {CHOOSE x \in s : TRUE}]
  PROVE  SumEq(h, f, s)
BY DEF SumEq

IsSum(g, f, U) ==
  g = [s \in SUBSET U |->
         IF s = {} THEN 0
         ELSE f[CHOOSE x \in s : TRUE] + g[s \ {CHOOSE x \in s : TRUE}]]

LEMMA SumExists ==
  ASSUME NEW U, IsFiniteSet(U), NEW f
  PROVE  \E g : IsSum(g, f, U)
<1> DEFINE n == Cardinality(U)
           Solved(g, k) == \A s \in SUBSET U : Cardinality(s) <= k => SumEq(g, f, s)
           I == {k \in 0 .. n : \E g : Solved(g, k)}
<1>1. n \in Nat /\ \A s \in SUBSET U : IsFiniteSet(s) /\ Cardinality(s) \in 0 .. n
  BY FS_CardinalityType, FS_Subset
<1> HIDE DEF n
<1>2. 0 \in I
  <2> DEFINE g == [s \in SUBSET U |-> 0]
  <2>1. \A s \in SUBSET U : Cardinality(s) <= 0 => s = {}
    BY <1>1, FS_EmptySet
  <2>2. Solved(g, 0)
    BY <2>1 DEF SumEq
  <2> HIDE DEF g, Solved
  <2> QED
    BY <1>1, <2>2
<1>3. ASSUME NEW k \in 0 .. n - 1, k \in I
      PROVE  k + 1 \in I
  <2>1. PICK g : Solved(g, k)
    BY <1>3
  <2> DEFINE c(s) == CHOOSE x \in s : TRUE
             h == [s \in SUBSET U |-> IF s = {} THEN 0 ELSE f[c(s)] + g[s \ {c(s)}]]
  <2>2. ASSUME NEW s \in SUBSET U, s # {}
        PROVE  /\ s \ {c(s)} \in SUBSET U
               /\ Cardinality(s \ {c(s)}) = Cardinality(s) - 1
    <3>1. c(s) \in s
      BY <2>2
    <3> HIDE DEF c
    <3> QED
      BY <1>1, <3>1, FS_RemoveElement
  <2>3. ASSUME NEW s \in SUBSET U, Cardinality(s) <= k
        PROVE  h[s] = g[s]
    BY <2>1, <2>3 DEF SumEq
  <2>4. ASSUME NEW s \in SUBSET U, Cardinality(s) <= k + 1
        PROVE  SumEq(h, f, s)
    <3>1. CASE s = {}
      BY <3>1 DEF SumEq
    <3>2. CASE s # {}
      <4>1. Cardinality(s \ {c(s)}) <= k /\ s \ {c(s)} \in SUBSET U
        BY <1>1, <2>2, <2>4, <3>2
      <4>2. h[s \ {c(s)}] = g[s \ {c(s)}]
        BY <2>3, <4>1
      <4>3. h[s] = f[c(s)] + g[s \ {c(s)}]
        BY <3>2
      <4> QED
        BY <3>2, <4>2, <4>3 DEF SumEq
    <3> QED
      BY <3>1, <3>2
  <2>5. Solved(h, k + 1)
    BY <2>4
  <2> HIDE DEF h, Solved
  <2> QED
    BY <1>1, <2>5
<1>4. \A k \in 0 .. n : k \in I
  <2> HIDE DEF I
  <2> QED
    BY <1>1, <1>2, <1>3, UpTo
<1>5. PICK g : Solved(g, n)
  BY <1>1, <1>4
<1> DEFINE h == [s \in SUBSET U |-> g[s]]
<1>6. ASSUME NEW s \in SUBSET U
      PROVE  h[s] = IF s = {} THEN 0
                    ELSE f[CHOOSE x \in s : TRUE] + h[s \ {CHOOSE x \in s : TRUE}]
  <2>1. SumEq(g, f, s)
    BY <1>1, <1>5
  <2>2. s # {} => s \ {CHOOSE x \in s : TRUE} \in SUBSET U
    OBVIOUS
  <2> QED
    BY <2>1, <2>2 DEF SumEq
<1>7. h = [s \in SUBSET U |->
             IF s = {} THEN 0
             ELSE f[CHOOSE x \in s : TRUE] + h[s \ {CHOOSE x \in s : TRUE}]]
  <2>1. DOMAIN h = SUBSET U /\ h = [s \in SUBSET U |-> h[s]]
    OBVIOUS
  <2> HIDE DEF h
  <2> QED
    BY <1>6, <2>1
<1> QED
  <2> HIDE DEF h
  <2> QED
    BY <1>7 DEF IsSum

LEMMA SumSolves ==
  ASSUME NEW U, IsFiniteSet(U), NEW f
  PROVE  \E g : Sums(g, f, U) /\ SumFunctionOnSet(f, U) = g[U]
<1> DEFINE g == CHOOSE h : IsSum(h, f, U)
<1>1. SumFunctionOnSet(f, U) = g[U]
  BY DEF SumFunctionOnSet, FoldFunctionOnSet, MapThenFoldSet, IsSum
<1>2. IsSum(g, f, U)
  BY SumExists
<1> HIDE DEF g
<1>3. Sums(g, f, U)
  BY <1>2 DEF Sums, SumEq, IsSum
<1> QED
  BY <1>1, <1>3

LEMMA Removal ==
  ASSUME NEW s, IsFiniteSet(s), NEW x \in s
  PROVE  /\ IsFiniteSet(s \ {x})
         /\ Cardinality(s \ {x}) \in Nat
         /\ Cardinality(s) = Cardinality(s \ {x}) + 1
<1>1. IsFiniteSet(s \ {x}) /\ Cardinality(s \ {x}) = Cardinality(s) - 1
  BY FS_RemoveElement
<1>2. Cardinality(s \ {x}) \in Nat /\ Cardinality(s) \in Nat
  BY <1>1, FS_CardinalityType
<1> QED
  BY <1>1, <1>2

LEMMA SumsAgree ==
  ASSUME NEW U, IsFiniteSet(U), NEW f, NEW V \in SUBSET U,
         NEW g, Sums(g, f, U), NEW h, Sums(h, f, V)
  PROVE  \A s \in SUBSET V : g[s] = h[s]
<1> DEFINE n == Cardinality(V)
           I == {k \in 0 .. n : \A s \in SUBSET V : Cardinality(s) = k => g[s] = h[s]}
<1>1. n \in Nat /\ \A s \in SUBSET V : IsFiniteSet(s) /\ Cardinality(s) \in 0 .. n
  <2>1. IsFiniteSet(V)
    BY FS_Subset
  <2> QED
    BY <2>1, FS_CardinalityType, FS_Subset
<1> HIDE DEF n
<1>2. 0 \in I
  <2>1. ASSUME NEW s \in SUBSET V, Cardinality(s) = 0
        PROVE  g[s] = h[s]
    <3>1. s = {}
      BY <1>1, <2>1, FS_EmptySet
    <3>2. SumEq(g, f, s) /\ SumEq(h, f, s)
      BY DEF Sums
    <3> QED
      BY <3>1, <3>2 DEF SumEq
  <2> QED
    BY <1>1, <2>1
<1>3. ASSUME NEW k \in 0 .. n - 1, k \in I
      PROVE  k + 1 \in I
  <2>1. ASSUME NEW s \in SUBSET V, Cardinality(s) = k + 1
        PROVE  g[s] = h[s]
    <3>1. s # {}
      BY <1>1, <1>3, <2>1, FS_EmptySet
    <3> DEFINE c == CHOOSE x \in s : TRUE
    <3>2. c \in s
      BY <3>1
    <3>3. SumEq(g, f, s) /\ SumEq(h, f, s)
      BY DEF Sums
    <3>4. g[s] = f[c] + g[s \ {c}] /\ h[s] = f[c] + h[s \ {c}]
      BY <3>1, <3>3 DEF SumEq
    <3> HIDE DEF c
    <3>5. Cardinality(s \ {c}) = k /\ s \ {c} \in SUBSET V
      BY <1>1, <1>3, <2>1, <3>2, Removal
    <3>6. g[s \ {c}] = h[s \ {c}]
      BY <1>3, <3>5
    <3> QED
      BY <3>4, <3>6
  <2>2. k + 1 \in 0 .. n
    BY <1>1
  <2> QED
    BY <2>1, <2>2
<1>4. \A k \in 0 .. n : k \in I
  <2> HIDE DEF I
  <2> QED
    BY <1>1, <1>2, <1>3, UpTo
<1>5. ASSUME NEW s \in SUBSET V
      PROVE  g[s] = h[s]
  <2>1. Cardinality(s) \in I
    BY <1>1, <1>4
  <2> QED
    BY <2>1
<1> QED
  BY <1>5

LEMMA SumIs ==
  ASSUME NEW U, IsFiniteSet(U), NEW f, NEW V \in SUBSET U, NEW g, Sums(g, f, U)
  PROVE  SumFunctionOnSet(f, V) = g[V]
<1>1. IsFiniteSet(V)
  BY FS_Subset
<1>2. PICK h : Sums(h, f, V) /\ SumFunctionOnSet(f, V) = h[V]
  BY <1>1, SumSolves
<1>3. \A s \in SUBSET V : g[s] = h[s]
  BY <1>2, SumsAgree
<1> QED
  BY <1>2, <1>3

LEMMA SumOfNone ==
  ASSUME NEW f
  PROVE  SumFunctionOnSet(f, {}) = 0
<1>1. IsFiniteSet({})
  BY FS_EmptySet
<1>2. PICK g : Sums(g, f, {}) /\ SumFunctionOnSet(f, {}) = g[{}]
  BY <1>1, SumSolves
<1>3. SumEq(g, f, {})
  BY <1>2 DEF Sums
<1> QED
  BY <1>2, <1>3 DEF SumEq

(* A sum of naturals is a natural, and any element may be taken out.       *)
LEMMA SumOfMore ==
  ASSUME NEW U, IsFiniteSet(U), NEW f, \A x \in U : f[x] \in Nat
  PROVE  /\ SumFunctionOnSet(f, U) \in Nat
         /\ \A x \in U : SumFunctionOnSet(f, U) = f[x] + SumFunctionOnSet(f, U \ {x})
<1>1. PICK g : Sums(g, f, U)
  BY SumSolves
<1> DEFINE Good(s) == g[s] \in Nat /\ \A x \in s : g[s] = f[x] + g[s \ {x}]
           n == Cardinality(U)
           I == {k \in 0 .. n : \A s \in SUBSET U : Cardinality(s) <= k => Good(s)}
<1>2. n \in Nat /\ \A s \in SUBSET U : IsFiniteSet(s) /\ Cardinality(s) \in 0 .. n
  BY FS_CardinalityType, FS_Subset
<1> HIDE DEF n
<1>3. 0 \in I
  <2>1. ASSUME NEW s \in SUBSET U, Cardinality(s) <= 0
        PROVE  Good(s)
    <3>1. s = {}
      BY <1>2, <2>1, FS_EmptySet
    <3>2. SumEq(g, f, s)
      BY <1>1 DEF Sums
    <3> QED
      BY <3>1, <3>2 DEF SumEq
  <2> HIDE DEF Good
  <2> QED
    BY <1>2, <2>1
<1>4. ASSUME NEW k \in 0 .. n - 1, k \in I
      PROVE  k + 1 \in I
  <2>1. ASSUME NEW s \in SUBSET U, Cardinality(s) <= k + 1
        PROVE  Good(s)
    <3>1. CASE s = {}
      <4>1. SumEq(g, f, s)
        BY <1>1 DEF Sums
      <4> QED
        BY <3>1, <4>1 DEF SumEq
    <3> SUFFICES ASSUME s # {} PROVE Good(s)
      BY <3>1
    <3> DEFINE c == CHOOSE x \in s : TRUE
    <3>2. c \in s
      OBVIOUS
    <3>3. SumEq(g, f, s)
      BY <1>1 DEF Sums
    <3>4. g[s] = f[c] + g[s \ {c}]
      BY <3>3 DEF SumEq
    <3> HIDE DEF c
    <3>5. ASSUME NEW x \in s
          PROVE  Cardinality(s \ {x}) <= k /\ s \ {x} \in SUBSET U
      BY <1>2, <1>4, <2>1, <3>5, Removal
    <3>6. ASSUME NEW x \in s
          PROVE  Good(s \ {x})
      BY <1>4, <3>5
    <3>7. g[s] \in Nat
      <4>1. f[c] \in Nat /\ g[s \ {c}] \in Nat
        BY <3>2, <3>6
      <4> QED
        BY <3>4, <4>1
    <3>8. ASSUME NEW x \in s
          PROVE  g[s] = f[x] + g[s \ {x}]
      <4>1. CASE x = c
        BY <3>4, <4>1
      <4>2. CASE x # c
        <5>1. g[s \ {c}] = f[x] + g[(s \ {c}) \ {x}]
          BY <3>2, <3>6, <4>2
        <5>2. g[s \ {x}] = f[c] + g[(s \ {x}) \ {c}]
          BY <3>2, <3>6, <4>2
        <5>3. (s \ {c}) \ {x} = (s \ {x}) \ {c}
          OBVIOUS
        <5>4. g[(s \ {x}) \ {c}] \in Nat
          <6>1. (s \ {x}) \ {c} \in SUBSET U
            OBVIOUS
          <6>2. Cardinality((s \ {x}) \ {c}) <= k
            <7>1. Cardinality((s \ {x}) \ {c}) <= Cardinality(s \ {x})
              BY <1>2, FS_Subset
            <7> QED
              BY <1>2, <1>4, <3>5, <6>1, <7>1
          <6> QED
            BY <1>4, <6>1, <6>2
        <5>5. f[x] \in Nat /\ f[c] \in Nat
          BY <3>2
        <5>6. PICK w \in Nat : w = g[(s \ {x}) \ {c}]
          BY <5>4
        <5>7. PICK a \in Nat, b \in Nat : a = f[x] /\ b = f[c]
          BY <5>5
        <5>8. g[s \ {c}] = a + w /\ g[s \ {x}] = b + w
          BY <5>1, <5>2, <5>3, <5>6, <5>7
        <5>9. g[s] = b + (a + w)
          BY <3>4, <5>7, <5>8
        <5>10. b + (a + w) = a + (b + w)
          OBVIOUS
        <5> QED
          BY <5>7, <5>8, <5>9, <5>10
      <4> QED
        BY <4>1, <4>2
    <3> QED
      BY <3>7, <3>8
  <2>2. k + 1 \in 0 .. n
    BY <1>2
  <2> HIDE DEF Good
  <2> QED
    BY <2>1, <2>2
<1>5. \A k \in 0 .. n : k \in I
  <2> HIDE DEF I
  <2> QED
    BY <1>2, <1>3, <1>4, UpTo
<1>6. Good(U)
  <2>1. Cardinality(U) \in I
    BY <1>2, <1>5
  <2> HIDE DEF Good
  <2> QED
    BY <2>1
<1>7. \A V \in SUBSET U : SumFunctionOnSet(f, V) = g[V]
  BY <1>1, SumIs
<1> QED
  BY <1>6, <1>7

LEMMA SumOfUnion ==
  ASSUME NEW A, NEW B, IsFiniteSet(A), IsFiniteSet(B), A \cap B = {}, NEW f,
         \A x \in A \cup B : f[x] \in Nat
  PROVE  SumFunctionOnSet(f, A \cup B) = SumFunctionOnSet(f, A) + SumFunctionOnSet(f, B)
<1> DEFINE F == {T \in SUBSET B :
                   SumFunctionOnSet(f, A \cup T) = SumFunctionOnSet(f, A) + SumFunctionOnSet(f, T)}
<1>1. ASSUME NEW T \in SUBSET B
      PROVE  /\ IsFiniteSet(T) /\ IsFiniteSet(A \cup T)
             /\ SumFunctionOnSet(f, T) \in Nat /\ SumFunctionOnSet(f, A \cup T) \in Nat
  <2>1. IsFiniteSet(T)
    BY FS_Subset
  <2>2. IsFiniteSet(A \cup T)
    BY <2>1, FS_Union
  <2> QED
    BY <2>1, <2>2, SumOfMore
<1>2. {} \in F
  <2>1. SumFunctionOnSet(f, {}) = 0 /\ A \cup {} = A /\ {} \in SUBSET B
    BY SumOfNone
  <2>2. SumFunctionOnSet(f, A) \in Nat
    BY SumOfMore
  <2> QED
    BY <2>1, <2>2
<1>3. ASSUME NEW T \in SUBSET B, NEW x \in B \ T, T \in F
      PROVE  T \cup {x} \in F
  <2>1. T \cup {x} \in SUBSET B /\ (T \cup {x}) \ {x} = T
    OBVIOUS
  <2>2. (A \cup (T \cup {x})) \ {x} = A \cup T
    OBVIOUS
  <2>3. SumFunctionOnSet(f, T \cup {x}) = f[x] + SumFunctionOnSet(f, T)
    <3>1. IsFiniteSet(T \cup {x}) /\ \A y \in T \cup {x} : f[y] \in Nat
      BY <1>1, <2>1
    <3> QED
      BY <2>1, <3>1, SumOfMore
  <2>4. SumFunctionOnSet(f, A \cup (T \cup {x})) = f[x] + SumFunctionOnSet(f, A \cup T)
    <3>1. IsFiniteSet(A \cup (T \cup {x})) /\ \A y \in A \cup (T \cup {x}) : f[y] \in Nat
      BY <1>1, <2>1
    <3> QED
      BY <2>2, <3>1, SumOfMore
  <2>5. SumFunctionOnSet(f, A \cup T) = SumFunctionOnSet(f, A) + SumFunctionOnSet(f, T)
    BY <1>3
  <2>6. /\ f[x] \in Nat /\ SumFunctionOnSet(f, A) \in Nat
        /\ SumFunctionOnSet(f, T) \in Nat
    BY <1>1, SumOfMore
  <2>7. SumFunctionOnSet(f, A \cup (T \cup {x}))
          = SumFunctionOnSet(f, A) + SumFunctionOnSet(f, T \cup {x})
    BY <2>3, <2>4, <2>5, <2>6
  <2> QED
    BY <2>1, <2>7
<1>4. B \in F
  <2> HIDE DEF F
  <2> QED
    BY <1>2, <1>3, Growing
<1> QED
  BY <1>4

LEMMA SizeOfUnion ==
  ASSUME NEW A, NEW B, IsFiniteSet(A), IsFiniteSet(B), A \cap B = {}
  PROVE  /\ IsFiniteSet(A \cup B)
         /\ Cardinality(A) \in Nat /\ Cardinality(B) \in Nat
         /\ Cardinality(A \cup B) = Cardinality(A) + Cardinality(B)
<1>1. /\ IsFiniteSet(A \cup B)
      /\ Cardinality(A \cup B) = Cardinality(A) + Cardinality(B) - Cardinality(A \cap B)
  BY FS_Union
<1>2. Cardinality(A \cap B) = 0
  BY FS_EmptySet
<1>3. Cardinality(A) \in Nat /\ Cardinality(B) \in Nat
  BY FS_CardinalityType
<1> QED
  BY <1>1, <1>2, <1>3

(* The sizes of disjoint sets add up to that of their union.               *)
LEMMA SumOfSizes ==
  ASSUME NEW U, IsFiniteSet(U), NEW E, IsFiniteSet(E), NEW P \in [U -> SUBSET E],
         \A x, y \in U : x # y => P[x] \cap P[y] = {},
         NEW f, \A x \in U : f[x] = Cardinality(P[x])
  PROVE  SumFunctionOnSet(f, U) = Cardinality(UNION {P[x] : x \in U})
<1> DEFINE All(T) == UNION {P[x] : x \in T}
           F == {T \in SUBSET U : SumFunctionOnSet(f, T) = Cardinality(All(T))}
<1>1. ASSUME NEW T \in SUBSET U
      PROVE  IsFiniteSet(T) /\ IsFiniteSet(All(T))
  <2>1. All(T) \in SUBSET E
    OBVIOUS
  <2> HIDE DEF All
  <2> QED
    BY <2>1, FS_Subset
<1>2. \A x \in U : f[x] \in Nat /\ IsFiniteSet(P[x])
  BY FS_Subset, FS_CardinalityType
<1>3. {} \in F
  <2>1. SumFunctionOnSet(f, {}) = 0 /\ Cardinality({}) = 0
    BY SumOfNone, FS_EmptySet
  <2>2. All({}) = {} /\ {} \in SUBSET U
    OBVIOUS
  <2> HIDE DEF All
  <2> QED
    BY <2>1, <2>2
<1>4. ASSUME NEW T \in SUBSET U, NEW x \in U \ T, T \in F
      PROVE  T \cup {x} \in F
  <2>1. T \cup {x} \in SUBSET U /\ (T \cup {x}) \ {x} = T
    OBVIOUS
  <2>2. SumFunctionOnSet(f, T \cup {x}) = f[x] + SumFunctionOnSet(f, T)
    <3>1. IsFiniteSet(T \cup {x}) /\ \A y \in T \cup {x} : f[y] \in Nat
      BY <1>1, <1>2, <2>1
    <3> QED
      BY <2>1, <3>1, SumOfMore
  <2>3. All(T \cup {x}) = All(T) \cup P[x] /\ All(T) \cap P[x] = {}
    <3>1. \A y \in T : P[y] \cap P[x] = {}
      OBVIOUS
    <3> QED
      BY <3>1
  <2> HIDE DEF All
  <2>4. /\ Cardinality(All(T) \cup P[x]) = Cardinality(All(T)) + Cardinality(P[x])
        /\ Cardinality(All(T)) \in Nat /\ Cardinality(P[x]) \in Nat
    BY <1>1, <1>2, <2>3, SizeOfUnion
  <2>5. SumFunctionOnSet(f, T) = Cardinality(All(T)) /\ f[x] = Cardinality(P[x])
    BY <1>4
  <2>6. SumFunctionOnSet(f, T \cup {x}) = Cardinality(All(T \cup {x}))
    <3>1. PICK a \in Nat, b \in Nat : a = Cardinality(All(T)) /\ b = Cardinality(P[x])
      BY <2>4
    <3>2. Cardinality(All(T \cup {x})) = a + b
      BY <2>3, <2>4, <3>1
    <3>3. SumFunctionOnSet(f, T \cup {x}) = b + a
      BY <2>2, <2>5, <3>1
    <3> QED
      BY <3>2, <3>3
  <2> QED
    BY <2>1, <2>6
<1>5. U \in F
  <2> HIDE DEF F
  <2> QED
    BY <1>3, <1>4, Growing
<1> QED
  BY <1>5

LEMMA MaxIs ==
  ASSUME NEW S \in SUBSET Nat, NEW m \in S, \A y \in S : m >= y
  PROVE  Max(S) = m
<1>1. PICK x \in S : x = Max(S) /\ \A y \in S : x >= y
  BY DEF Max
<1> QED
  BY <1>1

LEMMA MaxOfUnion ==
  ASSUME NEW A \in SUBSET Nat, NEW B \in SUBSET Nat, IsFiniteSet(A), IsFiniteSet(B),
         A # {}, B # {}
  PROVE  Max(A \cup B) = Max({Max(A), Max(B)})
<1>1. PICK a \in A : a = Max(A) /\ \A y \in A : a >= y
  BY GreatestIsMax
<1>2. PICK b \in B : b = Max(B) /\ \A y \in B : b >= y
  BY GreatestIsMax
<1>3. CASE a >= b
  <2>1. Max({a, b}) = a
    <3>1. {a, b} \in SUBSET Nat /\ a \in {a, b} /\ \A y \in {a, b} : a >= y
      BY <1>3
    <3> QED
      BY <3>1, MaxIs
  <2>2. Max(A \cup B) = a
    <3>1. A \cup B \in SUBSET Nat /\ a \in A \cup B /\ \A y \in A \cup B : a >= y
      BY <1>1, <1>2, <1>3
    <3> QED
      BY <3>1, MaxIs
  <2> QED
    BY <1>1, <1>2, <2>1, <2>2
<1>4. CASE ~(a >= b)
  <2>1. Max({a, b}) = b
    <3>1. {a, b} \in SUBSET Nat /\ b \in {a, b} /\ \A y \in {a, b} : b >= y
      BY <1>4
    <3> QED
      BY <3>1, MaxIs
  <2>2. Max(A \cup B) = b
    <3>1. A \cup B \in SUBSET Nat /\ b \in A \cup B /\ \A y \in A \cup B : b >= y
      BY <1>1, <1>2, <1>4
    <3> QED
      BY <3>1, MaxIs
  <2> QED
    BY <1>1, <1>2, <2>1, <2>2
<1> QED
  BY <1>3, <1>4

-----------------------------------------------------------------------------
(* Rollups: the row of a group is additive.                                *)

LEMMA FiniteEntries ==
  ASSUME NEW S \in SUBSET Entries
  PROVE  /\ IsFiniteSet(S) /\ IsFiniteSet(Timed(S)) /\ Timed(S) \in SUBSET S
         /\ \A e \in Timed(S) : DurationOf[e] \in Nat
<1>1. Timed(S) \in SUBSET S /\ \A e \in Timed(S) : DurationOf[e] \in Nat
  BY StatsAssumption DEF Timed
<1>2. IsFiniteSet(S)
  BY StatsAssumption, FS_Subset
<1> QED
  BY <1>1, <1>2, FS_Subset

Slowest(S) == {DurationOf[e] : e \in Timed(S)} \cup {0}
InCell(S, c) == {e \in Timed(S) : HistogramCell(DurationOf[e]) = c}

LEMMA SlowestType ==
  ASSUME NEW S \in SUBSET Entries
  PROVE  Slowest(S) \in SUBSET Nat /\ IsFiniteSet(Slowest(S)) /\ Slowest(S) # {}
<1>1. Slowest(S) \in SUBSET Nat
  BY FiniteEntries DEF Slowest
<1> DEFINE T == {DurationOf[e] : e \in Timed(S)}
<1>2. IsFiniteSet(T)
  <2>1. IsFiniteSet(Timed(S))
    BY FiniteEntries
  <2> DEFINE g == [e \in Timed(S) |-> DurationOf[e]]
  <2>2. g \in Surjection(Timed(S), T)
    BY DEF Surjection
  <2> HIDE DEF T, g
  <2> QED
    BY <2>1, <2>2, FS_Surjection
<1>3. Slowest(S) = T \cup {0}
  BY DEF Slowest
<1> HIDE DEF T
<1> QED
  BY <1>1, <1>2, <1>3, FS_AddElement

LEMMA AggregateIs ==
  ASSUME NEW S
  PROVE  Aggregate(S) = [count     |-> Cardinality(S),
                         sum       |-> SumFunctionOnSet(DurationOf, Timed(S)),
                         max       |-> Max(Slowest(S)),
                         histogram |-> [c \in Cells |-> Cardinality(InCell(S, c))]]
BY DEF Aggregate, Slowest, InCell

LEMMA AggregateAdds ==
  ASSUME NEW A \in SUBSET Entries, NEW B \in SUBSET Entries, A \cap B = {}
  PROVE  Aggregate(A \cup B) = Merge(Aggregate(A), Aggregate(B))
<1>1. Cardinality(A \cup B) = Cardinality(A) + Cardinality(B)
  BY FiniteEntries, SizeOfUnion
<1>2. SumFunctionOnSet(DurationOf, Timed(A \cup B))
        = SumFunctionOnSet(DurationOf, Timed(A)) + SumFunctionOnSet(DurationOf, Timed(B))
  <2>1. Timed(A \cup B) = Timed(A) \cup Timed(B) /\ Timed(A) \cap Timed(B) = {}
    BY DEF Timed
  <2>2. \A x \in Timed(A) \cup Timed(B) : DurationOf[x] \in Nat
    BY FiniteEntries
  <2>3. IsFiniteSet(Timed(A)) /\ IsFiniteSet(Timed(B))
    BY FiniteEntries
  <2> QED
    BY <2>1, <2>2, <2>3, SumOfUnion
<1>3. Max(Slowest(A \cup B)) = Max({Max(Slowest(A)), Max(Slowest(B))})
  <2>1. Slowest(A \cup B) = Slowest(A) \cup Slowest(B)
    BY DEF Slowest, Timed
  <2> QED
    BY <2>1, SlowestType, MaxOfUnion
<1>4. ASSUME NEW c \in Cells
      PROVE  Cardinality(InCell(A \cup B, c)) = Cardinality(InCell(A, c)) + Cardinality(InCell(B, c))
  <2>1. InCell(A \cup B, c) = InCell(A, c) \cup InCell(B, c)
    BY DEF InCell, Timed
  <2>2. InCell(A, c) \cap InCell(B, c) = {} /\ InCell(A, c) \in SUBSET Entries
        /\ InCell(B, c) \in SUBSET Entries
    BY DEF InCell, Timed
  <2> QED
    BY <2>1, <2>2, FiniteEntries, SizeOfUnion
<1> DEFINE h(S) == [c \in Cells |-> Cardinality(InCell(S, c))]
<1>5. h(A \cup B) = AddHistograms(h(A), h(B))
  BY <1>4 DEF AddHistograms
<1> HIDE DEF h
<1>6. \A S : Aggregate(S) = [count     |-> Cardinality(S),
                             sum       |-> SumFunctionOnSet(DurationOf, Timed(S)),
                             max       |-> Max(Slowest(S)),
                             histogram |-> h(S)]
  BY AggregateIs DEF h
<1> QED
  BY <1>1, <1>2, <1>3, <1>5, <1>6 DEF Merge

-----------------------------------------------------------------------------
(* What the writers keep: an entry's rollups are recorded at most once, of *)
(* a chunk that was stored, and a row aggregates those of its minute.      *)

Written ==
  /\ stored \subseteq ever /\ flushing \subseteq ever /\ rolled \subseteq ever
  /\ ever \subseteq Entries
  /\ flushing \cap rolled = {}
  /\ RollupsExact

OfMinute(S, m) == {e \in S : FloorToBucket(TimeOf[e]) = m}

LEMMA DeltasAre ==
  ASSUME NEW S
  PROVE  AggregateDeltas(S) = [m \in Minutes |-> Aggregate(OfMinute(S, m))]
BY DEF AggregateDeltas, OfMinute

LEMMA WrittenInit == StatsInit => Written
BY DEF StatsInit, Written, RollupsExact

LEMMA RecordWritten ==
  ASSUME Written, NEW M, RecordRollups(M)
  PROVE  Written'
<1> DEFINE C == {e \in flushing : FloorToBucket(TimeOf[e]) \in M}
<1>1. /\ rollups' = [m \in Minutes |-> Merge(rollups[m], AggregateDeltas(C)[m])]
      /\ rolled' = rolled \cup C /\ flushing' = flushing \ C
      /\ UNCHANGED <<stored, ever>>
  BY DEF RecordRollups
<1>2. C \subseteq flushing /\ C \in SUBSET Entries /\ rolled \in SUBSET Entries /\ rolled \cap C = {}
  BY DEF Written
<1> HIDE DEF C
<1>3. ASSUME NEW m \in Minutes
      PROVE  Merge(rollups[m], AggregateDeltas(C)[m]) = Aggregate(OfMinute(rolled \cup C, m))
  <2>1. /\ OfMinute(rolled, m) \in SUBSET Entries /\ OfMinute(C, m) \in SUBSET Entries
        /\ OfMinute(rolled, m) \cap OfMinute(C, m) = {}
        /\ OfMinute(rolled \cup C, m) = OfMinute(rolled, m) \cup OfMinute(C, m)
    BY <1>2 DEF OfMinute
  <2>2. rollups[m] = Aggregate(OfMinute(rolled, m))
    BY DeltasAre DEF Written, RollupsExact
  <2>3. AggregateDeltas(C)[m] = Aggregate(OfMinute(C, m))
    BY DeltasAre
  <2> QED
    BY <2>1, <2>2, <2>3, AggregateAdds
<1>4. RollupsExact'
  <2>1. rollups' = [m \in Minutes |-> Aggregate(OfMinute(rolled \cup C, m))]
    BY <1>1, <1>3
  <2>2. AggregateDeltas(rolled \cup C) = [m \in Minutes |-> Aggregate(OfMinute(rolled \cup C, m))]
    BY DeltasAre
  <2>3. RollupsExact' <=> rollups' = AggregateDeltas(rolled \cup C)
    BY <1>1 DEF RollupsExact, AggregateDeltas
  <2> QED
    BY <2>1, <2>2, <2>3
<1> QED
  BY <1>1, <1>2, <1>4 DEF Written

LEMMA OtherWritten ==
  ASSUME Written, \/ \E C \in SUBSET (Entries \ ever) : StoreChunk(C)
                  \/ \E M \in RowsTogether : RollupsFail(M)
                  \/ Prune
                  \/ UNCHANGED storeVars
  PROVE  Written'
<1>1. rollups' = rollups /\ rolled' = rolled
  BY DEF StoreChunk, RollupsFail, Prune, storeVars
<1>2. RollupsExact'
  BY <1>1 DEF Written, RollupsExact, AggregateDeltas
<1>3. CASE \E C \in SUBSET (Entries \ ever) : StoreChunk(C)
  <2>1. PICK C \in SUBSET (Entries \ ever) : StoreChunk(C)
    BY <1>3
  <2> QED
    BY <1>1, <1>2, <2>1 DEF Written, StoreChunk
<1>4. CASE \E M \in RowsTogether : RollupsFail(M)
  BY <1>1, <1>2, <1>4 DEF Written, RollupsFail
<1>5. CASE Prune
  BY <1>1, <1>2, <1>5 DEF Written, Prune
<1>6. CASE UNCHANGED storeVars
  BY <1>1, <1>2, <1>6 DEF Written, storeVars
<1> QED
  BY <1>3, <1>4, <1>5, <1>6

LEMMA ReportStoreUnchanged ==
  ASSUME Ask \/ ScanPage \/ ReadMembers \/ ReadEntries \/ HydratePage \/ Hydrated
         \/ ReadRollups \/ ReadRow \/ UNCHANGED statsVars
  PROVE  UNCHANGED storeVars
BY DEF Ask, ScanPage, ReadMembers, ReadEntries, HydratePage, Hydrated, ReadRollups,
       ReadRow, ReadRows, statsVars

LEMMA WrittenNext == Written /\ [StatsNext]_statsVars => Written'
BY RecordWritten, OtherWritten, ReportStoreUnchanged DEF StatsNext

\* However chunks are cut, ordered and lost, a minute's row is the aggregate of
\* the entries whose rollups were recorded, deleted since or not (the providers'
\* recordRollups, of what the recorder aggregates).
THEOREM RowsAreExact == StatsSpec => []RollupsExact
<1>1. Written => RollupsExact
  BY DEF Written
<1> QED
  BY <1>1, WrittenInit, WrittenNext, PTL DEF StatsSpec

-----------------------------------------------------------------------------
(* Sequences in order: the rank of an element among a finite set that a    *)
(* relation orders totally is its position.                                *)

Orders(R, S) ==
  /\ \A a \in S : <<a, a>> \notin R
  /\ \A a, b, c \in S : <<a, b>> \in R /\ <<b, c>> \in R => <<a, c>> \in R
  /\ \A a, b \in S : a = b \/ <<a, b>> \in R \/ <<b, a>> \in R

Ahead(S, R, e) == {d \in S : <<d, e>> \in R}

ByRank(S, R) ==
  [i \in 1 .. Cardinality(S) |-> CHOOSE e \in S : Cardinality(Ahead(S, R, e)) = i - 1]

LEMMA RankGrows ==
  ASSUME NEW S, IsFiniteSet(S), NEW R, Orders(R, S), NEW a \in S, NEW b \in S, <<a, b>> \in R
  PROVE  Cardinality(Ahead(S, R, a)) < Cardinality(Ahead(S, R, b))
<1>1. Ahead(S, R, a) \subseteq Ahead(S, R, b)
  BY DEF Orders, Ahead
<1>2. a \in Ahead(S, R, b) /\ a \notin Ahead(S, R, a)
  BY DEF Orders, Ahead
<1>3. IsFiniteSet(Ahead(S, R, b))
  <2>1. Ahead(S, R, b) \in SUBSET S
    BY DEF Ahead
  <2> QED
    BY <2>1, FS_Subset
<1>4. /\ Cardinality(Ahead(S, R, a)) <= Cardinality(Ahead(S, R, b))
      /\ Cardinality(Ahead(S, R, b)) # Cardinality(Ahead(S, R, a))
      /\ IsFiniteSet(Ahead(S, R, a))
  BY <1>1, <1>2, <1>3, FS_Subset
<1>5. Cardinality(Ahead(S, R, a)) \in Nat /\ Cardinality(Ahead(S, R, b)) \in Nat
  BY <1>3, <1>4, FS_CardinalityType
<1> QED
  BY <1>4, <1>5

LEMMA Ranked ==
  ASSUME NEW S, IsFiniteSet(S), NEW R, Orders(R, S)
  PROVE  /\ Cardinality(S) \in Nat
         /\ \A e \in S : Cardinality(Ahead(S, R, e)) \in 0 .. Cardinality(S) - 1
         /\ \A k \in 0 .. Cardinality(S) - 1 : \E e \in S : Cardinality(Ahead(S, R, e)) = k
         /\ \A a, b \in S : Cardinality(Ahead(S, R, a)) = Cardinality(Ahead(S, R, b)) => a = b
<1> DEFINE n == Cardinality(S)
           pos == [e \in S |-> Cardinality(Ahead(S, R, e))]
<1>1. n \in Nat
  BY FS_CardinalityType
<1>2. ASSUME NEW e \in S
      PROVE  Cardinality(Ahead(S, R, e)) \in 0 .. n - 1
  <2>1. Ahead(S, R, e) \in SUBSET (S \ {e})
    BY DEF Ahead, Orders
  <2>2. IsFiniteSet(S \ {e}) /\ Cardinality(S \ {e}) = n - 1
    BY FS_RemoveElement
  <2>3. IsFiniteSet(Ahead(S, R, e)) /\ Cardinality(Ahead(S, R, e)) <= n - 1
    BY <2>1, <2>2, FS_Subset
  <2>4. Cardinality(Ahead(S, R, e)) \in Nat
    BY <2>3, FS_CardinalityType
  <2> QED
    BY <1>1, <2>3, <2>4
<1>3. ASSUME NEW a \in S, NEW b \in S,
             Cardinality(Ahead(S, R, a)) = Cardinality(Ahead(S, R, b))
      PROVE  a = b
  <2>1. <<a, b>> \notin R
    <3>1. ASSUME <<a, b>> \in R
          PROVE  FALSE
      <4>1. Cardinality(Ahead(S, R, a)) < Cardinality(Ahead(S, R, b))
        BY <3>1, RankGrows
      <4> QED
        BY <1>1, <1>2, <1>3, <4>1
    <3> QED
      BY <3>1
  <2>2. <<b, a>> \notin R
    <3>1. ASSUME <<b, a>> \in R
          PROVE  FALSE
      <4>1. Cardinality(Ahead(S, R, b)) < Cardinality(Ahead(S, R, a))
        BY <3>1, RankGrows
      <4> QED
        BY <1>1, <1>2, <1>3, <4>1
    <3> QED
      BY <3>1
  <2> QED
    BY <2>1, <2>2 DEF Orders
<1>4. pos \in Injection(S, 0 .. n - 1)
  BY <1>2, <1>3 DEF Injection, IsInjective
<1>5. IsFiniteSet(0 .. n - 1) /\ Cardinality(0 .. n - 1) = n
  BY <1>1, FS_Interval
<1>6. pos \in Surjection(S, 0 .. n - 1)
  <2> HIDE DEF pos
  <2> QED
    BY <1>4, <1>5, FS_Injection
<1>7. \A k \in 0 .. n - 1 : \E e \in S : Cardinality(Ahead(S, R, e)) = k
  BY <1>6 DEF Surjection
<1> QED
  BY <1>1, <1>2, <1>3, <1>7

\* What a sequence is that lists a set in an order.
Lists(s, S, R) ==
  /\ s \in Seq(S) /\ Len(s) = Cardinality(S)
  /\ \A e \in S : \E i \in 1 .. Len(s) : s[i] = e
  /\ \A i, j \in 1 .. Len(s) : i < j => <<s[i], s[j]>> \in R

LEMMA Listed ==
  ASSUME NEW S, IsFiniteSet(S), NEW R, Orders(R, S)
  PROVE  Lists(ByRank(S, R), S, R)
<1> DEFINE n == Cardinality(S)
           rank(e) == Cardinality(Ahead(S, R, e))
           s == ByRank(S, R)
<1>1. /\ n \in Nat
      /\ \A e \in S : rank(e) \in 0 .. n - 1
      /\ \A k \in 0 .. n - 1 : \E e \in S : rank(e) = k
      /\ \A a, b \in S : rank(a) = rank(b) => a = b
  BY Ranked
<1>2. \A a, b \in S : <<a, b>> \in R => rank(a) < rank(b)
  BY RankGrows
<1>3. DOMAIN s = 1 .. n /\ \A i \in 1 .. n : s[i] = CHOOSE e \in S : rank(e) = i - 1
  BY DEF ByRank
<1>9. s = [i \in 1 .. n |-> s[i]]
  BY DEF ByRank
<1> HIDE DEF n, rank, s
<1>4. ASSUME NEW i \in 1 .. n
      PROVE  s[i] \in S /\ rank(s[i]) = i - 1
  <2>1. i - 1 \in 0 .. n - 1
    BY <1>1
  <2>2. \E e \in S : rank(e) = i - 1
    BY <1>1, <2>1
  <2> QED
    BY <1>3, <2>2
<1>5. s \in Seq(S) /\ Len(s) = n
  BY <1>1, <1>4, <1>9
<1>6. ASSUME NEW e \in S
      PROVE  \E i \in 1 .. n : s[i] = e
  <2>1. rank(e) + 1 \in 1 .. n /\ (rank(e) + 1) - 1 = rank(e)
    BY <1>1
  <2>2. s[rank(e) + 1] = e
    BY <1>1, <1>4, <2>1
  <2> QED
    BY <2>1, <2>2
<1>7. ASSUME NEW i \in 1 .. n, NEW j \in 1 .. n, i < j
      PROVE  <<s[i], s[j]>> \in R
  <2>1. s[i] # s[j]
    BY <1>4, <1>7
  <2>2. <<s[j], s[i]>> \notin R
    BY <1>1, <1>2, <1>4, <1>7
  <2> QED
    BY <1>4, <2>1, <2>2 DEF Orders
<1> QED
  BY <1>5, <1>6, <1>7 DEF Lists, n, s

NewerPairs == {p \in Entries \X Entries : Newer(p[1], p[2])}
IndexPairs == {p \in Entries \X Entries : IndexBefore(p[1], p[2])}

LEMMA EntryOrder ==
  /\ \A a \in Entries : a \in Nat /\ TimeOf[a] \in Nat
  /\ Orders(NewerPairs, Entries) /\ Orders(IndexPairs, Entries)
<1>1. \A a \in Entries : a \in Nat /\ TimeOf[a] \in Nat
  BY StatsAssumption
<1>2. Orders(NewerPairs, Entries)
  BY <1>1 DEF Orders, NewerPairs, Newer
<1>3. Orders(IndexPairs, Entries)
  BY <1>1 DEF Orders, IndexPairs, IndexBefore
<1> QED
  BY <1>1, <1>2, <1>3

LEMMA OrdersLess ==
  ASSUME NEW R, NEW S, NEW T \in SUBSET S, Orders(R, S)
  PROVE  Orders(R, T)
BY DEF Orders

\* What the properties need of such a sequence.
NewestFirst(s) == \A i, j \in DOMAIN s : i < j => Newer(s[i], s[j])

LEMMA InNewer ==
  ASSUME NEW S \in SUBSET Entries
  PROVE  /\ InOrder(S, Newer) \in Seq(Entries)
         /\ Len(InOrder(S, Newer)) = Cardinality(S)
         /\ ToSet(InOrder(S, Newer)) = S
         /\ NewestFirst(InOrder(S, Newer))
<1>1. Lists(ByRank(S, NewerPairs), S, NewerPairs)
  <2>1. IsFiniteSet(S) /\ Orders(NewerPairs, S)
    BY FiniteEntries, EntryOrder, OrdersLess
  <2> QED
    BY <2>1, Listed
<1>2. InOrder(S, Newer) = ByRank(S, NewerPairs)
  <2>1. ASSUME NEW e \in S
        PROVE  {d \in S : Newer(d, e)} = Ahead(S, NewerPairs, e)
    BY DEF Ahead, NewerPairs
  <2>2. InOrder(S, Newer) =
          [i \in 1 .. Cardinality(S) |->
             CHOOSE e \in S : Cardinality({d \in S : Newer(d, e)}) = i - 1]
    BY DEF InOrder
  <2>3. ByRank(S, NewerPairs) =
          [i \in 1 .. Cardinality(S) |->
             CHOOSE e \in S : Cardinality(Ahead(S, NewerPairs, e)) = i - 1]
    BY DEF ByRank
  <2> QED
    BY <2>1, <2>2, <2>3, Zenon
<1> DEFINE s == ByRank(S, NewerPairs)
<1>3. s \in Seq(S) /\ DOMAIN s = 1 .. Len(s) /\ Len(s) = Cardinality(S)
  BY <1>1 DEF Lists
<1> HIDE DEF s
<1>4. s \in Seq(Entries)
  BY <1>3
<1>5. ToSet(s) = S
  <2>1. \A e \in S : \E i \in DOMAIN s : s[i] = e
    BY <1>1, <1>3 DEF Lists, s
  <2>2. \A i \in DOMAIN s : s[i] \in S
    BY <1>3
  <2> QED
    BY <2>1, <2>2 DEF ToSet
<1>6. NewestFirst(s)
  BY <1>1, <1>3 DEF Lists, NewestFirst, NewerPairs, s
<1> QED
  BY <1>2, <1>3, <1>4, <1>5, <1>6 DEF s

LEMMA InIndex ==
  ASSUME NEW S \in SUBSET Entries
  PROVE  /\ InOrder(S, IndexBefore) \in Seq(Entries)
         /\ ToSet(InOrder(S, IndexBefore)) = S
         /\ \A i, j \in DOMAIN InOrder(S, IndexBefore) :
              i < j => IndexBefore(InOrder(S, IndexBefore)[i], InOrder(S, IndexBefore)[j])
<1>1. Lists(ByRank(S, IndexPairs), S, IndexPairs)
  <2>1. IsFiniteSet(S) /\ Orders(IndexPairs, S)
    BY FiniteEntries, EntryOrder, OrdersLess
  <2> QED
    BY <2>1, Listed
<1>2. InOrder(S, IndexBefore) = ByRank(S, IndexPairs)
  <2>1. ASSUME NEW e \in S
        PROVE  {d \in S : IndexBefore(d, e)} = Ahead(S, IndexPairs, e)
    BY DEF Ahead, IndexPairs
  <2>2. InOrder(S, IndexBefore) =
          [i \in 1 .. Cardinality(S) |->
             CHOOSE e \in S : Cardinality({d \in S : IndexBefore(d, e)}) = i - 1]
    BY DEF InOrder
  <2>3. ByRank(S, IndexPairs) =
          [i \in 1 .. Cardinality(S) |->
             CHOOSE e \in S : Cardinality(Ahead(S, IndexPairs, e)) = i - 1]
    BY DEF ByRank
  <2> QED
    BY <2>1, <2>2, <2>3, Zenon
<1> DEFINE s == ByRank(S, IndexPairs)
<1>3. s \in Seq(S) /\ DOMAIN s = 1 .. Len(s)
  BY <1>1 DEF Lists
<1> HIDE DEF s
<1>4. s \in Seq(Entries)
  BY <1>3
<1>5. ToSet(s) = S
  <2>1. \A e \in S : \E i \in DOMAIN s : s[i] = e
    BY <1>1, <1>3 DEF Lists, s
  <2>2. \A i \in DOMAIN s : s[i] \in S
    BY <1>3
  <2> QED
    BY <2>1, <2>2 DEF ToSet
<1>6. \A i, j \in DOMAIN s : i < j => IndexBefore(s[i], s[j])
  BY <1>1, <1>3 DEF Lists, IndexPairs, s
<1> QED
  BY <1>2, <1>4, <1>5, <1>6 DEF s

-----------------------------------------------------------------------------
(* The scan.                                                               *)

LEMMA NewerTrans ==
  /\ \A a \in Entries : ~Newer(a, a)
  /\ \A a, b, c \in Entries : Newer(a, b) /\ Newer(b, c) => Newer(a, c)
  /\ \A a, b \in Entries : a = b \/ Newer(a, b) \/ Newer(b, a)
BY EntryOrder DEF Newer

LEMMA IndexTrans ==
  /\ \A a \in Entries : ~IndexBefore(a, a)
  /\ \A a, b, c \in Entries : IndexBefore(a, b) /\ IndexBefore(b, c) => IndexBefore(a, c)
  /\ \A a, b \in Entries : a = b \/ IndexBefore(a, b) \/ IndexBefore(b, a)
BY EntryOrder DEF IndexBefore

LEMMA LesserOf ==
  ASSUME NEW a \in Nat, NEW b \in Nat
  PROVE  /\ Min({a, b}) \in Nat /\ Min({a, b}) <= a /\ Min({a, b}) <= b
         /\ Min({a, b}) = a \/ Min({a, b}) = b
<1>1. {a, b} \in SUBSET Nat /\ {a, b} # {}
  OBVIOUS
<1>2. Min({a, b}) \in {a, b} /\ \A y \in {a, b} : Min({a, b}) <= y
  BY <1>1, LeastIsMin
<1> DEFINE m == Min({a, b})
<1>3. m \in {a, b} /\ m <= a /\ m <= b
  BY <1>2
<1> HIDE DEF m
<1>4. m \in Nat /\ m <= a /\ m <= b /\ (m = a \/ m = b)
  BY <1>3
<1> QED
  BY <1>4 DEF m

\* The first k of a sequence, or as many as there are.
LEMMA FirstOnes ==
  ASSUME NEW S, NEW s \in Seq(S), NEW k \in Nat
  PROVE  LET t == SubSeq(s, 1, Min({k, Len(s)}))
         IN  /\ t \in Seq(S) /\ Len(t) <= k /\ Len(t) <= Len(s)
             /\ Len(t) = k \/ (Len(t) = Len(s) /\ t = s)
             /\ \A i \in 1 .. Len(t) : t[i] = s[i]
             /\ ToSet(t) \subseteq ToSet(s)
<1> DEFINE m == Min({k, Len(s)})
           t == SubSeq(s, 1, m)
<1>1. m \in Nat /\ m <= k /\ m <= Len(s) /\ (m = k \/ m = Len(s))
  <2>1. Len(s) \in Nat
    OBVIOUS
  <2> QED
    BY <2>1, LesserOf
<1> HIDE DEF m
<1>2. t \in Seq(S) /\ Len(t) = m /\ \A i \in 1 .. m : t[i] = s[i]
  BY <1>1
<1>3. m = Len(s) => t = s
  BY <1>1, <1>2
<1> HIDE DEF t
<1>4. ToSet(t) \subseteq ToSet(s)
  BY <1>1, <1>2 DEF ToSet
<1>5. /\ t \in Seq(S) /\ Len(t) <= k /\ Len(t) <= Len(s)
      /\ Len(t) = k \/ (Len(t) = Len(s) /\ t = s)
      /\ \A i \in 1 .. Len(t) : t[i] = s[i]
      /\ ToSet(t) \subseteq ToSet(s)
  BY <1>1, <1>2, <1>3, <1>4
<1> QED
  BY <1>5 DEF t, m

LEMMA Appended ==
  ASSUME NEW S, NEW s \in Seq(S), NEW t \in Seq(S)
  PROVE  /\ s \o t \in Seq(S) /\ Len(s \o t) = Len(s) + Len(t)
         /\ \A i \in 1 .. Len(s) : (s \o t)[i] = s[i]
         /\ \A i \in 1 .. Len(t) : (s \o t)[Len(s) + i] = t[i]
         /\ ToSet(s \o t) = ToSet(s) \cup ToSet(t)
<1>1. /\ s \o t \in Seq(S) /\ Len(s \o t) = Len(s) + Len(t)
      /\ \A i \in 1 .. Len(s) : (s \o t)[i] = s[i]
      /\ \A i \in 1 .. Len(t) : (s \o t)[Len(s) + i] = t[i]
  OBVIOUS
<1> DEFINE u == s \o t
<1>2. \A i \in 1 .. Len(u) : u[i] \in ToSet(s) \cup ToSet(t)
  <2> TAKE i \in 1 .. Len(u)
  <2>1. CASE i <= Len(s)
    <3>1. i \in 1 .. Len(s)
      BY <2>1
    <3> QED
      BY <1>1, <3>1 DEF ToSet
  <2>2. CASE ~(i <= Len(s))
    <3>1. i - Len(s) \in 1 .. Len(t) /\ Len(s) + (i - Len(s)) = i
      BY <1>1, <2>2
    <3>2. u[i] = t[i - Len(s)]
      BY <1>1, <3>1
    <3> QED
      BY <3>1, <3>2 DEF ToSet
  <2> QED
    BY <2>1, <2>2
<1>3. \A i \in 1 .. Len(s) : s[i] \in ToSet(u)
  <2> TAKE i \in 1 .. Len(s)
  <2>1. i \in 1 .. Len(u) /\ u[i] = s[i] /\ DOMAIN u = 1 .. Len(u)
    BY <1>1
  <2> QED
    BY <2>1 DEF ToSet
<1>4. \A i \in 1 .. Len(t) : t[i] \in ToSet(u)
  <2> TAKE i \in 1 .. Len(t)
  <2>1. Len(s) + i \in 1 .. Len(u) /\ u[Len(s) + i] = t[i] /\ DOMAIN u = 1 .. Len(u)
    BY <1>1
  <2> QED
    BY <2>1 DEF ToSet
<1>5. DOMAIN u = 1 .. Len(u) /\ DOMAIN s = 1 .. Len(s) /\ DOMAIN t = 1 .. Len(t)
  BY <1>1
<1> HIDE DEF u
<1>6. ToSet(u) = ToSet(s) \cup ToSet(t)
  <2>1. ToSet(u) \subseteq ToSet(s) \cup ToSet(t)
    BY <1>2, <1>5 DEF ToSet
  <2>2. ToSet(s) \subseteq ToSet(u)
    BY <1>3, <1>5 DEF ToSet
  <2>3. ToSet(t) \subseteq ToSet(u)
    BY <1>4, <1>5 DEF ToSet
  <2> QED
    BY <2>1, <2>2, <2>3
<1> QED
  BY <1>1, <1>6 DEF u

LEMMA ElementsOf ==
  ASSUME NEW S, NEW s \in Seq(S)
  PROVE  /\ ToSet(s) \subseteq S
         /\ \A e \in ToSet(s) : \E i \in 1 .. Len(s) : s[i] = e
         /\ \A i \in 1 .. Len(s) : s[i] \in ToSet(s)
         /\ DOMAIN s = 1 .. Len(s) /\ Len(s) \in Nat
         /\ s # <<>> => Len(s) \in 1 .. Len(s)
BY DEF ToSet

InWindow(e) == TimeOf[e] > WindowStart
Later(e) == cursor # None => Newer(cursor, e)

\* What a scan has when it is not over: all up to the cursor.
Reached ==
  /\ read \in Seq(Entries) /\ Len(read) <= ScanCap
  /\ ToSet(read) \subseteq ever /\ NewestFirst(read)
  /\ \/ cursor = None /\ read = <<>>
     \/ read # <<>> /\ cursor \in Entries /\ cursor = read[Len(read)]
  /\ \A e \in steady : InWindow(e) => e \in ToSet(read) \/ Later(e)

\* What get() must answer: entries past the cursor, and all of those, unless there
\* are more than a page and what is missing is older.
Answer(found) ==
  /\ found \in Seq(Entries) /\ ToSet(found) \subseteq ever /\ NewestFirst(found)
  /\ \A x \in ToSet(found) : Later(x)
  /\ \A e \in steady : InWindow(e) /\ Later(e) =>
       \/ e \in ToSet(found)
       \/ Len(found) > PageSize /\ \A x \in ToSet(found) : Newer(x, e)

\* A scan that is over has everything, or what is newest.
Finished ==
  /\ read \in Seq(Entries) /\ Len(read) <= ScanCap
  /\ ToSet(read) \subseteq ever /\ NewestFirst(read)
  /\ \A e \in steady : InWindow(e) =>
       \/ e \in ToSet(read)
       \/ truncated /\ \A o \in ToSet(read) : Newer(o, e)

LEMMA ReadIsNewer ==
  ASSUME Written, Reached, NEW e \in Entries, Later(e), NEW o \in ToSet(read)
  PROVE  Newer(o, e)
<1>1. PICK i \in 1 .. Len(read) : read[i] = o
  BY ElementsOf DEF Reached
<1>2. read # <<>> /\ o \in Entries
  BY <1>1, ElementsOf DEF Reached
<1>3. cursor \in Entries /\ cursor = read[Len(read)] /\ cursor # None
  BY <1>2, StatsAssumption DEF Reached
<1>4. Newer(cursor, e)
  BY <1>3 DEF Later
<1>5. o = cursor \/ Newer(o, cursor)
  <2>1. Len(read) \in 1 .. Len(read) /\ DOMAIN read = 1 .. Len(read)
    BY <1>2, ElementsOf DEF Reached
  <2>2. i = Len(read) \/ i < Len(read)
    <3>1. Len(read) \in Nat
      BY ElementsOf DEF Reached
    <3> QED
      BY <3>1
  <2> QED
    BY <1>1, <1>3, <2>1, <2>2 DEF Reached, NewestFirst
<1> QED
  BY <1>2, <1>3, <1>4, <1>5, NewerTrans

\* A page appended to what was read leaves it in order.
LEMMA PageAppended ==
  ASSUME Written, Reached, NEW page \in Seq(Entries), NewestFirst(page),
         \A x \in ToSet(page) : Later(x)
  PROVE  NewestFirst(read \o page)
<1> DEFINE u == read \o page
<1>1. /\ u \in Seq(Entries) /\ Len(u) = Len(read) + Len(page)
      /\ \A i \in 1 .. Len(read) : u[i] = read[i]
      /\ \A i \in 1 .. Len(page) : u[Len(read) + i] = page[i]
      /\ DOMAIN u = 1 .. Len(u)
  BY Appended, ElementsOf DEF Reached
<1>2. /\ DOMAIN read = 1 .. Len(read) /\ Len(read) \in Nat
      /\ DOMAIN page = 1 .. Len(page) /\ Len(page) \in Nat
  BY ElementsOf DEF Reached
<1> HIDE DEF u
<1>3. ASSUME NEW i \in 1 .. Len(u), NEW j \in 1 .. Len(u), i < j
      PROVE  Newer(u[i], u[j])
  <2>1. CASE j <= Len(read)
    <3>1. i \in 1 .. Len(read) /\ j \in 1 .. Len(read)
      BY <1>2, <1>3, <2>1
    <3> QED
      BY <1>1, <1>2, <1>3, <3>1 DEF Reached, NewestFirst
  <2>2. CASE i <= Len(read) /\ ~(j <= Len(read))
    <3>1. i \in 1 .. Len(read) /\ j - Len(read) \in 1 .. Len(page)
          /\ Len(read) + (j - Len(read)) = j
      BY <1>1, <1>2, <2>2
    <3>2. u[i] \in ToSet(read) /\ u[j] \in ToSet(page) /\ u[j] \in Entries
      <4>1. u[j] = page[j - Len(read)]
        BY <1>1, <3>1
      <4>2. page[j - Len(read)] \in ToSet(page) /\ page[j - Len(read)] \in Entries
        BY <3>1, ElementsOf
      <4>3. u[i] = read[i] /\ read[i] \in ToSet(read)
        BY <1>1, <3>1, ElementsOf DEF Reached
      <4> QED
        BY <4>1, <4>2, <4>3
    <3> QED
      BY <3>2, ReadIsNewer
  <2>3. CASE ~(i <= Len(read))
    <3>1. /\ i - Len(read) \in 1 .. Len(page) /\ j - Len(read) \in 1 .. Len(page)
          /\ Len(read) + (i - Len(read)) = i /\ Len(read) + (j - Len(read)) = j
          /\ i - Len(read) < j - Len(read)
      BY <1>1, <1>2, <1>3, <2>3
    <3>2. u[i] = page[i - Len(read)] /\ u[j] = page[j - Len(read)]
      BY <1>1, <3>1
    <3> QED
      BY <1>2, <3>1, <3>2 DEF NewestFirst
  <2> QED
    BY <2>1, <2>2, <2>3
<1> QED
  BY <1>1, <1>3 DEF NewestFirst, u

LEMMA PrefixInOrder ==
  ASSUME NEW s \in Seq(Entries), NewestFirst(s), NEW t \in Seq(Entries),
         Len(t) <= Len(s), \A i \in 1 .. Len(t) : t[i] = s[i]
  PROVE  /\ NewestFirst(t)
         /\ \A e \in ToSet(s) : e \in ToSet(t) \/ \A o \in ToSet(t) : Newer(o, e)
<1>1. /\ DOMAIN s = 1 .. Len(s) /\ DOMAIN t = 1 .. Len(t)
      /\ Len(s) \in Nat /\ Len(t) \in Nat
  BY ElementsOf
<1>2. NewestFirst(t)
  <2>1. \A i \in 1 .. Len(t) : i \in 1 .. Len(s)
    BY <1>1
  <2> QED
    BY <1>1, <2>1 DEF NewestFirst
<1>3. ASSUME NEW e \in ToSet(s), e \notin ToSet(t), NEW o \in ToSet(t)
      PROVE  Newer(o, e)
  <2>1. PICK j \in 1 .. Len(s) : s[j] = e
    BY ElementsOf
  <2>2. PICK i \in 1 .. Len(t) : t[i] = o
    BY ElementsOf
  <2>3. ~(j \in 1 .. Len(t))
    BY <1>3, <2>1, ElementsOf
  <2>4. i < j /\ i \in 1 .. Len(s)
    BY <1>1, <2>3
  <2> QED
    BY <1>1, <2>1, <2>2, <2>4 DEF NewestFirst
<1> QED
  BY <1>2, <1>3

LEMMA PageScanned ==
  ASSUME Written, steady \subseteq stored, Reached,
         NEW found, Answer(found), PageArrives(found),
         steady' = steady, ever' = ever
  PROVE  \/ /\ step' = step /\ todo' = todo /\ truncated' = FALSE
            /\ Reached'
         \/ /\ step' = "hydrate" /\ truncated' \in BOOLEAN /\ cursor' = cursor
            /\ todo' = Ids(FirstOfFamily(read') \cup Unkeyed(read'))
            /\ Finished'
<1> DEFINE page == SubSeq(found, 1, Min({PageSize, Len(found)}))
           entries == read \o page
           cut == CutAtCap(entries)
           capped == page # <<>> /\ Len(entries) >= ScanCap
           more == ~capped /\ Len(found) > PageSize /\ Last(page) # cursor
<1>1. /\ truncated' = capped
      /\ read' = cut
      /\ cursor' = IF more THEN Last(page) ELSE cursor
      /\ IF more THEN step' = step /\ todo' = todo
         ELSE step' = "hydrate" /\ todo' = Ids(FirstOfFamily(cut) \cup Unkeyed(cut))
  BY DEF PageArrives, EndScan
<1>2. PageSize \in Nat \ {0} /\ ScanCap \in Nat \ {0} /\ None \notin Entries
  BY StatsAssumption
<1>3. /\ found \in Seq(Entries) /\ Len(found) \in Nat /\ DOMAIN found = 1 .. Len(found)
      /\ read \in Seq(Entries) /\ Len(read) \in Nat
  BY ElementsOf DEF Answer, Reached
<1>4. /\ page \in Seq(Entries) /\ Len(page) <= PageSize /\ Len(page) <= Len(found)
      /\ Len(page) = PageSize \/ page = found
      /\ \A i \in 1 .. Len(page) : page[i] = found[i]
      /\ ToSet(page) \subseteq ToSet(found)
      /\ Len(page) \in Nat
  <2>1. PageSize \in Nat
    BY <1>2
  <2> QED
    BY <1>3, <2>1, FirstOnes, ElementsOf
<1> HIDE DEF page
<1>5. /\ entries \in Seq(Entries) /\ Len(entries) = Len(read) + Len(page)
      /\ \A i \in 1 .. Len(page) : entries[Len(read) + i] = page[i]
      /\ ToSet(entries) = ToSet(read) \cup ToSet(page)
      /\ Len(entries) \in Nat
  BY <1>3, <1>4, Appended, ElementsOf
<1>6. NewestFirst(page) /\ \A x \in ToSet(page) : Later(x) /\ x \in ever /\ x \in Entries
  <2>1. NewestFirst(page)
    BY <1>3, <1>4, PrefixInOrder DEF Answer
  <2> QED
    BY <1>4, <2>1, ElementsOf DEF Answer
<1>7. NewestFirst(entries) /\ ToSet(entries) \subseteq ever
  <2>1. NewestFirst(read \o page)
    BY <1>4, <1>6, PageAppended
  <2> QED
    BY <1>5, <1>6, <2>1 DEF Reached
<1> HIDE DEF entries
<1>8. /\ cut \in Seq(Entries) /\ Len(cut) <= ScanCap /\ Len(cut) <= Len(entries)
      /\ Len(cut) = ScanCap \/ cut = entries
      /\ \A i \in 1 .. Len(cut) : cut[i] = entries[i]
      /\ ToSet(cut) \subseteq ToSet(entries)
  <2>1. ScanCap \in Nat
    BY <1>2
  <2> QED
    BY <1>5, <2>1, FirstOnes DEF CutAtCap
<1> HIDE DEF cut
<1>9. NewestFirst(cut) /\ ToSet(cut) \subseteq ever
  BY <1>5, <1>7, <1>8, PrefixInOrder
<1>10. \A e \in steady : e \in Entries
  BY DEF Written
<1>11. CASE more
  <2>1. Len(page) = PageSize /\ page # <<>> /\ Len(page) \in 1 .. Len(page)
    BY <1>2, <1>3, <1>4, <1>11, ElementsOf
  <2>2. Len(entries) < ScanCap
    BY <1>2, <1>5, <1>11, <2>1
  <2>3. cut = entries
    BY <1>2, <1>5, <1>8, <2>2
  <2>4. cursor' = page[Len(page)] /\ cursor' = found[Len(page)] /\ cursor' \in Entries
        /\ Len(page) \in 1 .. Len(found)
    BY <1>1, <1>3, <1>4, <1>11, <2>1, ElementsOf DEF Last
  <2>5. cut # <<>> /\ cursor' = cut[Len(cut)]
    <3>1. Len(entries) = Len(read) + Len(page) /\ entries[Len(read) + Len(page)] = page[Len(page)]
      BY <1>5, <2>1
    <3>2. Len(cut) # 0
      BY <1>3, <2>1, <2>3, <3>1
    <3> QED
      BY <2>3, <2>4, <3>1, <3>2
  <2>6. ASSUME NEW e \in steady, InWindow(e), e \notin ToSet(cut)
        PROVE  Newer(cursor', e)
    <3>1. e \notin ToSet(read) /\ e \notin ToSet(page)
      BY <1>5, <2>3, <2>6
    <3>2. Later(e)
      BY <2>6, <3>1 DEF Reached
    <3>3. CASE e \in ToSet(found)
      <4>1. e \in ToSet(page) \/ \A o \in ToSet(page) : Newer(o, e)
        BY <1>3, <1>4, <3>3, PrefixInOrder DEF Answer
      <4>2. page[Len(page)] \in ToSet(page)
        BY <1>4, <2>1, ElementsOf
      <4> QED
        BY <2>4, <3>1, <4>1, <4>2
    <3>4. CASE \A x \in ToSet(found) : Newer(x, e)
      BY <1>3, <2>4, <3>4, ElementsOf
    <3> QED
      BY <2>6, <3>2, <3>3, <3>4 DEF Answer
  <2>7. Reached'
    <3>1. \A e \in steady : InWindow(e) => e \in ToSet(cut) \/ Newer(cursor', e)
      BY <2>6
    <3>2. cursor' # None
      BY <1>2, <2>4
    <3> QED
      BY <1>1, <1>8, <1>9, <2>4, <2>5, <3>1, <3>2 DEF Reached, InWindow, Later, NewestFirst
  <2>8. ~capped
    BY <1>11
  <2> QED
    BY <1>1, <1>11, <2>7, <2>8
<1>12. CASE ~more
  <2>1. ASSUME NEW e \in steady, InWindow(e)
        PROVE  e \in ToSet(entries) \/ (capped /\ \A o \in ToSet(entries) : Newer(o, e))
    <3>1. CASE e \in ToSet(read) \cup ToSet(page)
      BY <1>5, <3>1
    <3>2. CASE ~(e \in ToSet(read) \cup ToSet(page))
      <4>1. Later(e) /\ e \in Entries
        BY <1>10, <2>1, <3>2 DEF Reached
      <4>2. \A o \in ToSet(read) : Newer(o, e)
        BY <4>1, ReadIsNewer
      <4>3. Len(found) > PageSize /\ \A o \in ToSet(page) : Newer(o, e)
        <5>1. CASE e \in ToSet(found)
          <6>1. page # found
            BY <3>2, <5>1
          <6>2. Len(page) = PageSize /\ Len(found) # Len(page)
            <7>1. Len(page) = PageSize
              BY <1>4, <6>1
            <7>2. ASSUME Len(found) = Len(page)
                  PROVE  page = found
              BY <1>3, <1>4, <7>2
            <7> QED
              BY <6>1, <7>1, <7>2
          <6>3. \A o \in ToSet(page) : Newer(o, e)
            BY <1>3, <1>4, <3>2, <5>1, PrefixInOrder DEF Answer
          <6>4. Len(found) > PageSize
            <7>1. Len(page) <= Len(found) /\ PageSize \in Nat /\ Len(found) \in Nat
              BY <1>2, <1>3, <1>4
            <7> QED
              BY <6>2, <7>1
          <6> QED
            BY <6>3, <6>4
        <5>2. CASE Len(found) > PageSize /\ \A x \in ToSet(found) : Newer(x, e)
          BY <1>4, <5>2
        <5>3. \/ e \in ToSet(found)
              \/ Len(found) > PageSize /\ \A x \in ToSet(found) : Newer(x, e)
          BY <2>1, <4>1 DEF Answer
        <5> QED
          BY <5>1, <5>2, <5>3, Zenon
      <4>4. Len(page) = PageSize /\ Len(page) \in 1 .. Len(page)
        BY <1>2, <1>3, <1>4, <4>3
      <4>5. Last(page) # cursor
        <5>1. Last(page) \in ToSet(page)
          BY <1>4, <4>4, ElementsOf DEF Last
        <5>2. Later(Last(page)) /\ Last(page) \in Entries
          BY <1>6, <5>1
        <5> QED
          BY <1>2, <5>2, NewerTrans DEF Later
      <4> QED
        BY <1>5, <1>12, <4>2, <4>3, <4>5
    <3> QED
      BY <3>1, <3>2
  <2>2. ASSUME NEW e \in ToSet(entries), e \notin ToSet(cut)
        PROVE  capped /\ \A o \in ToSet(cut) : Newer(o, e)
    <3>1. \A o \in ToSet(cut) : Newer(o, e)
      BY <1>5, <1>7, <1>8, <2>2, PrefixInOrder
    <3>2. Len(entries) > ScanCap
      <4>1. cut # entries /\ Len(cut) = ScanCap
        BY <1>8, <2>2
      <4>2. ASSUME Len(cut) = Len(entries)
            PROVE  cut = entries
        BY <1>5, <1>8, <4>2
      <4> QED
        BY <1>2, <1>5, <1>8, <4>1, <4>2
    <3>3. page # <<>>
      <4>1. ASSUME page = <<>>
            PROVE  FALSE
        <5>1. Len(entries) = Len(read)
          BY <1>3, <1>5, <4>1
        <5> QED
          BY <1>2, <1>3, <3>2, <5>1 DEF Reached
      <4> QED
        BY <4>1
    <3> QED
      BY <1>2, <1>5, <3>1, <3>2, <3>3
  <2>3. ASSUME NEW e \in steady, InWindow(e)
        PROVE  e \in ToSet(cut) \/ (capped /\ \A o \in ToSet(cut) : Newer(o, e))
    BY <1>8, <2>1, <2>2, <2>3
  <2>4. Finished'
    BY <1>1, <1>8, <1>9, <2>3 DEF Finished, InWindow, NewestFirst
  <2>5. capped \in BOOLEAN
    OBVIOUS
  <2> HIDE DEF capped, more
  <2> QED
    BY <1>1, <1>12, <2>4, <2>5
<1> QED
  BY <1>11, <1>12

-----------------------------------------------------------------------------
(* What get() answers.  In memory: everything past the cursor.             *)

LEMMA WindowAnswers ==
  ASSUME Written, steady \subseteq stored
  PROVE  Answer(Window)
<1> DEFINE S == {e \in stored : TimeOf[e] > WindowStart /\ (cursor # None => Past(e))}
<1>1. Window = InOrder(S, Newer)
  BY DEF Window
<1>2. \A e : e \in S <=> e \in stored /\ InWindow(e) /\ Later(e)
  BY DEF InWindow, Later, Past
<1> HIDE DEF S
<1>3. S \in SUBSET Entries /\ S \subseteq ever
  BY <1>2 DEF Written
<1>4. Window \in Seq(Entries) /\ ToSet(Window) = S /\ NewestFirst(Window)
  BY <1>1, <1>3, InNewer
<1> QED
  BY <1>2, <1>3, <1>4 DEF Answer

\* Redis: the members of the index not looked at.
Unlooked(e) == from # None => IndexBefore(from, e)

\* In Redis, between the round trips of a page: what was kept of the members looked
\* at is all of them that a page needs, and the members being fetched are next.
Paging ==
  /\ kept \subseteq ever /\ from \in Entries \cup {None}
  /\ from = None => kept = {}
  /\ \A x \in kept : Later(x) /\ (x = from \/ IndexBefore(x, from))
  /\ \A e \in steady : InWindow(e) /\ Later(e) => e \in kept \/ Unlooked(e)
  /\ members \in Seq(Entries) /\ Len(members) <= PageSize + 1
  /\ ToSet(members) \subseteq ever
  /\ \A i, j \in 1 .. Len(members) : i < j => IndexBefore(members[i], members[j])
  /\ \A x \in ToSet(members) : Unlooked(x)
  /\ members # <<>> =>
       \A e \in steady : InWindow(e) /\ Later(e) /\ Unlooked(e) =>
         \/ e \in ToSet(members)
         \/ Len(members) = PageSize + 1 /\ IndexBefore(members[Len(members)], e)

NoPage == members = <<>> /\ kept = {} /\ from = None

LEMMA NoPagePages == NoPage => Paging
<1> SUFFICES ASSUME NoPage PROVE Paging
  OBVIOUS
<1>1. members \in Seq(Entries) /\ Len(members) = 0 /\ ToSet(members) = {}
  BY DEF NoPage, ToSet
<1>2. PageSize \in Nat
  BY StatsAssumption
<1> QED
  BY <1>1, <1>2 DEF NoPage, Paging, Unlooked

LEMMA NextAre ==
  ASSUME Written, steady \subseteq stored, cursor \in Entries \cup {None}
  PROVE  /\ NextMembers \in Seq(Entries) /\ Len(NextMembers) <= PageSize + 1
         /\ ToSet(NextMembers) \subseteq ever
         /\ \A i, j \in 1 .. Len(NextMembers) :
              i < j => IndexBefore(NextMembers[i], NextMembers[j])
         /\ \A x \in ToSet(NextMembers) : Unlooked(x)
         /\ \A e \in steady : InWindow(e) /\ Later(e) /\ Unlooked(e) =>
              \/ e \in ToSet(NextMembers)
              \/ /\ Len(NextMembers) = PageSize + 1
                 /\ IndexBefore(NextMembers[Len(NextMembers)], e)
<1> DEFINE S == {e \in stored :
                   /\ TimeOf[e] > WindowStart
                   /\ IF from # None THEN IndexBefore(from, e)
                      ELSE cursor # None => TimeOf[e] <= TimeOf[cursor]}
           s == InOrder(S, IndexBefore)
           t == SubSeq(s, 1, Min({PageSize + 1, Len(s)}))
<1>1. NextMembers = t
  BY DEF NextMembers
<1>2. \A e \in S : e \in stored /\ Unlooked(e)
  BY DEF Unlooked
<1>3. ASSUME NEW e \in steady, InWindow(e), Later(e), Unlooked(e)
      PROVE  e \in S
  <2>1. e \in stored /\ e \in Entries
    BY DEF Written
  <2>2. cursor # None => TimeOf[e] <= TimeOf[cursor]
    BY <1>3, <2>1, EntryOrder DEF Later, Newer
  <2> QED
    BY <1>3, <2>1, <2>2 DEF Unlooked, InWindow
<1> HIDE DEF S
<1>4. S \in SUBSET Entries /\ S \subseteq ever
  BY <1>2 DEF Written
<1>5. /\ s \in Seq(Entries) /\ ToSet(s) = S
      /\ \A i, j \in DOMAIN s : i < j => IndexBefore(s[i], s[j])
  BY <1>4, InIndex
<1> HIDE DEF s
<1>6. PageSize + 1 \in Nat
  BY StatsAssumption
<1>7. /\ t \in Seq(Entries) /\ Len(t) <= PageSize + 1 /\ Len(t) <= Len(s)
      /\ Len(t) = PageSize + 1 \/ t = s
      /\ \A i \in 1 .. Len(t) : t[i] = s[i]
      /\ ToSet(t) \subseteq ToSet(s)
  BY <1>5, <1>6, FirstOnes
<1> HIDE DEF t
<1>8. /\ DOMAIN s = 1 .. Len(s) /\ Len(s) \in Nat
      /\ DOMAIN t = 1 .. Len(t) /\ Len(t) \in Nat
      /\ \A e \in S : \E i \in 1 .. Len(s) : s[i] = e
  BY <1>5, <1>7, ElementsOf
<1>9. \A i, j \in 1 .. Len(t) : i < j => IndexBefore(t[i], t[j])
  <2>1. \A i \in 1 .. Len(t) : i \in DOMAIN s
    BY <1>7, <1>8
  <2> QED
    BY <1>5, <1>7, <2>1
<1>10. ASSUME NEW e \in steady, InWindow(e), Later(e), Unlooked(e), e \notin ToSet(t)
       PROVE  Len(t) = PageSize + 1 /\ IndexBefore(t[Len(t)], e)
  <2>1. PICK j \in 1 .. Len(s) : s[j] = e
    BY <1>3, <1>8, <1>10
  <2>2. ~(j \in 1 .. Len(t))
    BY <1>7, <1>10, <2>1, ElementsOf
  <2>3. Len(t) = PageSize + 1
    <3>1. t # s
      BY <2>1, <2>2
    <3> QED
      BY <1>7, <3>1
  <2>4. Len(t) \in 1 .. Len(t) /\ Len(t) \in DOMAIN s /\ Len(t) < j /\ j \in DOMAIN s
    BY <1>6, <1>7, <1>8, <2>2, <2>3, StatsAssumption
  <2>5. t[Len(t)] = s[Len(t)]
    BY <1>7, <2>4
  <2> QED
    BY <1>5, <2>1, <2>3, <2>4, <2>5
<1>11. ToSet(t) \subseteq ever /\ \A x \in ToSet(t) : Unlooked(x)
  BY <1>2, <1>4, <1>5, <1>7
<1>12. t \in Seq(Entries) /\ Len(t) <= PageSize + 1
  BY <1>7
<1> QED
  BY <1>1, <1>9, <1>10, <1>11, <1>12

\* With nothing left in the index, what was kept is the answer.
LEMMA KeptAnswers ==
  ASSUME Written, steady \subseteq stored, cursor \in Entries \cup {None}, Paging,
         NextMembers = <<>>
  PROVE  Answer(InOrder(kept, Newer))
<1>1. ASSUME NEW e \in steady, InWindow(e), Later(e)
      PROVE  e \in kept
  <2>1. CASE Unlooked(e)
    <3>1. \/ e \in ToSet(NextMembers)
          \/ Len(NextMembers) = PageSize + 1
      BY <1>1, <2>1, NextAre
    <3>2. ToSet(NextMembers) = {} /\ Len(NextMembers) = 0 /\ PageSize \in Nat
      BY StatsAssumption DEF ToSet
    <3> QED
      BY <3>1, <3>2
  <2> QED
    BY <1>1, <2>1 DEF Paging
<1>2. kept \in SUBSET Entries /\ kept \subseteq ever
  BY DEF Paging, Written
<1> DEFINE s == InOrder(kept, Newer)
<1>3. s \in Seq(Entries) /\ ToSet(s) = kept /\ NewestFirst(s)
  BY <1>2, InNewer
<1> HIDE DEF s
<1>4. Answer(s)
  BY <1>1, <1>2, <1>3 DEF Answer, Paging
<1> QED
  BY <1>4 DEF s

\* The entries of the first members, and what of the set is kept so far.
Before(i) == kept \cup KeptOf(ToSet(SubSeq(members, 1, i - 1)))

LEMMA BeforeIs ==
  ASSUME Written, Paging, NEW i \in 1 .. Len(members) + 1
  PROVE  /\ \A x : x \in Before(i) <=>
                \/ x \in kept
                \/ x \in stored /\ Later(x) /\ \E j \in 1 .. i - 1 : members[j] = x
         /\ Before(i) \in SUBSET Entries /\ Before(i) \subseteq ever
         /\ \A x \in Before(i) : Later(x)
<1>1. members \in Seq(Entries) /\ Len(members) \in Nat
  BY DEF Paging
<1> DEFINE t == SubSeq(members, 1, i - 1)
<1>2. DOMAIN t = 1 .. i - 1 /\ \A j \in 1 .. i - 1 : t[j] = members[j]
  BY <1>1
<1> HIDE DEF t
<1>3. \A x : x \in ToSet(t) <=> \E j \in 1 .. i - 1 : members[j] = x
  BY <1>2 DEF ToSet
<1>4. Before(i) = kept \cup {e \in ToSet(t) \cap stored : cursor # None => Past(e)}
  BY DEF Before, KeptOf, Present, t
<1>5. \A x : x \in Before(i) <=>
           \/ x \in kept
           \/ x \in stored /\ Later(x) /\ \E j \in 1 .. i - 1 : members[j] = x
  BY <1>3, <1>4 DEF Later, Past
<1>6. kept \subseteq ever /\ stored \subseteq ever /\ ever \subseteq Entries
      /\ \A x \in kept : Later(x)
  BY DEF Paging, Written
<1> QED
  BY <1>5, <1>6

\* When the page is complete before the member at i, what is not kept is older.
LEMMA FullIsComplete ==
  ASSUME Written, steady \subseteq stored, Paging, members # <<>>,
         NEW i \in 1 .. Len(members),
         Full(Before(i), IF i = 1 THEN from ELSE members[i - 1], members[i])
  PROVE  /\ Cardinality(Before(i)) > PageSize
         /\ \A e \in steady : InWindow(e) /\ Later(e) =>
              e \in Before(i) \/ \A x \in Before(i) : Newer(x, e)
<1> DEFINE last == IF i = 1 THEN from ELSE members[i - 1]
<1>1. Cardinality(Before(i)) > PageSize /\ TimeOf[members[i]] # TimeOf[last]
  BY DEF Full
<1>2. /\ members \in Seq(Entries) /\ Len(members) \in Nat
      /\ \A k \in 1 .. Len(members) : members[k] \in Entries /\ members[k] \in ToSet(members)
      /\ from \in Entries \cup {None} /\ None \notin Entries
      /\ \A e \in ToSet(members) : \E k \in 1 .. Len(members) : members[k] = e
  BY ElementsOf, StatsAssumption DEF Paging
<1>3. i \in 1 .. Len(members) + 1 /\ i \in Nat
  BY <1>2
<1>4. /\ \A x : x \in Before(i) <=>
                \/ x \in kept
                \/ x \in stored /\ Later(x) /\ \E j \in 1 .. i - 1 : members[j] = x
      /\ Before(i) \in SUBSET Entries
  BY <1>3, BeforeIs
<1>5. Before(i) # {}
  <2>1. PageSize \in Nat /\ Cardinality({}) = 0
    BY StatsAssumption, FS_EmptySet
  <2>2. Before(i) = {} => Cardinality(Before(i)) = 0
    BY <2>1
  <2> QED
    BY <1>1, <2>1, <2>2
<1>6. \A x \in kept : from \in Entries /\ x \in Entries /\ (x = from \/ IndexBefore(x, from))
  BY <1>2 DEF Paging, Written
<1>7. last \in Entries /\ IndexBefore(last, members[i])
      /\ \A x \in Before(i) : x = last \/ IndexBefore(x, last)
  <2>1. CASE i = 1
    <3>1. Before(i) = kept
      <4>1. 1 .. i - 1 = {}
        BY <2>1
      <4>2. \A x : x \in Before(i) <=> x \in kept
        BY <1>4, <4>1
      <4> HIDE DEF Before
      <4> QED
        BY <4>2
    <3>2. from \in Entries /\ from # None
      BY <1>2, <1>5, <1>6, <3>1
    <3>3. IndexBefore(from, members[i])
      BY <1>2, <3>2 DEF Paging, Unlooked
    <3> QED
      BY <1>6, <2>1, <3>1, <3>2, <3>3
  <2>2. CASE i # 1
    <3>1. i - 1 \in 1 .. Len(members) /\ i - 1 < i /\ last = members[i - 1]
      BY <1>2, <1>3, <2>2
    <3>2. last \in Entries /\ IndexBefore(last, members[i])
      BY <1>2, <3>1 DEF Paging
    <3>3. ASSUME NEW x \in Before(i)
          PROVE  x = last \/ IndexBefore(x, last)
      <4>1. CASE x \in kept
        <5>1. from \in Entries /\ from # None /\ x \in Entries /\ (x = from \/ IndexBefore(x, from))
          BY <1>2, <1>6, <4>1
        <5>2. IndexBefore(from, last)
          BY <1>2, <3>1, <5>1 DEF Paging, Unlooked
        <5> QED
          BY <3>2, <5>1, <5>2, IndexTrans
      <4>2. CASE x \notin kept
        <5>1. PICK j \in 1 .. i - 1 : members[j] = x
          BY <1>4, <3>3, <4>2
        <5>2. j \in 1 .. Len(members) /\ (j = i - 1 \/ j < i - 1)
          BY <1>2, <1>3, <5>1
        <5> QED
          BY <3>1, <5>1, <5>2 DEF Paging
      <4> QED
        BY <4>1, <4>2
    <3> QED
      BY <3>2, <3>3
  <2> QED
    BY <2>1, <2>2
<1> HIDE DEF last
<1>8. TimeOf[last] > TimeOf[members[i]]
  BY <1>1, <1>2, <1>7, EntryOrder DEF IndexBefore
<1>9. \A x \in Before(i) : x \in Entries /\ TimeOf[x] >= TimeOf[last]
  BY <1>4, <1>7, EntryOrder DEF IndexBefore
<1>10. ASSUME NEW e \in steady, InWindow(e), Later(e), e \notin Before(i)
       PROVE  \A x \in Before(i) : Newer(x, e)
  <2>1. e \in stored /\ e \in Entries
    BY DEF Written
  <2>2. Unlooked(e)
    BY <1>4, <1>10 DEF Paging
  <2>3. e = members[i] \/ IndexBefore(members[i], e)
    <3>1. CASE e \in ToSet(members)
      <4>1. PICK k \in 1 .. Len(members) : members[k] = e
        BY <1>2, <3>1
      <4>2. ~(k \in 1 .. i - 1)
        BY <1>4, <1>10, <2>1, <4>1
      <4>3. k = i \/ i < k
        BY <1>2, <1>3, <4>2
      <4> QED
        BY <4>1, <4>3 DEF Paging
    <3>2. CASE IndexBefore(members[Len(members)], e)
      <4>1. Len(members) \in 1 .. Len(members) /\ (i = Len(members) \/ i < Len(members))
        BY <1>2
      <4>2. i = Len(members) \/ IndexBefore(members[i], members[Len(members)])
        BY <4>1 DEF Paging
      <4> QED
        BY <1>2, <2>1, <3>2, <4>1, <4>2, IndexTrans
    <3>3. e \in ToSet(members) \/ IndexBefore(members[Len(members)], e)
      BY <1>10, <2>2 DEF Paging
    <3> QED
      BY <3>1, <3>2, <3>3
  <2>4. TimeOf[members[i]] >= TimeOf[e]
    BY <1>2, <2>1, <2>3, EntryOrder DEF IndexBefore
  <2> QED
    BY <1>2, <1>7, <1>8, <1>9, <2>1, <2>4, EntryOrder DEF Newer
<1> QED
  BY <1>1, <1>10

LEMMA SetAnswers ==
  ASSUME Written, NEW S \in SUBSET Entries, S \subseteq ever, \A x \in S : Later(x),
         \A e \in steady : InWindow(e) /\ Later(e) =>
           \/ e \in S
           \/ Cardinality(S) > PageSize /\ \A x \in S : Newer(x, e)
  PROVE  Answer(InOrder(S, Newer))
<1> DEFINE s == InOrder(S, Newer)
<1>1. s \in Seq(Entries) /\ ToSet(s) = S /\ NewestFirst(s) /\ Len(s) = Cardinality(S)
  BY InNewer
<1> HIDE DEF s
<1>2. Answer(s)
  BY <1>1 DEF Answer
<1> QED
  BY <1>2 DEF s

ReportSteps == {"idle", "scan", "hydrate", "fallback", "rollups", "rows", "done"}

Scanning ==
  /\ step \in ReportSteps
  /\ steady \subseteq stored
  /\ cursor \in Entries \cup {None} /\ truncated \in BOOLEAN
  /\ provider = "memory" => NoPage
  /\ step = "idle" => read = <<>> /\ cursor = None
  /\ step = "scan" => Reached /\ Paging
  /\ step # "scan" => NoPage
  /\ Scanned => Finished

LEMMA NoPagePrimed == NoPage' => Paging'
<1> SUFFICES ASSUME NoPage' PROVE Paging'
  OBVIOUS
<1>1. members' \in Seq(Entries) /\ Len(members') = 0 /\ ToSet(members') = {}
  BY DEF NoPage, ToSet
<1>2. PageSize \in Nat
  BY StatsAssumption
<1> QED
  BY <1>1, <1>2 DEF NoPage, Paging, Unlooked

LEMMA ScanInit == StatsInit => Scanning
BY DEF StatsInit, Scanning, ReportSteps, NoPage, Scanned

\* The writers only add to what was ever stored, and take from what is steady.
LEMMA WritersScan ==
  ASSUME Scanning, UNCHANGED reportVars, provider' = provider, ever \subseteq ever',
         steady' \subseteq steady, steady' \subseteq stored'
  PROVE  Scanning'
<1>1. /\ step' = step /\ read' = read /\ cursor' = cursor /\ truncated' = truncated
      /\ members' = members /\ kept' = kept /\ from' = from
  BY DEF reportVars, scanVars, pageVars
<1>2. Reached => Reached'
  BY <1>1 DEF Reached, InWindow, Later, NewestFirst
<1>3. Paging => Paging'
  <2> SUFFICES ASSUME Paging PROVE Paging'
    OBVIOUS
  <2>1. /\ kept' \subseteq ever' /\ from' \in Entries \cup {None}
        /\ from' = None => kept' = {}
        /\ members' \in Seq(Entries) /\ Len(members') <= PageSize + 1
        /\ ToSet(members') \subseteq ever'
        /\ \A i, j \in 1 .. Len(members') : i < j => IndexBefore(members'[i], members'[j])
    BY <1>1 DEF Paging
  <2>2. /\ \A x \in kept : Later(x)' /\ (x = from' \/ IndexBefore(x, from'))
        /\ \A x \in ToSet(members) : Unlooked(x)'
    BY <1>1 DEF Paging, Later, Unlooked
  <2>3. \A e \in steady' : InWindow(e) /\ Later(e)' => e \in kept' \/ Unlooked(e)'
    BY <1>1 DEF Paging, Later, Unlooked, InWindow
  <2>4. members # <<>> =>
          \A e \in steady' : InWindow(e) /\ Later(e)' /\ Unlooked(e)' =>
            \/ e \in ToSet(members)
            \/ Len(members) = PageSize + 1 /\ IndexBefore(members[Len(members)], e)
    BY <1>1 DEF Paging, Later, Unlooked, InWindow
  <2> QED
    BY <1>1, <2>1, <2>2, <2>3, <2>4 DEF Paging, InWindow
<1>4. Finished => Finished'
  BY <1>1 DEF Finished, InWindow, NewestFirst
<1> QED
  BY <1>1, <1>2, <1>3, <1>4 DEF Scanning, NoPage, Scanned

LEMMA AskScan ==
  ASSUME Written, Scanning, Ask
  PROVE  Scanning'
<1>1. /\ step = "idle" /\ step' = "scan" /\ steady' = stored
      /\ UNCHANGED <<stored, ever, provider, read, cursor, truncated, members, kept, from>>
  BY DEF Ask, storeVars, scanVars, pageVars
<1>2. read = <<>> /\ cursor = None /\ NoPage
  BY <1>1 DEF Scanning
<1>3. NoPage'
  BY <1>1, <1>2 DEF NoPage
<1>4. Reached'
  <2>1. read' = <<>> /\ cursor' = None /\ Len(<<>>) = 0 /\ ToSet(<<>>) = {}
        /\ <<>> \in Seq(Entries) /\ ScanCap \in Nat
    BY <1>1, <1>2, StatsAssumption DEF ToSet
  <2>2. NewestFirst(<<>>)
    BY DEF NewestFirst
  <2> QED
    BY <2>1, <2>2 DEF Reached, InWindow, Later, NewestFirst
<1> QED
  BY <1>1, <1>3, <1>4, NoPagePrimed DEF Scanning, ReportSteps, Scanned

\* A page that arrives leaves the scan reached or finished.
LEMMA ArrivedScan ==
  ASSUME Written, Scanning, step = "scan", NEW found, Answer(found), PageArrives(found),
         NoPage', UNCHANGED <<stored, steady, ever, provider>>
  PROVE  Scanning'
<1>1. steady \subseteq stored /\ Reached
  BY DEF Scanning
<1>2. \/ /\ step' = step /\ todo' = todo /\ truncated' = FALSE
         /\ Reached'
      \/ /\ step' = "hydrate" /\ truncated' \in BOOLEAN /\ cursor' = cursor
         /\ todo' = Ids(FirstOfFamily(read') \cup Unkeyed(read'))
         /\ Finished'
  BY <1>1, PageScanned
<1>3. CASE step' = step /\ truncated' = FALSE /\ Reached'
  BY <1>1, <1>3, NoPagePrimed DEF Scanning, ReportSteps, Scanned, Reached
<1>4. CASE step' = "hydrate" /\ truncated' \in BOOLEAN /\ cursor' = cursor /\ Finished'
  BY <1>1, <1>4 DEF Scanning, ReportSteps, Scanned
<1> QED
  BY <1>2, <1>3, <1>4

LEMMA PageScan ==
  ASSUME Written, Scanning, ScanPage
  PROVE  Scanning'
<1>1. /\ step = "scan" /\ provider = "memory" /\ PageArrives(Window)
      /\ UNCHANGED <<stored, ever, provider, steady, members, kept, from>>
  BY DEF ScanPage, storeVars, pageVars
<1>2. NoPage'
  BY <1>1 DEF Scanning, NoPage
<1>3. Answer(Window)
  BY WindowAnswers DEF Scanning
<1> QED
  BY <1>1, <1>2, <1>3, ArrivedScan

LEMMA MembersScan ==
  ASSUME Written, Scanning, ReadMembers
  PROVE  Scanning'
<1>1. /\ step = "scan" /\ provider = "redis" /\ members = <<>>
      /\ UNCHANGED <<stored, ever, provider, steady>>
      /\ Paging /\ Reached /\ steady \subseteq stored /\ cursor \in Entries \cup {None}
  BY DEF ReadMembers, storeVars, Scanning
<1>2. CASE NextMembers = <<>>
  <2>1. /\ PageArrives(InOrder(kept, Newer))
        /\ kept' = {} /\ from' = None /\ members' = members
    BY <1>2 DEF ReadMembers
  <2>2. Answer(InOrder(kept, Newer))
    BY <1>1, <1>2, KeptAnswers
  <2>3. NoPage'
    BY <1>1, <2>1 DEF NoPage
  <2> QED
    BY <1>1, <2>1, <2>2, <2>3, ArrivedScan
<1>3. CASE NextMembers # <<>>
  <2>1. /\ members' = NextMembers
        /\ UNCHANGED <<step, read, cursor, truncated, kept, from>>
    BY <1>3 DEF ReadMembers, scanVars
  <2> DEFINE s == NextMembers
  <2>2. /\ s \in Seq(Entries) /\ Len(s) <= PageSize + 1 /\ ToSet(s) \subseteq ever
        /\ \A i, j \in 1 .. Len(s) : i < j => IndexBefore(s[i], s[j])
        /\ \A x \in ToSet(s) : Unlooked(x)
        /\ \A e \in steady : InWindow(e) /\ Later(e) /\ Unlooked(e) =>
             \/ e \in ToSet(s)
             \/ Len(s) = PageSize + 1 /\ IndexBefore(s[Len(s)], e)
    BY <1>1, NextAre
  <2> HIDE DEF s
  <2>3. members' = s
    BY <2>1 DEF s
  <2>4. \A e : (Later(e)' <=> Later(e)) /\ (Unlooked(e)' <=> Unlooked(e))
    BY <2>1 DEF Later, Unlooked
  <2>5. /\ kept' \subseteq ever' /\ from' \in Entries \cup {None}
        /\ from' = None => kept' = {}
        /\ \A x \in kept' : Later(x)' /\ (x = from' \/ IndexBefore(x, from'))
        /\ \A e \in steady' : InWindow(e) /\ Later(e)' => e \in kept' \/ Unlooked(e)'
    BY <1>1, <2>1, <2>4 DEF Paging
  <2>6. Paging'
    BY <1>1, <2>2, <2>3, <2>4, <2>5 DEF Paging, InWindow
  <2>7. Reached'
    BY <1>1, <2>1 DEF Reached, Later, InWindow, NewestFirst
  <2> QED
    BY <1>1, <2>1, <2>6, <2>7 DEF Scanning, Scanned
<1> QED
  BY <1>2, <1>3

\* Where ReadEntries stops, and what it has by then.
LEMMA Stopped ==
  ASSUME Written, Scanning, ReadEntries
  PROVE  \E k \in 1 .. Len(members) + 1 :
           /\ \/ /\ k \in 1 .. Len(members)
                 /\ Full(Before(k), IF k = 1 THEN from ELSE members[k - 1], members[k])
              \/ k = Len(members) + 1
           /\ IF k \in 1 .. Len(members) \/ Len(members) <= PageSize
                THEN /\ PageArrives(InOrder(Before(k), Newer))
                     /\ kept' = {} /\ from' = None
                ELSE /\ kept' = Before(k) /\ from' = Last(members)
                     /\ UNCHANGED <<step, scanVars, todo>>
<1>1. step = "scan" /\ members # <<>>
  BY DEF ReadEntries, Scanning, NoPage
<1>2. members \in Seq(Entries) /\ Len(members) \in Nat /\ DOMAIN members = 1 .. Len(members)
  BY <1>1 DEF Scanning, Paging
<1> DEFINE stops == {i \in DOMAIN members :
                       Full(Before(i), IF i = 1 THEN from ELSE members[i - 1], members[i])}
           k == Min(stops \cup {Len(members) + 1})
<1>3. IF stops # {} \/ Len(members) <= PageSize
        THEN /\ PageArrives(InOrder(Before(k), Newer))
             /\ kept' = {} /\ from' = None
        ELSE /\ kept' = Before(k) /\ from' = Last(members)
             /\ UNCHANGED <<step, scanVars, todo>>
  BY DEF ReadEntries, Before
<1>4. \A i \in stops : /\ i \in 1 .. Len(members)
                       /\ Full(Before(i), IF i = 1 THEN from ELSE members[i - 1], members[i])
  BY <1>2
<1> HIDE DEF stops
<1>5. stops \cup {Len(members) + 1} \in SUBSET Nat
  BY <1>2, <1>4
<1>6. k \in stops \cup {Len(members) + 1} /\ \A y \in stops \cup {Len(members) + 1} : k <= y
  BY <1>5, LeastIsMin
<1> HIDE DEF k
<1>7. (k \in 1 .. Len(members)) <=> stops # {}
  <2>1. CASE k \in stops
    BY <1>4, <2>1
  <2>2. CASE k = Len(members) + 1
    <3>1. ~(k \in 1 .. Len(members))
      BY <1>2, <2>2
    <3>2. stops = {}
      <4>1. ASSUME NEW i \in stops
            PROVE  FALSE
        <5>1. k <= i /\ i \in 1 .. Len(members)
          BY <1>4, <1>6
        <5> QED
          BY <1>2, <2>2, <5>1
      <4> QED
        BY <4>1
    <3> QED
      BY <3>1, <3>2
  <2> QED
    BY <1>6, <2>1, <2>2
<1>8. k \in 1 .. Len(members) + 1
  BY <1>2, <1>4, <1>6
<1>9. \/ /\ k \in 1 .. Len(members)
         /\ Full(Before(k), IF k = 1 THEN from ELSE members[k - 1], members[k])
      \/ k = Len(members) + 1
  BY <1>4, <1>6
<1>10. IF k \in 1 .. Len(members) \/ Len(members) <= PageSize
         THEN /\ PageArrives(InOrder(Before(k), Newer))
              /\ kept' = {} /\ from' = None
         ELSE /\ kept' = Before(k) /\ from' = Last(members)
              /\ UNCHANGED <<step, scanVars, todo>>
  BY <1>3, <1>7
<1> QED
  BY <1>8, <1>9, <1>10

LEMMA EntriesScan ==
  ASSUME Written, Scanning, ReadEntries
  PROVE  Scanning'
<1>1. /\ members # <<>> /\ members' = <<>>
      /\ UNCHANGED <<stored, ever, provider, steady>>
  BY DEF ReadEntries, storeVars
<1>2. /\ step = "scan" /\ Paging /\ Reached /\ steady \subseteq stored
      /\ cursor \in Entries \cup {None}
  BY <1>1 DEF Scanning, NoPage
<1>3. /\ members \in Seq(Entries) /\ Len(members) \in 1 .. Len(members) /\ Len(members) \in Nat
      /\ \A e \in ToSet(members) : \E j \in 1 .. Len(members) : members[j] = e
      /\ \A j \in 1 .. Len(members) : members[j] \in ToSet(members) /\ members[j] \in Entries
      /\ PageSize \in Nat /\ None \notin Entries
  BY <1>1, <1>2, ElementsOf, StatsAssumption DEF Paging
<1>4. PICK k \in 1 .. Len(members) + 1 :
           /\ \/ /\ k \in 1 .. Len(members)
                 /\ Full(Before(k), IF k = 1 THEN from ELSE members[k - 1], members[k])
              \/ k = Len(members) + 1
           /\ IF k \in 1 .. Len(members) \/ Len(members) <= PageSize
                THEN /\ PageArrives(InOrder(Before(k), Newer))
                     /\ kept' = {} /\ from' = None
                ELSE /\ kept' = Before(k) /\ from' = Last(members)
                     /\ UNCHANGED <<step, scanVars, todo>>
  BY Stopped
<1>5. /\ \A x : x \in Before(k) <=>
                \/ x \in kept
                \/ x \in stored /\ Later(x) /\ \E j \in 1 .. k - 1 : members[j] = x
      /\ Before(k) \in SUBSET Entries /\ Before(k) \subseteq ever
      /\ \A x \in Before(k) : Later(x)
  BY <1>2, BeforeIs
<1>6. \A e \in steady : e \in stored /\ e \in Entries
  BY <1>2 DEF Written
\* All members were looked at.
<1>7. ASSUME k = Len(members) + 1, NEW e \in steady, InWindow(e), Later(e)
      PROVE  \/ e \in Before(k)
             \/ Len(members) = PageSize + 1 /\ IndexBefore(members[Len(members)], e)
  <2>1. CASE e \in kept
    BY <1>5, <2>1
  <2>2. CASE e \in ToSet(members)
    <3>1. PICK j \in 1 .. Len(members) : members[j] = e
      BY <1>3, <2>2
    <3>2. j \in 1 .. k - 1
      BY <1>3, <1>7
    <3> QED
      BY <1>5, <1>6, <1>7, <3>1, <3>2
  <2>3. CASE e \notin kept /\ e \notin ToSet(members)
    <3>1. Unlooked(e)
      BY <1>2, <1>7, <2>3 DEF Paging
    <3> QED
      BY <1>1, <1>2, <1>7, <2>3, <3>1 DEF Paging
  <2> QED
    BY <2>1, <2>2, <2>3
<1>8. CASE k \in 1 .. Len(members) \/ Len(members) <= PageSize
  <2>1. PageArrives(InOrder(Before(k), Newer)) /\ kept' = {} /\ from' = None
    BY <1>4, <1>8
  <2>2. \A e \in steady : InWindow(e) /\ Later(e) =>
           \/ e \in Before(k)
           \/ Cardinality(Before(k)) > PageSize /\ \A x \in Before(k) : Newer(x, e)
    <3>1. CASE k \in 1 .. Len(members)
      <4>1. Full(Before(k), IF k = 1 THEN from ELSE members[k - 1], members[k])
        BY <1>3, <1>4, <3>1
      <4> QED
        BY <1>1, <1>2, <3>1, <4>1, FullIsComplete
    <3>2. CASE k = Len(members) + 1
      <4>1. Len(members) # PageSize + 1
        BY <1>3, <1>8, <3>2
      <4> QED
        BY <1>7, <3>2, <4>1
    <3> QED
      BY <1>4, <3>1, <3>2
  <2>3. Answer(InOrder(Before(k), Newer))
    BY <1>5, <2>2, SetAnswers
  <2>4. NoPage'
    BY <1>1, <2>1 DEF NoPage
  <2> QED
    BY <1>1, <1>2, <2>1, <2>3, <2>4, ArrivedScan
<1>9. CASE ~(k \in 1 .. Len(members) \/ Len(members) <= PageSize)
  <2>1. /\ kept' = Before(k) /\ from' = members[Len(members)] /\ k = Len(members) + 1
        /\ UNCHANGED <<step, read, cursor, truncated>>
    BY <1>4, <1>9 DEF Last, scanVars
  <2>2. from' \in Entries /\ from' # None
    BY <1>3, <2>1
  <2>3. \A e : (Later(e)' <=> Later(e)) /\ (Unlooked(e)' <=> IndexBefore(from', e))
    BY <2>1, <2>2 DEF Later, Unlooked
  <2>4. ASSUME NEW x \in Before(k)
        PROVE  x = from' \/ IndexBefore(x, from')
    <3>1. CASE x \in kept
      <4>1. from \in Entries /\ from # None /\ x \in Entries /\ (x = from \/ IndexBefore(x, from))
        BY <1>2, <1>3, <1>5, <3>1 DEF Paging
      <4>2. IndexBefore(from, from')
        BY <1>2, <1>3, <2>1, <4>1 DEF Paging, Unlooked
      <4> QED
        BY <2>2, <4>1, <4>2, IndexTrans
    <3>2. CASE x \notin kept
      <4>1. PICK j \in 1 .. k - 1 : members[j] = x
        BY <1>5, <2>4, <3>2
      <4>2. j \in 1 .. Len(members) /\ (j = Len(members) \/ j < Len(members))
        BY <1>3, <2>1, <4>1
      <4> QED
        BY <1>2, <1>3, <2>1, <4>1, <4>2 DEF Paging
    <3> QED
      BY <3>1, <3>2
  <2>5. ASSUME NEW e \in steady, InWindow(e), Later(e)
        PROVE  e \in Before(k) \/ IndexBefore(from', e)
    BY <1>7, <2>1, <2>5
  <2>6. Paging'
    <3>1. members' \in Seq(Entries) /\ Len(members') = 0 /\ ToSet(members') = {}
      BY <1>1 DEF ToSet
    <3>2. \A e \in steady' : InWindow(e) /\ Later(e)' => e \in kept' \/ Unlooked(e)'
      BY <1>1, <2>1, <2>3, <2>5
    <3>3. \A x \in kept' : Later(x)' /\ (x = from' \/ IndexBefore(x, from'))
      BY <1>5, <2>1, <2>3, <2>4
    <3> QED
      BY <1>1, <1>3, <1>5, <2>1, <2>2, <3>1, <3>2, <3>3 DEF Paging, InWindow
  <2>7. Reached'
    BY <1>1, <1>2, <2>1 DEF Reached, Later, InWindow, NewestFirst
  <2>8. provider # "memory"
    BY <1>1 DEF Scanning, NoPage
  <2> QED
    BY <1>1, <1>2, <2>1, <2>6, <2>7, <2>8 DEF Scanning, Scanned
<1> QED
  BY <1>8, <1>9

\* The rest of a report leaves its scan alone.
LEMMA RestScan ==
  ASSUME Written, Scanning, HydratePage \/ Hydrated \/ ReadRollups \/ ReadRow
  PROVE  Scanning'
<1>1. /\ UNCHANGED <<stored, ever, provider, steady, read, cursor, truncated, members, kept, from>>
      /\ step \in {"hydrate", "fallback", "rollups", "rows"}
      /\ step' \in {"hydrate", "fallback", "rollups", "rows", "done"}
  BY DEF HydratePage, Hydrated, ReadRollups, ReadRow, ReadRows, storeVars, scanVars, pageVars
<1>2. Finished => Finished'
  BY <1>1 DEF Finished, InWindow, NewestFirst
<1> QED
  BY <1>1, <1>2 DEF Scanning, ReportSteps, Scanned, NoPage

LEMMA ScanNext == Written /\ Scanning /\ [StatsNext]_statsVars => Scanning'
<1> SUFFICES ASSUME Written, Scanning, [StatsNext]_statsVars PROVE Scanning'
  OBVIOUS
<1>1. ASSUME NEW C \in SUBSET (Entries \ ever), StoreChunk(C)
      PROVE  Scanning'
  <2>1. steady \subseteq stored
    BY DEF Scanning
  <2> QED
    BY <1>1, <2>1, WritersScan DEF StoreChunk
<1>2. ASSUME NEW M, RecordRollups(M) \/ RollupsFail(M)
      PROVE  Scanning'
  <2>1. steady \subseteq stored
    BY DEF Scanning
  <2> QED
    BY <1>2, <2>1, WritersScan DEF RecordRollups, RollupsFail
<1>3. CASE Prune
  <2>1. steady \subseteq stored
    BY DEF Scanning
  <2> QED
    BY <1>3, <2>1, WritersScan DEF Prune
<1>4. CASE UNCHANGED statsVars
  <2>1. steady \subseteq stored
    BY DEF Scanning
  <2> QED
    BY <1>4, <2>1, WritersScan DEF statsVars, storeVars
<1> QED
  BY <1>1, <1>2, <1>3, <1>4, AskScan, PageScan, MembersScan, EntriesScan, RestScan DEF StatsNext

-----------------------------------------------------------------------------
(* The contents: what the report shows of a family is fetched with its     *)
(* first row, or else with each of its rows, unless the row is gone.       *)

Gone(e) == e \notin stored
Fetched(e) == e \in contents \/ e \in ToSet(todo) \/ Gone(e)

Hydration ==
  /\ todo \in Seq(Entries) /\ ToSet(todo) \subseteq ToSet(read)
  /\ contents \subseteq ToSet(read)
  /\ step \in {"idle", "scan"} => contents = {} /\ todo = <<>>
  /\ step = "hydrate" => \A e \in FirstOfFamily(read) \cup Unkeyed(read) : Fetched(e)
  /\ step = "fallback" => \A e \in PerRow(read) \cup Unkeyed(read) : Fetched(e)
  /\ step \in {"rollups", "rows", "done"} =>
       \A e \in PerRow(read) \cup Unkeyed(read) : e \in contents \/ Gone(e)

LEMMA ReadIs ==
  ASSUME Written, Scanning
  PROVE  /\ read \in Seq(Entries) /\ ToSet(read) \subseteq ever
         /\ ToSet(read) \subseteq Entries /\ DOMAIN read = 1 .. Len(read)
         /\ Len(read) \in Nat /\ Len(read) <= ScanCap /\ NewestFirst(read)
<1>1. CASE step = "idle"
  <2>1. /\ read = <<>> /\ Len(<<>>) = 0 /\ ToSet(<<>>) = {}
        /\ <<>> \in Seq(Entries) /\ ScanCap \in Nat
    BY <1>1, StatsAssumption DEF Scanning, ToSet
  <2>2. NewestFirst(<<>>) /\ DOMAIN <<>> = {} /\ 1 .. 0 = {}
    BY DEF NewestFirst
  <2> QED
    BY <2>1, <2>2
<1>2. CASE step = "scan"
  BY <1>2, ElementsOf DEF Scanning, Reached
<1>3. CASE step # "idle" /\ step # "scan"
  <2>1. Finished
    BY <1>3 DEF Scanning, Scanned
  <2> QED
    BY <2>1, ElementsOf DEF Finished
<1> QED
  BY <1>1, <1>2, <1>3

LEMMA RowsOfRead ==
  ASSUME NEW s \in Seq(Entries)
  PROVE  /\ FirstOfFamily(s) \subseteq ToSet(s) /\ Unkeyed(s) \subseteq ToSet(s)
         /\ PerRow(s) \subseteq ToSet(s)
BY DEF FirstOfFamily, Unkeyed, PerRow, ToSet

\* Every family has a first row.
LEMMA FamilyHasFirst ==
  ASSUME NEW s \in Seq(Entries), NEW e \in ToSet(s), FamilyOf[e] # None
  PROVE  \E f \in FirstOfFamily(s) : FamilyOf[f] = FamilyOf[e]
<1>1. /\ DOMAIN s = 1 .. Len(s) /\ Len(s) \in Nat
      /\ \E i \in 1 .. Len(s) : s[i] = e
  BY ElementsOf
<1> DEFINE T == {i \in 1 .. Len(s) : FamilyOf[s[i]] = FamilyOf[e]}
<1>2. PICK i \in T : \A j \in T : i <= j
  <2>1. T \in SUBSET Nat /\ T # {}
    BY <1>1
  <2> HIDE DEF T
  <2> QED
    BY <2>1, LeastOf
<1>3. i \in 1 .. Len(s) /\ FamilyOf[s[i]] = FamilyOf[e]
  BY <1>2
<1>4. ASSUME NEW j \in 1 .. i - 1
      PROVE  FamilyOf[s[j]] # FamilyOf[s[i]]
  <2>1. j \in 1 .. Len(s) /\ ~(i <= j)
    BY <1>1, <1>3
  <2> QED
    BY <1>2, <1>3, <2>1
<1> HIDE DEF T
<1>5. s[i] \in FirstOfFamily(s)
  BY <1>1, <1>3, <1>4 DEF FirstOfFamily
<1> QED
  BY <1>3, <1>5

LEMMA IdsAre ==
  ASSUME NEW S \in SUBSET Entries
  PROVE  Ids(S) \in Seq(Entries) /\ ToSet(Ids(S)) = S
BY InNewer DEF Ids

LEMMA HydrationInit == StatsInit => Hydration
<1> SUFFICES ASSUME StatsInit PROVE Hydration
  OBVIOUS
<1>1. <<>> \in Seq(Entries) /\ ToSet(<<>>) = {}
  BY DEF ToSet
<1> QED
  BY <1>1 DEF StatsInit, Hydration

\* The writers: what was read is not stored a second time.
LEMMA WritersHydration ==
  ASSUME Written, Scanning, Hydration, UNCHANGED reportVars,
         \A e \in ever : e \in stored' => e \in stored
  PROVE  Hydration'
<1>1. /\ step' = step /\ read' = read /\ todo' = todo /\ contents' = contents
  BY DEF reportVars, scanVars
<1>2. /\ FirstOfFamily(read)' = FirstOfFamily(read)
      /\ Unkeyed(read)' = Unkeyed(read)
      /\ PerRow(read)' = PerRow(read)
  BY <1>1 DEF FirstOfFamily, Unkeyed, PerRow
<1>3. \A e \in ToSet(read) : (Gone(e) => Gone(e)') /\ (Fetched(e) => Fetched(e)')
  BY <1>1, ReadIs DEF Gone, Fetched
<1>4. /\ FirstOfFamily(read) \subseteq ToSet(read) /\ Unkeyed(read) \subseteq ToSet(read)
      /\ PerRow(read) \subseteq ToSet(read)
  BY ReadIs, RowsOfRead
<1>5. step = "hydrate" => \A e \in FirstOfFamily(read) \cup Unkeyed(read) : Fetched(e)'
  BY <1>3, <1>4 DEF Hydration
<1>6. step = "fallback" => \A e \in PerRow(read) \cup Unkeyed(read) : Fetched(e)'
  BY <1>3, <1>4 DEF Hydration
<1>7. step \in {"rollups", "rows", "done"} =>
        \A e \in PerRow(read) \cup Unkeyed(read) : e \in contents \/ Gone(e)'
  BY <1>3, <1>4 DEF Hydration
<1> QED
  BY <1>1, <1>2, <1>5, <1>6, <1>7 DEF Hydration

\* A page that arrives goes on with the scan, or ends it.
LEMMA Arrives ==
  ASSUME Written, Scanning, ScanPage \/ ReadMembers \/ ReadEntries
  PROVE  /\ step = "scan" /\ contents' = contents /\ stored' = stored
         /\ \/ step' = "scan" /\ todo' = todo
            \/ step' = "hydrate" /\ todo' = Ids(FirstOfFamily(read') \cup Unkeyed(read'))
<1>1. step = "scan" /\ contents' = contents /\ stored' = stored
  BY DEF ScanPage, ReadMembers, ReadEntries, storeVars, Scanning, NoPage
<1>2. ASSUME NEW found, PageArrives(found)
      PROVE  \/ step' = step /\ todo' = todo
             \/ step' = "hydrate" /\ todo' = Ids(FirstOfFamily(read') \cup Unkeyed(read'))
  BY <1>2 DEF PageArrives, EndScan
<1>3. (\E found : PageArrives(found)) \/ (step' = step /\ todo' = todo)
  <2>1. CASE ScanPage
    BY <2>1 DEF ScanPage
  <2>2. CASE ReadMembers
    BY <2>2 DEF ReadMembers
  <2>3. CASE ReadEntries
    BY <2>3, Stopped
  <2> QED
    BY <2>1, <2>2, <2>3
<1> QED
  BY <1>1, <1>2, <1>3

LEMMA ArrivesHydration ==
  ASSUME Written, Scanning, Hydration, ScanPage \/ ReadMembers \/ ReadEntries, Scanning'
  PROVE  Hydration'
<1>1. /\ step = "scan" /\ contents' = contents /\ contents = {} /\ todo = <<>>
      /\ \/ step' = "scan" /\ todo' = todo
         \/ step' = "hydrate" /\ todo' = Ids(FirstOfFamily(read') \cup Unkeyed(read'))
  BY Arrives DEF Hydration
<1>2. read' \in Seq(Entries)
  BY <1>1 DEF Scanning, Scanned, Reached, Finished
<1>3. CASE step' = "scan" /\ todo' = todo
  <2>1. <<>> \in Seq(Entries) /\ ToSet(<<>>) = {}
    BY DEF ToSet
  <2> QED
    BY <1>1, <1>3, <2>1 DEF Hydration
<1>4. CASE step' = "hydrate" /\ todo' = Ids(FirstOfFamily(read') \cup Unkeyed(read'))
  <2> DEFINE S == FirstOfFamily(read') \cup Unkeyed(read')
  <2>1. S \subseteq ToSet(read') /\ ToSet(read') \subseteq Entries
    BY <1>2, RowsOfRead, ElementsOf
  <2>2. todo' = Ids(S)
    BY <1>4
  <2>3. Hydration' <=>
          /\ todo' \in Seq(Entries) /\ ToSet(todo') \subseteq ToSet(read')
          /\ contents' \subseteq ToSet(read')
          /\ \A e \in S : Fetched(e)'
    BY <1>4 DEF Hydration
  <2> HIDE DEF S
  <2>4. todo' \in Seq(Entries) /\ ToSet(todo') = S
    BY <2>1, <2>2, IdsAre
  <2> QED
    BY <1>1, <2>1, <2>3, <2>4 DEF Fetched
<1> QED
  BY <1>1, <1>3, <1>4

\* A sequence is its first n elements and the others.
LEMMA Parts ==
  ASSUME NEW S, NEW s \in Seq(S), NEW n \in 0 .. Len(s)
  PROVE  /\ SubSeq(s, n + 1, Len(s)) \in Seq(S)
         /\ ToSet(s) = ToSet(SubSeq(s, 1, n)) \cup ToSet(SubSeq(s, n + 1, Len(s)))
<1> DEFINE a == SubSeq(s, 1, n)
           b == SubSeq(s, n + 1, Len(s))
<1>1. /\ a \in Seq(S) /\ Len(a) = n /\ \A i \in 1 .. n : a[i] = s[i]
      /\ DOMAIN a = 1 .. n /\ Len(s) \in Nat /\ DOMAIN s = 1 .. Len(s)
  OBVIOUS
<1>2. /\ b \in Seq(S) /\ Len(b) = Len(s) - n /\ \A i \in 1 .. Len(s) - n : b[i] = s[n + i]
      /\ DOMAIN b = 1 .. Len(s) - n
  OBVIOUS
<1> HIDE DEF a, b
<1>3. ToSet(a) \subseteq ToSet(s)
  BY <1>1 DEF ToSet
<1>4. ToSet(b) \subseteq ToSet(s)
  <2> SUFFICES ASSUME NEW i \in DOMAIN b PROVE b[i] \in ToSet(s)
    BY DEF ToSet
  <2>1. b[i] = s[n + i] /\ n + i \in DOMAIN s
    BY <1>1, <1>2
  <2> QED
    BY <2>1 DEF ToSet
<1>5. ToSet(s) \subseteq ToSet(a) \cup ToSet(b)
  <2> SUFFICES ASSUME NEW i \in DOMAIN s PROVE s[i] \in ToSet(a) \cup ToSet(b)
    BY DEF ToSet
  <2>1. CASE i <= n
    <3>1. i \in 1 .. n
      BY <1>1, <2>1
    <3> QED
      BY <1>1, <3>1 DEF ToSet
  <2>2. CASE ~(i <= n)
    <3>1. i - n \in 1 .. Len(s) - n /\ n + (i - n) = i
      BY <1>1, <2>2
    <3>2. b[i - n] = s[i]
      BY <1>2, <3>1
    <3> QED
      BY <1>2, <3>1, <3>2 DEF ToSet
  <2> QED
    BY <2>1, <2>2
<1>6. b \in Seq(S) /\ ToSet(s) = ToSet(a) \cup ToSet(b)
  BY <1>2, <1>3, <1>4, <1>5
<1> QED
  BY <1>6 DEF a, b

LEMMA PageHydration ==
  ASSUME Written, Scanning, Hydration, HydratePage
  PROVE  Hydration'
<1> DEFINE n == Min({HydrateChunk, Len(todo)})
<1>1. /\ contents' = contents \cup (ToSet(SubSeq(todo, 1, n)) \cap stored)
      /\ todo' = SubSeq(todo, n + 1, Len(todo))
      /\ step \in {"hydrate", "fallback"}
      /\ UNCHANGED <<stored, step, read>>
  BY DEF HydratePage, storeVars, scanVars
<1>2. todo \in Seq(Entries) /\ Len(todo) \in Nat
  BY DEF Hydration
<1>3. n \in 0 .. Len(todo)
  <2>1. HydrateChunk \in Nat
    BY StatsAssumption
  <2> QED
    BY <1>2, <2>1, LesserOf
<1> HIDE DEF n
<1>4. /\ todo' \in Seq(Entries)
      /\ ToSet(todo) = ToSet(SubSeq(todo, 1, n)) \cup ToSet(todo')
  BY <1>1, <1>2, <1>3, Parts
<1>5. \A e : Fetched(e) => Fetched(e)'
  BY <1>1, <1>4 DEF Fetched, Gone
<1>6. contents' \subseteq ToSet(read') /\ contents \subseteq contents' /\ ToSet(todo') \subseteq ToSet(read')
  BY <1>1, <1>4 DEF Hydration
<1>7. PerRow(read)' \subseteq PerRow(read)
  BY <1>1, <1>6 DEF PerRow
<1>8. FirstOfFamily(read)' = FirstOfFamily(read) /\ Unkeyed(read)' = Unkeyed(read)
  BY <1>1
<1>9. step' = "hydrate" => \A e \in FirstOfFamily(read)' \cup Unkeyed(read)' : Fetched(e)'
  BY <1>1, <1>5, <1>8 DEF Hydration
<1>10. step' = "fallback" => \A e \in PerRow(read)' \cup Unkeyed(read)' : Fetched(e)'
  BY <1>1, <1>5, <1>7, <1>8 DEF Hydration
<1> QED
  BY <1>1, <1>4, <1>6, <1>9, <1>10 DEF Hydration

LEMMA PassHydration ==
  ASSUME Written, Scanning, Hydration, Hydrated
  PROVE  Hydration'
<1>1. /\ step \in {"hydrate", "fallback"} /\ todo = <<>>
      /\ UNCHANGED <<stored, read, contents>>
      /\ \/ step = "hydrate" /\ step' = "fallback" /\ todo' = Ids(PerRow(read))
         \/ (step = "fallback" \/ PerRow(read) = {}) /\ step' = "rollups" /\ todo' = todo
  BY DEF Hydrated, storeVars, scanVars
<1>2. /\ FirstOfFamily(read)' = FirstOfFamily(read)
      /\ Unkeyed(read)' = Unkeyed(read)
      /\ PerRow(read)' = PerRow(read)
  BY <1>1 DEF PerRow
<1>3. PerRow(read) \subseteq ToSet(read) /\ PerRow(read) \subseteq Entries
  BY ReadIs, RowsOfRead
<1>4. \A e : Fetched(e) => e \in contents \/ Gone(e)
  <2>1. ToSet(todo) = {}
    BY <1>1 DEF ToSet
  <2> QED
    BY <2>1 DEF Fetched
<1>5. \A e \in Unkeyed(read) : e \in contents \/ Gone(e)
  BY <1>1, <1>4 DEF Hydration
<1>6. CASE step = "hydrate" /\ step' = "fallback" /\ todo' = Ids(PerRow(read))
  <2>1. todo' \in Seq(Entries) /\ ToSet(todo') = PerRow(read)
    BY <1>3, <1>6, IdsAre
  <2>2. \A e \in PerRow(read) \cup Unkeyed(read) : Fetched(e)'
    BY <1>1, <1>5, <2>1 DEF Fetched, Gone
  <2> QED
    BY <1>1, <1>2, <1>3, <1>6, <2>1, <2>2 DEF Hydration
<1>7. CASE (step = "fallback" \/ PerRow(read) = {}) /\ step' = "rollups" /\ todo' = todo
  <2>1. \A e \in PerRow(read) \cup Unkeyed(read) : e \in contents \/ Gone(e)
    BY <1>1, <1>4, <1>5, <1>7 DEF Hydration
  <2>2. \A e \in PerRow(read) \cup Unkeyed(read) : e \in contents' \/ Gone(e)'
    BY <1>1, <2>1 DEF Gone
  <2> QED
    BY <1>1, <1>2, <1>7, <2>2 DEF Hydration
<1> QED
  BY <1>1, <1>6, <1>7

LEMMA HydrationNext == Written /\ Scanning /\ Hydration /\ [StatsNext]_statsVars => Hydration'
<1> SUFFICES ASSUME Written, Scanning, Hydration, [StatsNext]_statsVars PROVE Hydration'
  OBVIOUS
<1>1. ASSUME NEW C \in SUBSET (Entries \ ever), StoreChunk(C)
      PROVE  Hydration'
  BY <1>1, WritersHydration DEF StoreChunk
<1>2. ASSUME NEW M, RecordRollups(M) \/ RollupsFail(M)
      PROVE  Hydration'
  BY <1>2, WritersHydration DEF RecordRollups, RollupsFail
<1>3. CASE Prune
  BY <1>3, WritersHydration DEF Prune
<1>4. CASE UNCHANGED statsVars
  BY <1>4, WritersHydration DEF statsVars, storeVars
<1>5. CASE Ask
  <2>1. /\ step = "idle" /\ step' = "scan"
        /\ UNCHANGED <<read, todo, contents>>
    BY <1>5 DEF Ask, scanVars
  <2> QED
    BY <2>1 DEF Hydration
<1>6. CASE ScanPage \/ ReadMembers \/ ReadEntries
  BY <1>6, ScanNext, ArrivesHydration
<1>7. CASE ReadRollups \/ ReadRow
  <2>1. /\ step \in {"rollups", "rows"} /\ step' \in {"rows", "done"}
        /\ UNCHANGED <<stored, read, todo, contents>>
    BY <1>7 DEF ReadRollups, ReadRow, ReadRows, storeVars, scanVars
  <2>2. UNCHANGED <<FirstOfFamily(read), Unkeyed(read), PerRow(read)>>
    BY <2>1 DEF PerRow
  <2> QED
    BY <2>1, <2>2 DEF Hydration, Gone
<1> QED
  BY <1>1, <1>2, <1>3, <1>4, <1>5, <1>6, <1>7, PageHydration, PassHydration DEF StatsNext

\* An exception that was scanned is left out of its report's groups only if it
\* was deleted meanwhile, or its own content never had what the report shows
\* (computeExceptions, which hydrates the contents in two passes).
THEOREM NoneIsLeftOut == StatsSpec => []LeftOutOnlyIfGone
<1>1. Written /\ Scanning /\ Hydration => LeftOutOnlyIfGone
  <2> SUFFICES ASSUME Written, Scanning, Hydration, step \in {"rollups", "rows", "done"},
                      NEW e \in ToSet(read) \cap Readable
               PROVE  e \in Counted \/ e \notin stored
    BY DEF LeftOutOnlyIfGone
  <2>1. e \in contents \/ Gone(e) => e \in Counted \/ e \notin stored
    BY DEF Counted, Gone
  <2>2. CASE FamilyOf[e] = None
    BY <2>1, <2>2 DEF Hydration, Unkeyed
  <2>3. CASE FamilyOf[e] # None
    <3>1. PICK f \in FirstOfFamily(read) : FamilyOf[f] = FamilyOf[e]
      BY <2>3, ReadIs, FamilyHasFirst
    <3>2. CASE f \in contents \cap Readable
      BY <3>1, <3>2 DEF Counted
    <3>3. CASE f \notin contents \cap Readable
      <4>1. e \in PerRow(read)
        BY <3>1, <3>3 DEF PerRow
      <4> QED
        BY <2>1, <4>1 DEF Hydration
    <3> QED
      BY <3>2, <3>3
  <2> QED
    BY <2>2, <2>3
<1> QED
  BY <1>1, WrittenInit, WrittenNext, ScanInit, ScanNext, HydrationInit, HydrationNext,
     PTL DEF StatsSpec

-----------------------------------------------------------------------------
(* The rollups a report reads: each of its rows is the aggregate of the    *)
(* entries of its minute that it stands for, whenever it was read.         *)

Rows ==
  /\ covered \subseteq Entries
  /\ DOMAIN rows \subseteq WindowMinutes
  /\ step \notin {"rows", "done"} => covered = {} /\ DOMAIN rows = {}
  /\ \A e \in covered : FloorToBucket(TimeOf[e]) \in DOMAIN rows
  /\ \A m \in DOMAIN rows : rows[m] = Aggregate(OfMinute(covered, m))
  /\ percentiles = IF step = "done" THEN Estimate(rows) ELSE None

LEMMA RowsInit == StatsInit => Rows
<1> SUFFICES ASSUME StatsInit PROVE Rows
  OBVIOUS
<1>1. DOMAIN <<>> = {} /\ rows = <<>> /\ covered = {} /\ step = "idle" /\ percentiles = None
  BY DEF StatsInit
<1> QED
  BY <1>1 DEF Rows

LEMMA ReadRowsRows ==
  ASSUME Written, Rows, step \in {"rollups", "rows"}, NEW M \in SUBSET WindowMinutes,
         M \cap DOMAIN rows = {}, ReadRows(M)
  PROVE  Rows'
<1>1. /\ rows' = [m \in DOMAIN rows \cup M |-> IF m \in M THEN rollups[m] ELSE rows[m]]
      /\ covered' = covered \cup {e \in rolled : FloorToBucket(TimeOf[e]) \in M}
      /\ \/ step' = "done" /\ percentiles' = Estimate(rows')
         \/ step' = "rows" /\ percentiles' = percentiles
  BY DEF ReadRows
<1>2. /\ DOMAIN rows' = DOMAIN rows \cup M
      /\ \A m \in DOMAIN rows' : rows'[m] = IF m \in M THEN rollups[m] ELSE rows[m]
  BY <1>1
<1>3. percentiles' = IF step' = "done" THEN Estimate(rows') ELSE None
  <2>1. percentiles = None
    BY DEF Rows
  <2> QED
    BY <1>1, <2>1
<1>4. ASSUME NEW m \in DOMAIN rows'
      PROVE  rows'[m] = Aggregate(OfMinute(covered', m))
  <2>1. CASE m \in M
    <3>1. OfMinute(covered', m) = OfMinute(rolled, m)
      BY <1>1, <2>1 DEF Rows, OfMinute
    <3>2. m \in Minutes
      BY <2>1 DEF WindowMinutes
    <3>3. rollups[m] = Aggregate(OfMinute(rolled, m))
      BY <3>2, DeltasAre DEF Written, RollupsExact
    <3> QED
      BY <1>2, <2>1, <3>1, <3>3
  <2>2. CASE m \notin M
    <3>1. OfMinute(covered', m) = OfMinute(covered, m)
      BY <1>1, <2>2 DEF OfMinute
    <3> QED
      BY <1>2, <2>2, <3>1 DEF Rows
  <2> QED
    BY <2>1, <2>2
<1>5. covered' \subseteq Entries /\ \A e \in covered' : FloorToBucket(TimeOf[e]) \in DOMAIN rows'
  BY <1>1, <1>2 DEF Rows, Written
<1>6. DOMAIN rows' \subseteq WindowMinutes /\ step' \in {"rows", "done"}
  BY <1>1, <1>2 DEF Rows
<1>7. WindowMinutes' = WindowMinutes
  OBVIOUS
<1>8. \A m : OfMinute(covered, m)' = OfMinute(covered', m)
  BY DEF OfMinute
<1>9. \A m \in DOMAIN rows' : rows'[m] = Aggregate(OfMinute(covered, m))'
  BY <1>4
<1> QED
  BY <1>3, <1>5, <1>6, <1>9 DEF Rows

LEMMA RowsNext == Written /\ Scanning /\ Rows /\ [StatsNext]_statsVars => Rows'
<1> SUFFICES ASSUME Written, Scanning, Rows, [StatsNext]_statsVars PROVE Rows'
  OBVIOUS
<1>1. CASE \/ \E C \in SUBSET (Entries \ ever) : StoreChunk(C)
           \/ \E M \in RowsTogether : RecordRollups(M) \/ RollupsFail(M)
           \/ Prune \/ Ask \/ ScanPage \/ ReadMembers \/ ReadEntries
           \/ HydratePage \/ Hydrated \/ UNCHANGED statsVars
  <2>1. /\ UNCHANGED <<rows, covered, percentiles>>
        /\ step' = step \/ (step \notin {"rows", "done"} /\ step' \notin {"rows", "done"})
    <3>1. CASE \/ \E C \in SUBSET (Entries \ ever) : StoreChunk(C)
               \/ \E M \in RowsTogether : RecordRollups(M) \/ RollupsFail(M)
               \/ Prune \/ UNCHANGED statsVars
      BY <3>1 DEF StoreChunk, RecordRollups, RollupsFail, Prune, statsVars, reportVars, rollupVars
    <3>2. CASE Ask \/ HydratePage \/ Hydrated
      BY <3>2 DEF Ask, HydratePage, Hydrated, rollupVars
    <3>3. CASE ScanPage \/ ReadMembers \/ ReadEntries
      <4>1. UNCHANGED rollupVars
        BY <3>3 DEF ScanPage, ReadMembers, ReadEntries
      <4> QED
        BY <3>3, <4>1, Arrives DEF rollupVars
    <3> QED
      BY <1>1, <3>1, <3>2, <3>3
  <2>2. Estimate(rows)' = Estimate(rows) /\ WindowMinutes' = WindowMinutes
    BY <2>1 DEF Estimate
  <2>3. \A m : OfMinute(covered, m)' = OfMinute(covered, m)
    BY <2>1 DEF OfMinute
  <2> QED
    BY <2>1, <2>2, <2>3 DEF Rows
<1>2. CASE ReadRollups
  <2>1. step = "rollups" /\ DOMAIN rows = {}
    BY <1>2 DEF ReadRollups, Rows
  <2> DEFINE M == {m \in WindowMinutes : provider = "memory" \/ rollups[m].count = 0}
  <2>2. ReadRows(M) /\ M \in SUBSET WindowMinutes
    BY <1>2 DEF ReadRollups
  <2> HIDE DEF M
  <2> QED
    BY <2>1, <2>2, ReadRowsRows
<1>3. CASE ReadRow
  <2>1. PICK m \in WindowMinutes \ DOMAIN rows : ReadRows({m})
    BY <1>3 DEF ReadRow
  <2>2. step = "rows" /\ {m} \in SUBSET WindowMinutes /\ {m} \cap DOMAIN rows = {}
    BY <1>3, <2>1 DEF ReadRow
  <2> QED
    BY <2>1, <2>2, ReadRowsRows
<1> QED
  BY <1>1, <1>2, <1>3 DEF StatsNext

-----------------------------------------------------------------------------
(* Histograms: a cell holds what its boundaries enclose.                   *)

LEMMA BoundariesAre ==
  /\ Len(Boundaries) \in Nat /\ 1 <= Len(Boundaries) /\ DOMAIN Boundaries = 1 .. Len(Boundaries)
  /\ \A i \in 1 .. Len(Boundaries) : Boundaries[i] \in Nat
  /\ \A i, j \in 1 .. Len(Boundaries) : i < j => Boundaries[i] < Boundaries[j]
  /\ \A i, j \in 1 .. Len(Boundaries) : i <= j => Boundaries[i] <= Boundaries[j]
<1> DEFINE n == Len(Boundaries)
<1>1. /\ n \in Nat /\ 1 <= n /\ DOMAIN Boundaries = 1 .. n
      /\ \A i \in 1 .. n : Boundaries[i] \in Nat
      /\ \A i \in 1 .. n - 1 : Boundaries[i] < Boundaries[i + 1]
  BY StatsAssumption
<1> HIDE DEF n
<1>2. ASSUME NEW i \in 1 .. n
      PROVE  \A j \in 1 .. n : i < j => Boundaries[i] < Boundaries[j]
  <2> DEFINE I == {k \in 0 .. n : i < k => Boundaries[i] < Boundaries[k]}
  <2>1. 0 \in I
    BY <1>1
  <2>2. ASSUME NEW k \in 0 .. n - 1, k \in I
        PROVE  k + 1 \in I
    <3>1. k + 1 \in 0 .. n
      BY <1>1
    <3>2. ASSUME i < k + 1
          PROVE  Boundaries[i] < Boundaries[k + 1]
      <4>1. k \in 1 .. n - 1 /\ k \in 1 .. n /\ k + 1 \in 1 .. n /\ (i = k \/ i < k)
        BY <1>1, <3>2
      <4>2. Boundaries[k] < Boundaries[k + 1]
        BY <1>1, <4>1
      <4>3. i < k => Boundaries[i] < Boundaries[k]
        BY <2>2
      <4>4. Boundaries[i] \in Nat /\ Boundaries[k] \in Nat /\ Boundaries[k + 1] \in Nat
        BY <1>1, <4>1
      <4> QED
        BY <4>1, <4>2, <4>3, <4>4
    <3> QED
      BY <3>1, <3>2
  <2>3. \A k \in 0 .. n : k \in I
    <3> HIDE DEF I
    <3> QED
      BY <1>1, <2>1, <2>2, UpTo
  <2> QED
    BY <2>3
<1>3. ASSUME NEW i \in 1 .. n, NEW j \in 1 .. n, i <= j
      PROVE  Boundaries[i] <= Boundaries[j]
  <2>1. Boundaries[i] \in Nat /\ Boundaries[j] \in Nat /\ (i = j \/ i < j)
    BY <1>1, <1>3
  <2> QED
    BY <1>2, <2>1
<1> QED
  BY <1>1, <1>2, <1>3 DEF n

LEMMA CellIs ==
  ASSUME NEW d \in Nat
  PROVE  /\ HistogramCell(d) \in Cells
         /\ \A k \in 1 .. Len(Boundaries) : HistogramCell(d) <= k <=> d <= Boundaries[k]
<1> DEFINE n == Len(Boundaries)
           T == {i \in 1 .. n : d <= Boundaries[i]} \cup {n + 1}
           c == HistogramCell(d)
<1>1. n \in Nat /\ 1 <= n
  BY BoundariesAre
<1>2. c = Min(T)
  BY DEF HistogramCell
<1>3. \A i : i \in T <=> (i \in 1 .. n /\ d <= Boundaries[i]) \/ i = n + 1
  OBVIOUS
<1> HIDE DEF c, T
<1>4. T \in SUBSET Nat /\ T # {}
  BY <1>1, <1>3
<1>5. c \in T /\ \A y \in T : c <= y
  BY <1>2, <1>4, LeastIsMin
<1>6. c \in 1 .. n + 1
  BY <1>1, <1>3, <1>5
<1>7. ASSUME NEW k \in 1 .. n, c <= k
      PROVE  d <= Boundaries[k]
  <2>1. c \in 1 .. n
    BY <1>1, <1>6, <1>7
  <2>2. d <= Boundaries[c]
    <3>1. c # n + 1
      BY <1>1, <2>1
    <3> QED
      BY <1>3, <1>5, <3>1
  <2>3. Boundaries[c] <= Boundaries[k] /\ Boundaries[c] \in Nat /\ Boundaries[k] \in Nat
    BY <1>7, <2>1, BoundariesAre
  <2> QED
    BY <2>2, <2>3
<1>8. ASSUME NEW k \in 1 .. n, d <= Boundaries[k]
      PROVE  c <= k
  BY <1>3, <1>5, <1>8
<1>9. c \in Cells /\ \A k \in 1 .. n : c <= k <=> d <= Boundaries[k]
  BY <1>6, <1>7, <1>8 DEF Cells, n
<1> QED
  BY <1>9 DEF c, n

(* Nearest rank: a bound is not below the percentile if and only if enough *)
(* of the samples do not exceed it.                                        *)
AtMost(T, b) == {e \in T : DurationOf[e] <= b}
Enough(T, b, p) == 100 * Cardinality(AtMost(T, b)) >= p * Cardinality(T)

LEMMA Sizes ==
  ASSUME NEW T \in SUBSET Entries, NEW A \in SUBSET T
  PROVE  /\ IsFiniteSet(T) /\ Cardinality(T) \in Nat /\ Cardinality(A) \in Nat
         /\ Cardinality(A) <= Cardinality(T)
<1>1. IsFiniteSet(T)
  BY FiniteEntries
<1> QED
  BY <1>1, FS_Subset, FS_CardinalityType

LEMMA NotEmptySize ==
  ASSUME NEW T \in SUBSET Entries
  PROVE  Cardinality(T) = 0 <=> T = {}
BY FiniteEntries, FS_EmptySet

\* The target rank is reached exactly by enough samples.
LEMMA RankReached ==
  ASSUME NEW p \in Percents, NEW n \in Nat, 1 <= n
  PROVE  /\ TargetRank(p, n) \in Nat /\ TargetRank(p, n) <= n
         /\ p * n \in Nat /\ 1 <= p * n /\ p * n <= 100 * n
         /\ \A k \in Nat : TargetRank(p, n) <= k <=> p * n <= 100 * k
<1> DEFINE q == p * n
           r == (q + 99) \div 100
<1>1. q \in Nat /\ 1 <= q /\ q <= 100 * n
  <2>1. p = 50 \/ p = 95 \/ p = 99
    BY DEF Percents
  <2> QED
    BY <2>1
<1>2. Rank(p, n) = r
  BY DEF Rank
<1> HIDE DEF q
<1>3. r \in Nat /\ 1 <= r /\ \A k \in Nat : r <= k <=> q <= 100 * k
  BY <1>1
<1> HIDE DEF r
<1>4. TargetRank(p, n) = r
  <2>1. {1, r} \in SUBSET Nat /\ r \in {1, r} /\ \A y \in {1, r} : r >= y
    BY <1>3
  <2> QED
    BY <1>2, <2>1, MaxIs DEF TargetRank
<1> QED
  BY <1>1, <1>3, <1>4 DEF q

LEMMA ImageIsFinite ==
  ASSUME NEW S, IsFiniteSet(S), NEW f
  PROVE  IsFiniteSet({f[x] : x \in S})
<1> DEFINE T == {f[x] : x \in S}
           g == [x \in S |-> f[x]]
<1>1. g \in Surjection(S, T)
  BY DEF Surjection
<1> HIDE DEF g, T
<1>2. IsFiniteSet(T)
  BY <1>1, FS_Surjection
<1> QED
  BY <1>2 DEF T

LEMMA ExactIs ==
  ASSUME NEW T \in SUBSET Entries, T # {}, \A e \in T : DurationOf[e] \in Nat,
         NEW p \in Percents
  PROVE  /\ NearestRank(T, p) \in {DurationOf[e] : e \in T}
         /\ \A b \in Nat : NearestRank(T, p) <= b <=> Enough(T, b, p)
<1> DEFINE D == {DurationOf[e] : e \in T}
           G == {d \in D : Enough(T, d, p)}
           x == NearestRank(T, p)
<1>1. x = Min(G)
  BY DEF NearestRank, Enough, AtMost
<1>2. D \in SUBSET Nat /\ D # {} /\ \A d : d \in D <=> \E e \in T : DurationOf[e] = d
  OBVIOUS
<1>3. \A d : d \in G <=> d \in D /\ Enough(T, d, p)
  OBVIOUS
<1> HIDE DEF D, G, x
<1>4. \A b : AtMost(T, b) \in SUBSET T /\ Cardinality(AtMost(T, b)) \in Nat
  <2> TAKE b
  <2>1. AtMost(T, b) \in SUBSET T
    BY DEF AtMost
  <2> QED
    BY <2>1, Sizes
<1>5. Cardinality(T) \in Nat /\ 1 <= Cardinality(T)
  <2>1. Cardinality(T) \in Nat
    BY Sizes
  <2>2. Cardinality(T) # 0
    BY NotEmptySize
  <2> QED
    BY <2>1, <2>2
<1>6. p * Cardinality(T) \in Nat /\ 1 <= p * Cardinality(T)
       /\ p * Cardinality(T) <= 100 * Cardinality(T)
  BY <1>5, RankReached
\* Where the samples that do not exceed b are enough, the slowest of them is one of G.
<1>7. ASSUME NEW b \in Nat, Enough(T, b, p)
      PROVE  \E d \in G : d <= b
  <2> DEFINE A == AtMost(T, b)
             E == {DurationOf[e] : e \in A}
  <2>1. A \in SUBSET T /\ Cardinality(A) \in Nat /\ A \in SUBSET Entries
    BY <1>4
  <2>2. A # {}
    <3>1. 100 * Cardinality(A) >= p * Cardinality(T)
      BY <1>7 DEF Enough
    <3> HIDE DEF A
    <3>2. Cardinality(A) # 0
      BY <1>6, <2>1, <3>1
    <3> QED
      BY <2>1, <3>2, NotEmptySize
  <2>3. \A e : e \in A <=> e \in T /\ DurationOf[e] <= b
    BY DEF AtMost
  <2> HIDE DEF A
  <2>4. E \in SUBSET Nat /\ E # {} /\ IsFiniteSet(E)
    <3>1. IsFiniteSet(A)
      BY <2>1, FiniteEntries
    <3>2. IsFiniteSet(E)
      BY <3>1, ImageIsFinite
    <3> QED
      BY <2>1, <2>2, <3>2
  <2>5. \A e \in A : DurationOf[e] \in E
    OBVIOUS
  <2>6. \A d \in E : \E e \in A : DurationOf[e] = d
    OBVIOUS
  <2> HIDE DEF E
  <2>7. PICK d \in E : \A y \in E : d >= y
    BY <2>4, GreatestIsMax
  <2>8. d \in D /\ d \in Nat /\ d <= b
    BY <1>2, <2>3, <2>4, <2>6, <2>7
  <2>9. AtMost(T, d) = A
    <3>1. ASSUME NEW e \in T
          PROVE  DurationOf[e] <= d <=> e \in A
      <4>1. DurationOf[e] \in Nat
        OBVIOUS
      <4>2. ASSUME DurationOf[e] <= d PROVE e \in A
        BY <2>3, <2>8, <4>1, <4>2
      <4>3. ASSUME e \in A PROVE DurationOf[e] <= d
        <5>1. d >= DurationOf[e]
          BY <2>5, <2>7, <4>3
        <5> QED
          BY <2>8, <4>1, <5>1
      <4> QED
        BY <4>2, <4>3
    <3> QED
      BY <2>3, <3>1 DEF AtMost
  <2>10. Enough(T, d, p)
    BY <1>7, <2>9 DEF Enough, A
  <2> QED
    BY <1>3, <2>8, <2>10
<1>8. x \in G /\ \A y \in G : x <= y
  <2>1. PICK d \in D : \A y \in D : d >= y
    <3>1. IsFiniteSet(D)
      BY FiniteEntries, ImageIsFinite DEF D
    <3> QED
      BY <1>2, <3>1, GreatestIsMax
  <2>2. d \in Nat /\ AtMost(T, d) = T
    <3>1. \A e \in T : DurationOf[e] <= d
      BY <1>2, <2>1
    <3> QED
      BY <1>2, <2>1, <3>1 DEF AtMost
  <2>3. Enough(T, d, p)
    BY <1>5, <1>6, <2>2 DEF Enough
  <2>4. G # {} /\ G \in SUBSET Nat
    BY <1>2, <1>3, <2>1, <2>3
  <2> QED
    BY <1>1, <2>4, LeastIsMin
<1>9. x \in D /\ x \in Nat /\ Enough(T, x, p)
  BY <1>2, <1>3, <1>8
<1>10. ASSUME NEW b \in Nat, x <= b
       PROVE  Enough(T, b, p)
  <2>1. AtMost(T, x) \in SUBSET AtMost(T, b)
    BY <1>9, <1>10 DEF AtMost
  <2>2. AtMost(T, b) \in SUBSET Entries
    BY <1>4
  <2>3. Cardinality(AtMost(T, x)) <= Cardinality(AtMost(T, b))
    BY <2>1, <2>2, Sizes
  <2>4. PICK i \in Nat, j \in Nat, q \in Nat : i = Cardinality(AtMost(T, x))
           /\ j = Cardinality(AtMost(T, b)) /\ q = p * Cardinality(T)
    BY <1>4, <1>6
  <2>5. 100 * i >= q /\ i <= j
    BY <1>9, <2>3, <2>4 DEF Enough
  <2>6. 100 * j >= q
    BY <2>4, <2>5
  <2> QED
    BY <2>4, <2>6 DEF Enough
<1>11. ASSUME NEW b \in Nat, Enough(T, b, p)
       PROVE  x <= b
  <2>1. PICK d \in G : d <= b
    BY <1>7, <1>11
  <2>2. x <= d /\ d \in Nat
    BY <1>2, <1>3, <1>8, <2>1
  <2> QED
    BY <1>9, <2>1, <2>2
<1>12. x \in D /\ \A b \in Nat : x <= b <=> Enough(T, b, p)
  BY <1>9, <1>10, <1>11
<1> QED
  BY <1>12 DEF x, D

-----------------------------------------------------------------------------
(* The estimate: the rows read, merged, are the histogram and the slowest  *)
(* of all the entries they stand for.                                      *)

Merged == [c \in Cells |-> SumFunction([m \in DOMAIN rows |-> rows[m].histogram[c]])]
MaxRead == Max({rows[m].max : m \in DOMAIN rows} \cup {0})
UpToCell(T, c) == {e \in T : HistogramCell(DurationOf[e]) <= c}

LEMMA RowsReadAre ==
  ASSUME Rows, NEW m \in DOMAIN rows
  PROVE  /\ OfMinute(covered, m) \in SUBSET Entries
         /\ rows[m].max = Max(Slowest(OfMinute(covered, m)))
         /\ \A c \in Cells : rows[m].histogram[c] = Cardinality(InCell(OfMinute(covered, m), c))
<1>1. rows[m] = Aggregate(OfMinute(covered, m)) /\ OfMinute(covered, m) \in SUBSET Entries
  BY DEF Rows, OfMinute
<1>2. Aggregate(OfMinute(covered, m)).max = Max(Slowest(OfMinute(covered, m)))
  BY AggregateIs
<1>3. Aggregate(OfMinute(covered, m)).histogram
        = [c \in Cells |-> Cardinality(InCell(OfMinute(covered, m), c))]
  BY AggregateIs
<1> QED
  BY <1>1, <1>2, <1>3

LEMMA FiniteRowsRead ==
  ASSUME Rows
  PROVE  IsFiniteSet(DOMAIN rows)
<1> DEFINE f == [e \in Entries |-> FloorToBucket(TimeOf[e])]
<1>1. IsFiniteSet({f[e] : e \in Entries})
  <2>1. IsFiniteSet(Entries)
    BY StatsAssumption
  <2> HIDE DEF f
  <2> QED
    BY <2>1, ImageIsFinite
<1>2. DOMAIN rows \in SUBSET {f[e] : e \in Entries}
  BY DEF Rows, WindowMinutes, Minutes
<1> HIDE DEF f
<1> QED
  BY <1>1, <1>2, FS_Subset

LEMMA MergedIs ==
  ASSUME Rows, NEW c \in Cells
  PROVE  Merged[c] = Cardinality(InCell(covered, c))
<1> DEFINE U == DOMAIN rows
           f == [m \in U |-> rows[m].histogram[c]]
           P == [m \in U |-> InCell(OfMinute(covered, m), c)]
<1>1. Merged[c] = SumFunctionOnSet(f, U)
  BY DEF Merged, SumFunction
<1>2. IsFiniteSet(U) /\ IsFiniteSet(covered)
  BY FiniteRowsRead, FiniteEntries DEF Rows
<1>3. P \in [U -> SUBSET covered] /\ \A x, y \in U : x # y => P[x] \cap P[y] = {}
  BY DEF InCell, Timed, OfMinute
<1>4. \A m \in U : f[m] = Cardinality(P[m])
  BY RowsReadAre
<1>5. UNION {P[m] : m \in U} = InCell(covered, c)
  <2>1. UNION {P[m] : m \in U} \subseteq InCell(covered, c)
    BY DEF InCell, Timed, OfMinute
  <2>2. ASSUME NEW e \in InCell(covered, c)
        PROVE  e \in UNION {P[m] : m \in U}
    <3>1. e \in covered /\ FloorToBucket(TimeOf[e]) \in U
      BY <2>2 DEF Rows, InCell, Timed
    <3>2. e \in P[FloorToBucket(TimeOf[e])]
      BY <2>2, <3>1 DEF InCell, Timed, OfMinute
    <3> QED
      BY <3>1, <3>2
  <2> QED
    BY <2>1, <2>2
<1> HIDE DEF U, f, P
<1>6. SumFunctionOnSet(f, U) = Cardinality(UNION {P[m] : m \in U})
  BY <1>2, <1>3, <1>4, SumOfSizes
<1> QED
  BY <1>1, <1>5, <1>6

LEMMA CumulativeIs ==
  ASSUME Rows, NEW c \in Cells
  PROVE  /\ SumFunctionOnSet(Merged, 1 .. c) = Cardinality(UpToCell(Timed(covered), c))
         /\ UpToCell(Timed(covered), c) \in SUBSET Timed(covered)
<1> DEFINE U == 1 .. c
           T == Timed(covered)
           P == [i \in U |-> InCell(covered, i)]
<1>1. c \in Nat /\ U \subseteq Cells /\ IsFiniteSet(U)
  <2>1. c \in Nat /\ U \subseteq Cells
    BY BoundariesAre DEF Cells
  <2> QED
    BY <2>1, FS_Interval
<1>2. IsFiniteSet(T) /\ \A e \in T : HistogramCell(DurationOf[e]) \in Cells
  BY FiniteEntries, CellIs DEF Rows
<1>3. P \in [U -> SUBSET T] /\ \A x, y \in U : x # y => P[x] \cap P[y] = {}
  BY DEF InCell
<1>4. \A i \in U : Merged[i] = Cardinality(P[i])
  BY <1>1, MergedIs
<1>5. UNION {P[i] : i \in U} = UpToCell(T, c)
  <2>1. \A e \in T : HistogramCell(DurationOf[e]) <= c <=> HistogramCell(DurationOf[e]) \in U
    <3> TAKE e \in T
    <3>1. HistogramCell(DurationOf[e]) \in Nat /\ 1 <= HistogramCell(DurationOf[e])
      BY <1>2 DEF Cells
    <3> QED
      BY <1>1, <3>1
  <2>2. \A e : e \in UpToCell(T, c) <=> e \in T /\ HistogramCell(DurationOf[e]) \in U
    BY <2>1 DEF UpToCell
  <2>3. \A e, i : e \in InCell(covered, i) <=> e \in T /\ HistogramCell(DurationOf[e]) = i
    BY DEF InCell
  <2>4. \A i \in U : P[i] = InCell(covered, i)
    OBVIOUS
  <2> HIDE DEF U, P, T
  <2> QED
    BY <2>2, <2>3, <2>4
<1>6. UpToCell(T, c) \in SUBSET T
  BY DEF UpToCell
<1> HIDE DEF U, P, T
<1>7. SumFunctionOnSet(Merged, U) = Cardinality(UNION {P[i] : i \in U})
  <2>1. IsFiniteSet(U) /\ IsFiniteSet(T)
    BY <1>1, <1>2
  <2> QED
    BY <2>1, <1>3, <1>4, SumOfSizes
<1> QED
  BY <1>5, <1>6, <1>7 DEF U, T

\* The slowest of the rows is the slowest of the entries.
LEMMA MaxReadIs ==
  ASSUME Rows
  PROVE  MaxRead \in Slowest(covered) /\ \A y \in Slowest(covered) : MaxRead >= y
<1> DEFINE R == {rows[m].max : m \in DOMAIN rows} \cup {0}
<1>1. ASSUME NEW m \in DOMAIN rows
      PROVE  /\ rows[m].max \in Slowest(covered) /\ rows[m].max \in Nat
             /\ \A y \in Slowest(OfMinute(covered, m)) : rows[m].max >= y
  <2>1. OfMinute(covered, m) \in SUBSET Entries
        /\ rows[m].max = Max(Slowest(OfMinute(covered, m)))
    BY <1>1, RowsReadAre
  <2>2. /\ rows[m].max \in Slowest(OfMinute(covered, m))
        /\ \A y \in Slowest(OfMinute(covered, m)) : rows[m].max >= y
    BY <2>1, SlowestType, GreatestIsMax
  <2>3. Slowest(OfMinute(covered, m)) \subseteq Slowest(covered)
    BY DEF Slowest, Timed, OfMinute
  <2>4. Slowest(OfMinute(covered, m)) \in SUBSET Nat
    BY <2>1, SlowestType
  <2> QED
    BY <2>2, <2>3, <2>4
<1>2. R \in SUBSET Nat /\ R # {} /\ IsFiniteSet(R)
  <2> DEFINE f == [m \in DOMAIN rows |-> rows[m].max]
             I == {f[m] : m \in DOMAIN rows}
  <2>1. R = I \cup {0}
    OBVIOUS
  <2>2. IsFiniteSet(I)
    <3> HIDE DEF f
    <3> QED
      BY FiniteRowsRead, ImageIsFinite
  <2>3. R \in SUBSET Nat
    BY <1>1
  <2> HIDE DEF I, R
  <2> QED
    BY <2>1, <2>2, <2>3, FS_AddElement
<1>3. /\ 0 \in R /\ \A m \in DOMAIN rows : rows[m].max \in R
      /\ \A r \in R : r = 0 \/ \E m \in DOMAIN rows : r = rows[m].max
      /\ MaxRead = Max(R)
  BY DEF MaxRead
<1> HIDE DEF R
<1>4. MaxRead \in R /\ \A y \in R : MaxRead >= y
  BY <1>2, <1>3, GreatestIsMax
<1>5. 0 \in Slowest(covered)
  BY DEF Slowest
<1>6. MaxRead \in Slowest(covered)
  BY <1>1, <1>3, <1>4, <1>5
<1>7. ASSUME NEW y \in Slowest(covered)
      PROVE  MaxRead >= y
  <2>1. CASE y = 0
    BY <1>3, <1>4, <2>1
  <2>2. CASE y # 0
    <3>1. PICK e \in Timed(covered) : y = DurationOf[e]
      BY <1>7, <2>2 DEF Slowest
    <3>2. PICK m \in DOMAIN rows : m = FloorToBucket(TimeOf[e])
      BY <3>1 DEF Rows, Timed
    <3>3. y \in Slowest(OfMinute(covered, m))
      BY <3>1, <3>2 DEF Slowest, Timed, OfMinute
    <3>4. rows[m].max >= y /\ rows[m].max \in Nat /\ MaxRead >= rows[m].max /\ MaxRead \in Nat
      BY <1>1, <1>2, <1>3, <1>4, <3>3
    <3>5. y \in Nat
      BY <1>7, SlowestType DEF Rows
    <3> QED
      BY <3>4, <3>5
  <2> QED
    BY <2>1, <2>2
<1> QED
  BY <1>6, <1>7

\* Where the estimate's cell is: the boundaries from it on are not below the exact
\* percentile.
LEMMA CellOfExact ==
  ASSUME Rows, NEW p \in Percents, Timed(covered) # {}
  PROVE  \E cell \in Cells :
           /\ EstimatePercentile(Merged, p) = Boundaries[Min({cell, Len(Boundaries)})]
           /\ \A k \in 1 .. Len(Boundaries) :
                NearestRank(Timed(covered), p) <= Boundaries[k] <=> cell <= k
<1> DEFINE L == Len(Boundaries)
           T == Timed(covered)
           N == Cardinality(T)
           upTo(c) == SumFunctionOnSet(Merged, 1 .. c)
           R == TargetRank(p, upTo(L + 1))
           reached == {c \in Cells : upTo(c) >= R}
           cell == Min(reached)
<1>1. EstimatePercentile(Merged, p) = Boundaries[Min({cell, L})]
  BY DEF EstimatePercentile
<1>2. L \in Nat /\ 1 <= L /\ Cells = 1 .. L + 1 /\ L + 1 \in Cells
  BY BoundariesAre DEF Cells
<1>3. T \in SUBSET Entries /\ T # {} /\ \A e \in T : DurationOf[e] \in Nat
  <2>1. covered \in SUBSET Entries
    BY DEF Rows
  <2> QED
    BY <2>1, FiniteEntries
<1>4. N \in Nat /\ 1 <= N
  <2>1. N \in Nat
    BY <1>3, Sizes
  <2>2. N # 0
    BY <1>3, NotEmptySize
  <2> HIDE DEF N
  <2> QED
    BY <2>1, <2>2
<1>5. ASSUME NEW c \in Cells
      PROVE  /\ upTo(c) = Cardinality(UpToCell(T, c))
             /\ UpToCell(T, c) \in SUBSET T /\ Cardinality(UpToCell(T, c)) \in Nat
  <2>1. upTo(c) = Cardinality(UpToCell(T, c)) /\ UpToCell(T, c) \in SUBSET T
    BY CumulativeIs
  <2> QED
    BY <1>3, <2>1, Sizes
<1>6. upTo(L + 1) = N
  <2>1. ASSUME NEW e \in T
        PROVE  HistogramCell(DurationOf[e]) <= L + 1
    <3>1. HistogramCell(DurationOf[e]) \in Cells
      BY <1>3, CellIs
    <3> QED
      BY <1>2, <3>1
  <2>2. UpToCell(T, L + 1) = T
    BY <2>1 DEF UpToCell
  <2> QED
    BY <1>2, <1>5, <2>2
<1>7. /\ R \in Nat /\ R <= N /\ p * N \in Nat
      /\ \A k \in Nat : R <= k <=> p * N <= 100 * k
  BY <1>4, <1>6, RankReached
\* The cells up to one of the boundaries hold the samples that do not exceed it.
<1>8. ASSUME NEW k \in 1 .. L
      PROVE  UpToCell(T, k) = AtMost(T, Boundaries[k]) /\ k \in Cells
  <2>1. \A e \in T : HistogramCell(DurationOf[e]) <= k <=> DurationOf[e] <= Boundaries[k]
    BY <1>3, CellIs
  <2> QED
    BY <1>2, <2>1 DEF UpToCell, AtMost
<1>9. ASSUME NEW k \in 1 .. L
      PROVE  NearestRank(T, p) <= Boundaries[k] <=> upTo(k) >= R
  <2>1. Boundaries[k] \in Nat
    BY BoundariesAre
  <2>2. NearestRank(T, p) <= Boundaries[k] <=> Enough(T, Boundaries[k], p)
    BY <1>3, <2>1, ExactIs
  <2>3. upTo(k) = Cardinality(AtMost(T, Boundaries[k])) /\ upTo(k) \in Nat
    BY <1>5, <1>8
  <2>4. Enough(T, Boundaries[k], p) <=> 100 * upTo(k) >= p * N
    BY <2>3 DEF Enough
  <2> HIDE DEF R, N, upTo, T
  <2>5. R <= upTo(k) <=> p * N <= 100 * upTo(k)
    BY <1>7, <2>3
  <2>6. PICK u \in Nat, q \in Nat : u = upTo(k) /\ q = p * N
    BY <1>7, <2>3
  <2>7. (R <= u <=> q <= 100 * u) /\ (Enough(T, Boundaries[k], p) <=> 100 * u >= q)
    BY <2>4, <2>5, <2>6
  <2>8. u >= R <=> 100 * u >= q
    BY <1>7, <2>7
  <2> QED
    BY <2>2, <2>6, <2>7, <2>8
<1>10. \A c \in Cells : upTo(c) \in Nat
  BY <1>5
<1>11. \A c : c \in reached <=> c \in Cells /\ upTo(c) >= R
  OBVIOUS
<1>12. reached \in SUBSET Nat /\ reached # {}
  <2>1. L + 1 \in reached
    BY <1>2, <1>4, <1>6, <1>7, <1>11
  <2>2. Cells \subseteq Nat
    BY <1>2
  <2> HIDE DEF reached
  <2> QED
    BY <1>11, <2>1, <2>2
<1>13. cell \in reached /\ \A y \in reached : cell <= y
  BY <1>12, LeastIsMin
<1> HIDE DEF cell, reached, R, upTo, N, T
<1>14. cell \in Cells /\ upTo(cell) >= R
  BY <1>11, <1>13
<1>15. ASSUME NEW k \in 1 .. L
       PROVE  upTo(k) >= R <=> cell <= k
  <2>1. ASSUME upTo(k) >= R PROVE cell <= k
    BY <1>8, <1>11, <1>13, <2>1
  <2>2. ASSUME cell <= k PROVE upTo(k) >= R
    <3>1. cell \in 1 .. L
      BY <1>2, <1>14, <2>2
    <3>2. NearestRank(T, p) <= Boundaries[cell]
      BY <1>9, <1>14, <3>1
    <3>3. Boundaries[cell] <= Boundaries[k] /\ Boundaries[cell] \in Nat /\ Boundaries[k] \in Nat
      BY <2>2, <3>1, BoundariesAre DEF L
    <3>4. NearestRank(T, p) \in Nat
      <4>1. NearestRank(T, p) \in {DurationOf[e] : e \in T}
        BY <1>3, ExactIs
      <4> QED
        BY <1>3, <4>1
    <3>5. NearestRank(T, p) <= Boundaries[k]
      BY <3>2, <3>3, <3>4
    <3> QED
      BY <1>9, <3>5
  <2> QED
    BY <2>1, <2>2
<1>16. \A k \in 1 .. L : NearestRank(T, p) <= Boundaries[k] <=> cell <= k
  BY <1>9, <1>15
<1> QED
  BY <1>1, <1>14, <1>16 DEF T, L

\* What a percentile that is estimated is.
LEMMA EstimateIs ==
  ASSUME Rows, percentiles # None
  PROVE  /\ Timed(covered) # {}
         /\ percentiles = [p \in Percents |-> Min({EstimatePercentile(Merged, p), MaxRead})]
<1>1. percentiles = Estimate(rows)
  BY DEF Rows
<1>2. Estimate(rows) = IF \A c \in Cells : Merged[c] = 0 THEN None
                       ELSE [p \in Percents |-> Min({EstimatePercentile(Merged, p), MaxRead})]
  BY DEF Estimate, Merged, MaxRead
<1>3. PICK c \in Cells : Merged[c] # 0
  BY <1>1, <1>2
<1>4. Timed(covered) # {}
  <2>1. SUFFICES ASSUME Timed(covered) = {} PROVE FALSE
    OBVIOUS
  <2>2. InCell(covered, c) = {}
    BY <2>1 DEF InCell
  <2> QED
    BY <1>3, <2>2, MergedIs, FS_EmptySet
<1> QED
  BY <1>1, <1>2, <1>3, <1>4

LEMMA EstimatedSoundly ==
  ASSUME Rows, percentiles # None, NEW p \in Percents
  PROVE  LET timed == Timed(covered)
             exact == NearestRank(timed, p)
             last == Boundaries[Len(Boundaries)]
             slowest == Max({DurationOf[e] : e \in timed})
         IN  /\ percentiles[p] \in Nat
             /\ IF exact > last THEN percentiles[p] = last
                ELSE /\ percentiles[p] \in exact .. slowest
                     /\ \A b \in ToSet(Boundaries) : ~(exact <= b /\ b < percentiles[p])
<1> DEFINE T == Timed(covered)
           L == Len(Boundaries)
           x == NearestRank(T, p)
           last == Boundaries[L]
           D == {DurationOf[e] : e \in T}
           slowest == Max(D)
           est == EstimatePercentile(Merged, p)
<1>1. T # {} /\ percentiles[p] = Min({est, MaxRead})
  BY EstimateIs
<1>2. T \in SUBSET Entries /\ \A e \in T : DurationOf[e] \in Nat
  <2>1. covered \in SUBSET Entries
    BY DEF Rows
  <2> QED
    BY <2>1, FiniteEntries
<1>3. PICK cell \in Cells : /\ est = Boundaries[Min({cell, L})]
                            /\ \A k \in 1 .. L : x <= Boundaries[k] <=> cell <= k
  BY <1>1, CellOfExact
<1>4. x \in D
  BY <1>1, <1>2, ExactIs
<1>5. D \in SUBSET Nat /\ MaxRead \in Nat /\ slowest = MaxRead /\ \A d \in D : MaxRead >= d
  <2>1. Slowest(covered) = D \cup {0}
    BY DEF Slowest
  <2>2. D \in SUBSET Nat
    BY <1>2
  <2> HIDE DEF D, T, x
  <2>3. MaxRead \in D \cup {0} /\ \A d \in D : MaxRead >= d
    BY <2>1, MaxReadIs
  <2>4. MaxRead \in Nat
    BY <2>2, <2>3
  <2>5. MaxRead \in D
    <3>1. CASE MaxRead = 0
      <4>1. x \in D /\ x \in Nat /\ MaxRead >= x
        BY <1>4, <2>2, <2>3
      <4>2. x = 0
        BY <3>1, <4>1
      <4> QED
        BY <3>1, <4>1, <4>2
    <3>2. CASE MaxRead # 0
      BY <2>3, <3>2
    <3> QED
      BY <3>1, <3>2
  <2>6. slowest = MaxRead
    BY <2>2, <2>3, <2>5, MaxIs
  <2> QED
    BY <2>2, <2>3, <2>4, <2>6
<1>6. L \in Nat /\ 1 <= L /\ L \in 1 .. L /\ cell \in 1 .. L + 1
  BY BoundariesAre DEF Cells
<1>7. DOMAIN Boundaries = 1 .. L /\ \A k \in 1 .. L : Boundaries[k] \in Nat
  BY BoundariesAre
<1>8. \A i, j \in 1 .. L : i <= j => Boundaries[i] <= Boundaries[j]
  BY BoundariesAre
<1>9. x \in Nat /\ MaxRead >= x
  BY <1>4, <1>5
<1> HIDE DEF x, T, D, L, slowest, est
<1>10. CASE x > last
  <2>1. last \in Nat
    BY <1>6, <1>7
  <2>2. cell = L + 1
    <3>1. ~(x <= last)
      BY <1>9, <1>10, <2>1
    <3>2. ~(cell <= L)
      BY <1>3, <1>6, <3>1
    <3> QED
      BY <1>6, <3>2
  <2>3. Min({cell, L}) = L
    <3>1. L + 1 \in Nat /\ L # L + 1 /\ ~(L + 1 <= L)
      BY <1>6
    <3>2. Min({L + 1, L}) <= L /\ (Min({L + 1, L}) = L + 1 \/ Min({L + 1, L}) = L)
      BY <1>6, <3>1, LesserOf
    <3>3. Min({L + 1, L}) = L
      BY <3>1, <3>2
    <3> QED
      BY <2>2, <3>3
  <2>4. est = last
    BY <1>3, <2>3
  <2>5. Min({last, MaxRead}) = last
    <3>1. last <= MaxRead /\ last # MaxRead
      BY <1>5, <1>9, <1>10, <2>1
    <3>2. Min({last, MaxRead}) <= last /\ (Min({last, MaxRead}) = last \/ Min({last, MaxRead}) = MaxRead)
      BY <1>5, <2>1, LesserOf
    <3>3. ~(MaxRead <= last)
      BY <1>5, <2>1, <3>1
    <3> QED
      BY <3>2, <3>3
  <2>6. percentiles[p] = last
    BY <1>1, <2>4, <2>5
  <2> QED
    BY <1>10, <2>1, <2>6 DEF x, T, L
<1>11. CASE ~(x > last)
  <2>1. last \in Nat /\ x <= last
    BY <1>6, <1>7, <1>9, <1>11
  <2>2. cell \in 1 .. L
    BY <1>3, <1>6, <2>1
  <2>3. Min({cell, L}) = cell
    <3>1. cell \in Nat /\ cell <= L
      BY <1>6, <2>2
    <3>2. Min({cell, L}) <= cell /\ (Min({cell, L}) = cell \/ Min({cell, L}) = L)
      BY <1>6, <3>1, LesserOf
    <3>3. PICK m : m = Min({cell, L})
      OBVIOUS
    <3>4. m = cell
      BY <1>6, <3>1, <3>2, <3>3
    <3> QED
      BY <3>3, <3>4
  <2>4. est = Boundaries[cell] /\ est \in Nat /\ x <= est
    <3>1. cell <= cell
      BY <2>2, <1>6
    <3> QED
      BY <1>3, <1>7, <2>2, <2>3, <3>1
  <2>5. PICK e : e = percentiles[p]
    OBVIOUS
  <2>6. e \in Nat /\ e <= est /\ e <= MaxRead /\ (e = est \/ e = MaxRead)
    BY <1>1, <1>5, <2>4, <2>5, LesserOf
  <2>7. e \in x .. slowest
    BY <1>5, <1>9, <2>4, <2>6
  <2>8. ASSUME NEW b \in ToSet(Boundaries), x <= b, b < e
        PROVE  FALSE
    <3>1. PICK i \in 1 .. L : Boundaries[i] = b
      BY <1>7 DEF ToSet
    <3>2. cell <= i
      BY <1>3, <2>8, <3>1
    <3>3. est <= b /\ b \in Nat
      BY <1>7, <1>8, <2>2, <2>4, <3>1, <3>2
    <3> QED
      BY <2>4, <2>6, <2>8, <3>3
  <2>9. /\ percentiles[p] \in Nat /\ percentiles[p] \in x .. slowest
        /\ \A b \in ToSet(Boundaries) : ~(x <= b /\ b < percentiles[p])
    BY <2>5, <2>6, <2>7, <2>8
  <2> QED
    BY <1>11, <2>9 DEF x, T, L, D, slowest
<1> QED
  BY <1>10, <1>11

\* An estimated percentile is the exact one to within its histogram cell, never
\* below it and never above the slowest entry; beyond the last boundary it is
\* that boundary (estimatePercentiles, over the rows of recordRollups).
THEOREM EstimatesAreSound == StatsSpec => []EstimateSound
<1>1. Rows => EstimateSound
  BY EstimatedSoundly DEF EstimateSound
<1> QED
  BY <1>1, WrittenInit, WrittenNext, ScanInit, ScanNext, RowsInit, RowsNext, PTL DEF StatsSpec

LEMMA StateTyped == Written /\ Scanning /\ Hydration /\ Rows => StatsTypeOK
<1> SUFFICES ASSUME Written, Scanning, Hydration, Rows PROVE StatsTypeOK
  OBVIOUS
<1>1. /\ stored \subseteq ever /\ ever \subseteq Entries
      /\ flushing \subseteq ever /\ rolled \subseteq ever
  BY DEF Written
<1>2. /\ step \in {"idle", "scan", "hydrate", "fallback", "rollups", "rows", "done"}
      /\ provider = "memory" => members = <<>> /\ kept = {} /\ from = None
      /\ cursor \in Entries \cup {None} /\ truncated \in BOOLEAN
  BY DEF Scanning, ReportSteps, NoPage
<1>3. Paging
  BY NoPagePages DEF Scanning
<1>4. /\ members \in Seq(Entries) /\ Len(members) <= PageSize + 1
      /\ kept \subseteq Entries /\ from \in Entries \cup {None}
  BY <1>1, <1>3 DEF Paging
<1>5. read \in Seq(Entries) /\ Len(read) <= ScanCap
  BY ReadIs
<1>6. /\ DOMAIN rows \subseteq WindowMinutes
      /\ todo \in Seq(Entries) /\ contents \subseteq ToSet(read)
  BY DEF Rows, Hydration
<1>7. percentiles = None \/ percentiles \in [Percents -> Nat]
  <2>1. ASSUME percentiles # None PROVE percentiles \in [Percents -> Nat]
    <3>1. \A p \in Percents : percentiles[p] \in Nat
      BY <2>1, EstimatedSoundly
    <3>2. percentiles = [p \in Percents |-> Min({EstimatePercentile(Merged, p), MaxRead})]
      BY <2>1, EstimateIs
    <3>3. percentiles = [p \in Percents |-> percentiles[p]]
      BY <3>2
    <3> QED
      BY <3>1, <3>3
  <2> QED
    BY <2>1
<1> QED
  BY <1>1, <1>2, <1>4, <1>5, <1>6, <1>7 DEF StatsTypeOK

\* However entries of one millisecond fall on a page's boundary, and whatever is
\* stored or deleted between two pages, a scan repeats nothing and misses nothing
\* that was in the window from its beginning to its end, unless it says so, and
\* then only what is older than everything it has (collectEntriesInWindow, over
\* the get() of each provider).  The state has its type.
THEOREM ScansAreComplete == StatsSpec => []ScanComplete
<1>1. Written /\ Scanning /\ Hydration /\ Rows => ScanComplete
  <2> SUFFICES ASSUME Written, Scanning, Hydration, Rows PROVE ScanComplete
    OBVIOUS
  <2>1. StatsTypeOK
    BY StateTyped
  <2>2. \A i, j \in DOMAIN read : i < j => Newer(read[i], read[j])
    BY ReadIs DEF NewestFirst
  <2>3. Scanned => \A e \in steady : TimeOf[e] > WindowStart =>
          \/ e \in ToSet(read)
          \/ truncated /\ \A o \in ToSet(read) : Newer(o, e)
    BY DEF Scanning, Finished, InWindow
  <2> QED
    BY <2>1, <2>2, <2>3 DEF ScanComplete
<1> QED
  BY <1>1, WrittenInit, WrittenNext, ScanInit, ScanNext, HydrationInit, HydrationNext,
     RowsInit, RowsNext, PTL DEF StatsSpec

=============================================================================
