--------------------------- MODULE ObserveExporter ---------------------------
(***************************************************************************)
(* The exporter of packages/observe: entries of the recorder's flushes are *)
(* regrouped into batches, and on a timer of its own the batches that are  *)
(* ripe are encoded, cut into payloads and posted one after the other.     *)
(*                                                                         *)
(* A dispatch encodes and slices without awaiting, so the three wire       *)
(* sections are empty between steps and are not state; what is awaited is  *)
(* each attempt to post a payload and each pause between attempts.         *)
(*                                                                         *)
(* An entry is its number, its batch and its kind; entries `include' or    *)
(* `filter' refuse are left out of the flushes.                            *)
(***************************************************************************)
EXTENDS Integers, Sequences, FiniteSets, SequencesExt, FiniteSetsExt

CONSTANTS
  Batches,        \* batch ids
  Flushes,        \* what a flush may bring: sequences of [batch, kind]
  JobBatches,     \* those whose root is a job
  Unsampled,      \* those the sampling hash discards
  Grace,          \* batchGraceMs
  MaxOpen,        \* maxOpenBatches
  MaxRecords,     \* maxRecordsPerRequest
  MaxLogs,        \* maxLogsPerRequest
  CapFactor,      \* cap of a section, in requests: 4 in the code
  MaxRetries,     \* attempts per POST
  RuntimeInterval, \* runtimeIntervalMs
  MaxTime,        \* bound: the clock stops here
  MaxEntries,     \* bound: entries flushed
  MaxObserved     \* bound: records shown to observeRecord

Kinds == {"root", "log", "error"}

ASSUME ObserveAssumption ==
  /\ \A s \in Flushes : s # <<>> /\ s \in Seq([batch : Batches, kind : Kinds])
  /\ JobBatches \cup Unsampled \subseteq Batches
  /\ {Grace, MaxOpen, MaxRecords, MaxLogs, CapFactor, MaxRetries,
      RuntimeInterval} \subseteq Nat \ {0}
  /\ {MaxTime, MaxEntries, MaxObserved} \subseteq Nat

VARIABLES
  now,
  open,       \* the assembler's open batches, least recently touched first
  evicted,    \* batches shed by the ceiling, held for the next drain
  sending,    \* is a dispatch under way
  closed,
  disabled,   \* the transport's breaker: credentials were rejected
  closing,    \* where close() is
  queue,      \* dispatcher -> payloads it has still to post
  attempt,    \* dispatcher -> attempt at the head of its queue, 0 if none
  pausing,    \* dispatcher -> is it backing off
  total,      \* EntryMetrics: records observed, for the life of the process
  sinceCollect, \* and since the last collect
  lastRuntimeAt, \* when the last process snapshot was taken
  entries,    \* history: every entry accepted, in order, with its arrival
  fate,       \* history: entry number -> how it left
  reported    \* history: sum of the interval increases put on payloads

assemblerVars == <<open, evicted>>
postVars      == <<queue, attempt, pausing>>
metricVars    == <<total, sinceCollect, lastRuntimeAt, reported>>
vars == <<now, assemblerVars, sending, closed, disabled, closing, postVars,
          metricVars, entries, fate>>

Dispatchers == {"timer", "close"}
Init ==
  /\ now = 0
  /\ open = <<>>
  /\ evicted = <<>>
  /\ sending = FALSE
  /\ closed = FALSE
  /\ disabled = FALSE
  /\ closing = "no"
  /\ queue = [d \in Dispatchers |-> <<>>]
  /\ attempt = [d \in Dispatchers |-> 0]
  /\ pausing = [d \in Dispatchers |-> FALSE]
  /\ total = 0
  /\ sinceCollect = 0
  /\ lastRuntimeAt = -RuntimeInterval      \* the epoch: the first one is due
  /\ entries = <<>>
  /\ fate = <<>>
  /\ reported = 0

TimePasses ==
  /\ now < MaxTime
  /\ now' = now + 1
  /\ UNCHANGED <<assemblerVars, sending, closed, disabled, closing, postVars,
                 metricVars, entries, fate>>

-----------------------------------------------------------------------------
(* The assembler.  A batch is [id, root, kids, touched]: its root, a set   *)
(* of at most one entry number, and its children.                          *)

Members(b) == b.root \cup ToSet(b.kids)

(* The elements of s that are in S, in their order.                        *)
Where(s, S) ==
  LET upTo[k \in 0 .. Len(s)] ==
        IF k = 0 THEN <<>>
        ELSE IF s[k] \in S THEN Append(upTo[k - 1], s[k]) ELSE upTo[k - 1]
  IN  upTo[Len(s)]

AcceptStale(opened, e) ==                \* mutant: lastTouchedAt set on opening only
  LET mine  == {b \in ToSet(opened) : b.id = e.batch}
      batch == IF mine = {} THEN [id |-> e.batch, root |-> {}, kids |-> <<>>, touched |-> now]
                            ELSE CHOOSE b \in mine : TRUE
      roots == e.kind = "root" /\ batch.root = {}
  IN  Append(Where(opened, ToSet(opened) \ mine),
             [batch EXCEPT !.root = IF roots THEN {e.n} ELSE @,
                           !.kids = IF roots THEN @ ELSE Append(@, e.n)])

(* accept: the batch is opened if it is not, the first root of a batch is  *)
(* its root and a second one a child, and the batch moves to the end.      *)
Accept(opened, e) ==
  LET mine  == {b \in ToSet(opened) : b.id = e.batch}
      batch == IF mine = {} THEN [id |-> e.batch, root |-> {}, kids |-> <<>>, touched |-> now]
                            ELSE CHOOSE b \in mine : TRUE
      roots == e.kind = "root" /\ batch.root = {}
  IN  Append(Where(opened, ToSet(opened) \ mine),
             [batch EXCEPT !.root = IF roots THEN {e.n} ELSE @,
                           !.kids = IF roots THEN @ ELSE Append(@, e.n),
                           !.touched = now])

(* observeFlush: buffer, and shed the least recently touched past the      *)
(* ceiling; nothing is taken once closed or disabled.                      *)
ObserveFlush ==
  /\ now + Grace <= MaxTime              \* bound: every batch can still ripen
  /\ \E s \in Flushes :
       LET from   == Len(entries)
           taken  == [i \in DOMAIN s |->
                        [n |-> from + i, batch |-> s[i].batch, kind |-> s[i].kind, at |-> now]]
           opened == FoldLeft(Accept, open, taken)
           excess == IF Len(opened) > MaxOpen THEN Len(opened) - MaxOpen ELSE 0
       IN  /\ from + Len(s) <= MaxEntries
           /\ ~closed /\ ~disabled
           /\ entries' = entries \o taken
           /\ fate' = fate \o [i \in DOMAIN s |-> "held"]
           /\ open' = SubSeq(opened, excess + 1, Len(opened))
           /\ evicted' = evicted \o SubSeq(opened, 1, excess)
  /\ UNCHANGED <<now, sending, closed, disabled, closing, postVars, metricVars>>

(* observeRecord: every record, before sampling.                           *)
ObserveRecord ==
  /\ total < MaxObserved
  /\ ~closed
  /\ total' = total + 1
  /\ sinceCollect' = sinceCollect + 1
  /\ UNCHANGED <<now, assemblerVars, sending, closed, disabled, closing, postVars,
                 lastRuntimeAt, reported, entries, fate>>

Ripe(b) == now - b.touched >= Grace
RipeOnes == {b \in ToSet(open) : Ripe(b)}

-----------------------------------------------------------------------------
(* Encoding: a section is a sequence of records, a record being the        *)
(* entries it carries.                                                     *)

IsKind(k) == {n \in DOMAIN entries : entries[n].kind = k}

(* shouldExportBatch: a batch with a failure in it is never sampled away.  *)
Exported(b) == b.id \notin Unsampled \/ Members(b) \cap IsKind("error") # {}

(* encodeLog: the logs travel alone, whatever becomes of their batch.      *)
Logs(batches) ==
  FoldLeft(LAMBDA s, b : s \o Where(b.kids, IsKind("log")), <<>>, batches)

(* encodeSnapshot and encodeJob: a root, with its children as spans but    *)
(* for the logs and for a second root, which is no span.  A batch without  *)
(* its root has no record to hang its spans on.                            *)
Records(batches, ids) ==
  LET rooted == Where(batches, {b \in ToSet(batches) : b.root # {} /\ b.id \in ids})
  IN  [i \in DOMAIN rooted |->
         rooted[i].root \cup (Members(rooted[i]) \cap IsKind("error"))]

(* The bounded append: a section keeps its first records.                  *)
Capped(section, size) == SubSeq(section, 1, IF Len(section) < CapFactor * size
                                            THEN Len(section) ELSE CapFactor * size)

(* collect: each batch is sampled as a whole, then encoded.                *)
Collect(batches) ==
  LET kept == Where(batches, {b \in ToSet(batches) : Exported(b)})
      logs == Logs(kept)
  IN  [snapshots |-> Capped(Records(kept, Batches \ JobBatches), MaxRecords),
       jobs      |-> Capped(Records(kept, JobBatches), MaxRecords),
       logs      |-> Capped([i \in DOMAIN logs |-> {logs[i]}], MaxLogs),
       encoded   |-> ToSet(logs) \cup UNION ToSet(Records(kept, Batches)),
       sampled   |-> UNION {Members(b) : b \in ToSet(batches) \ ToSet(kept)}]

Outgoing(w) == UNION (ToSet(w.snapshots) \cup ToSet(w.jobs) \cup ToSet(w.logs))

(* What becomes of the entries of batches that are collected into w.       *)
FateOf(n, w) ==
  CASE n \in w.sampled          -> "sampledOut"
    [] n \in Outgoing(w)        -> "outgoing"
    [] n \in w.encoded \ Outgoing(w) -> "overCap"
    [] OTHER                    -> "unencodable"

Settle(f, S, how) == [n \in DOMAIN f |-> IF n \in S THEN how ELSE f[n]]

Requests(section, size) == (Len(section) + size - 1) \div size

Slice(section, size, i) ==
  UNION {section[j] : j \in {k \in DOMAIN section : (k - 1) \div size = i - 1}}

BuildRepeating(w, beat) ==               \* mutant: the metrics ride on every payload
  LET needed == Max({Requests(w.snapshots, MaxRecords), Requests(w.jobs, MaxRecords),
                     Requests(w.logs, MaxLogs)})
      metrics == IF needed > 0 \/ beat THEN sinceCollect ELSE 0
      count  == IF needed = 0 /\ beat THEN 1 ELSE needed
  IN  [i \in 1 .. count |->
         [carries |-> UNION {Slice(w.snapshots, MaxRecords, i), Slice(w.jobs, MaxRecords, i),
                             Slice(w.logs, MaxLogs, i)},
          iv      |-> metrics]]

(* buildPayloads: payload i carries the i-th slice of every section.  With *)
(* traffic, or with a process snapshot due (beat), the metrics' interval   *)
(* rides on the first payload, which a beat alone is enough to build.      *)
Build(w, beat) ==
  LET needed == Max({Requests(w.snapshots, MaxRecords), Requests(w.jobs, MaxRecords),
                     Requests(w.logs, MaxLogs)})
      metrics == IF needed > 0 \/ beat THEN sinceCollect ELSE 0
      count  == IF needed = 0 /\ beat THEN 1 ELSE needed
  IN  [i \in 1 .. count |->
         [carries |-> UNION {Slice(w.snapshots, MaxRecords, i), Slice(w.jobs, MaxRecords, i),
                             Slice(w.logs, MaxLogs, i)},
          iv      |-> IF i = 1 THEN metrics ELSE 0]]

-----------------------------------------------------------------------------
(* Dispatching.                                                            *)

(* Dispatcher d takes the batches and posts: collect and buildPayloads run *)
(* at once, and with nothing to post the dispatch is over.  A process      *)
(* snapshot is due once per interval, which only a complete one consumes.  *)
Start(d, batches) ==
  \E beat \in {FALSE, now - lastRuntimeAt >= RuntimeInterval}, w \in {Collect(batches)} :
    \E payloads \in {Build(w, beat)}, taken \in {UNION {Members(b) : b \in ToSet(batches)}} :
      /\ fate' = [n \in DOMAIN fate |-> IF n \in taken THEN FateOf(n, w) ELSE fate[n]]
      /\ queue' = [queue EXCEPT ![d] = payloads]
      /\ attempt' = [attempt EXCEPT ![d] = IF payloads = <<>> THEN 0 ELSE 1]
      /\ sending' = (sending \/ payloads # <<>>)
      /\ reported' = reported + FoldLeft(LAMBDA s, p : s + p.iv, 0, payloads)
      /\ sinceCollect' = IF payloads = <<>> THEN sinceCollect ELSE 0
      /\ lastRuntimeAt' = IF beat THEN now ELSE lastRuntimeAt
      /\ UNCHANGED <<pausing, total>>

(* drain: what the ceiling shed, then what is ripe.                        *)
DrainKeepingShed ==                      \* mutant: takeEvicted copies the shed batches
  /\ open' = Where(open, ToSet(open) \ RipeOnes)
  /\ UNCHANGED evicted

Drain ==
  /\ open' = Where(open, ToSet(open) \ RipeOnes)
  /\ evicted' = <<>>

(* tick, on the timer.                                                     *)
Tick ==
  /\ ~sending /\ ~closed /\ ~disabled
  /\ Drain
  /\ \E batches \in {evicted \o Where(open, RipeOnes)} : Start("timer", batches)
  /\ UNCHANGED <<now, closed, disabled, closing, entries>>

MayDispatch == ~sending

(* close: drainAll takes everything, and the dispatch gives up at once if  *)
(* the timer's is still under way: nobody holds those batches any more.    *)
Close ==
  /\ ~closed
  /\ closed' = TRUE
  /\ open' = <<>>
  /\ evicted' = <<>>
  /\ IF MayDispatch
     THEN /\ Start("close", evicted \o open)
          /\ closing' = IF attempt'["close"] = 0 THEN "done" ELSE "sending"
     ELSE /\ fate' = Settle(fate, UNION {Members(b) : b \in ToSet(evicted \o open)}, "vanished")
          /\ closing' = "done"
          /\ UNCHANGED <<sending, postVars, metricVars>>
  /\ UNCHANGED <<now, disabled, entries>>

-----------------------------------------------------------------------------
(* Posting.                                                                *)

(* d's dispatch is at an attempt, not backing off.                         *)
Posting(d) == attempt[d] > 0 /\ ~pausing[d]

(* The dispatch of d goes on with the payloads rest; sending is reset when *)
(* there are none.                                                         *)
GoOnNoFinally(d, rest) ==                \* mutant: sending is not reset
  /\ queue' = [queue EXCEPT ![d] = rest]
  /\ attempt' = [attempt EXCEPT ![d] = IF rest = <<>> THEN 0 ELSE 1]
  /\ UNCHANGED sending
  /\ closing' = IF d = "close" /\ rest = <<>> THEN "done" ELSE closing

GoOn(d, rest) ==
  /\ queue' = [queue EXCEPT ![d] = rest]
  /\ attempt' = [attempt EXCEPT ![d] = IF rest = <<>> THEN 0 ELSE 1]
  /\ sending' = (sending /\ rest # <<>>)
  /\ closing' = IF d = "close" /\ rest = <<>> THEN "done" ELSE closing

Carried(payloads) == UNION {p.carries : p \in ToSet(payloads)}

Accepted(d) ==
  /\ Posting(d) /\ ~disabled
  /\ fate' = Settle(fate, Head(queue[d]).carries, "sent")
  /\ GoOn(d, Tail(queue[d]))
  /\ UNCHANGED <<now, assemblerVars, closed, disabled, pausing, metricVars, entries>>

(* A status that no retry changes: the payload is dropped.                 *)
Rejected(d) ==
  /\ Posting(d) /\ ~disabled
  /\ fate' = Settle(fate, Head(queue[d]).carries, "refused")
  /\ GoOn(d, Tail(queue[d]))
  /\ UNCHANGED <<now, assemblerVars, closed, disabled, pausing, metricVars, entries>>

(* 401 or 403: the breaker opens and the loop over the payloads ends.      *)
Unauthorised(d) ==
  /\ Posting(d) /\ ~disabled
  /\ disabled' = TRUE
  /\ fate' = Settle(fate, Carried(queue[d]), "refused")
  /\ GoOn(d, <<>>)
  /\ UNCHANGED <<now, assemblerVars, closed, pausing, metricVars, entries>>

(* send() with the breaker open, which only close() still comes to.        *)
Suppressed(d) ==
  /\ Posting(d) /\ disabled
  /\ fate' = Settle(fate, Carried(queue[d]), "refused")
  /\ GoOn(d, <<>>)
  /\ UNCHANGED <<now, assemblerVars, closed, disabled, pausing, metricVars, entries>>

LastAttempt(d) == attempt[d] >= MaxRetries

(* A retryable status, an error of the network, or the request's timeout:  *)
(* the collector may have seen the payload.  The last attempt drops it.    *)
Unanswered(d) ==
  /\ Posting(d) /\ ~disabled
  /\ IF LastAttempt(d)
     THEN /\ fate' = Settle(fate, Head(queue[d]).carries, "refused")
          /\ GoOn(d, Tail(queue[d]))
          /\ UNCHANGED pausing
     ELSE /\ pausing' = [pausing EXCEPT ![d] = TRUE]
          /\ UNCHANGED <<fate, queue, attempt, sending, closing>>
  /\ UNCHANGED <<now, assemblerVars, closed, disabled, metricVars, entries>>

(* The pause is over.                                                      *)
Retry(d) ==
  /\ pausing[d]
  /\ pausing' = [pausing EXCEPT ![d] = FALSE]
  /\ attempt' = [attempt EXCEPT ![d] = @ + 1]
  /\ UNCHANGED <<now, assemblerVars, sending, closed, disabled, closing, queue,
                 metricVars, entries, fate>>

Post(d) ==
  \/ Accepted(d)
  \/ Rejected(d)
  \/ Unauthorised(d)
  \/ Suppressed(d)
  \/ Unanswered(d)
  \/ Retry(d)

Next ==
  \/ TimePasses
  \/ ObserveFlush
  \/ ObserveRecord
  \/ Tick
  \/ Close
  \/ \E d \in Dispatchers : Post(d)

Spec == Init /\ [][Next]_vars

(* The clock goes on and the interval fires; a POST is answered or times   *)
(* out, and a pause ends.  Nobody has to call close().                     *)
FairSpec ==
  /\ Spec
  /\ WF_vars(TimePasses)
  /\ WF_vars(Tick)
  /\ \A d \in Dispatchers : WF_vars(Post(d))

-----------------------------------------------------------------------------
(* Properties.                                                             *)

TypeOK ==
  /\ now \in 0 .. MaxTime
  /\ Len(open) <= MaxOpen
  /\ {sending, closed, disabled} \subseteq BOOLEAN
  /\ closing \in {"no", "sending", "done"}
  /\ attempt \in [Dispatchers -> 0 .. MaxRetries]
  /\ \A d \in Dispatchers : attempt[d] > 0 <=> queue[d] # <<>>
  /\ Len(fate) = Len(entries)

(* An accepted entry is in one place: in one batch of the assembler, or in *)
(* one payload being posted, or gone for a reason; it never leaves twice,  *)
(* whatever flushes, drains, evictions and retries overlap.  Only close()  *)
(* loses one without a reason.  The state has its type throughout.         *)
InOnePlace ==
  /\ TypeOK
  /\ LET held == open \o evicted
         out  == queue["timer"] \o queue["close"]
     IN  \A n \in DOMAIN entries :
           LET batches  == {i \in DOMAIN held : n \in Members(held[i])}
               payloads == {i \in DOMAIN out : n \in out[i].carries}
           IN  /\ Cardinality(batches) = IF fate[n] = "held" THEN 1 ELSE 0
               /\ Cardinality(payloads) = IF fate[n] = "outgoing" THEN 1 ELSE 0
               /\ fate[n] = "vanished" => closed

(* A batch leaves the assembler early only because of close() or of the    *)
(* ceiling: otherwise every entry of it arrived at least a grace ago, so   *)
(* that a request still accumulating spans is not cut in half.  What the   *)
(* ceiling sheds has been waiting longest (drain, enforceCeiling).         *)
NeverCutInHalf ==
  [][\A i \in DOMAIN open :
       LET b == open[i]
           newest == Max({entries[n].at : n \in Members(b)})
       IN  (\A n \in Members(b) : \A j \in DOMAIN open' : n \notin Members(open'[j])) =>
             \/ closed'
             \/ now - newest >= Grace
             \/ /\ Len(open') = MaxOpen
                /\ \A j \in DOMAIN open' :
                     \E n \in Members(open'[j]) : entries'[n].at >= newest]_open

(* A process-wide count reaches the wire once: the interval increases of   *)
(* all payloads add up to what has been observed, less what the next one   *)
(* will carry (dueCustomMetrics, "would double-count it").                 *)
MetricsOnce == total = reported + sinceCollect

(* No entry stays in the assembler without a further flush to push it out, *)
(* nor behind a collector that does not answer, unless the breaker opened; *)
(* and close() ends.                                                       *)
EntriesLeave ==
  /\ closed ~> closing = "done"
  /\ (\E n \in DOMAIN fate : fate[n] \in {"held", "outgoing"})
       ~> disabled \/ \A n \in DOMAIN fate : fate[n] \notin {"held", "outgoing"}

(* "Every open batch, removed - for shutdown, so nothing in flight is      *)
(* lost" (drainAll); close() sends "everything still held".                *)
CloseSendsWhatIsHeld == \A n \in DOMAIN fate : fate[n] # "vanished"

=============================================================================
