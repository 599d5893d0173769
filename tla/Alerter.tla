------------------------------- MODULE Alerter -------------------------------
(***************************************************************************)
(* The exception alerts of a fleet: evaluateFlush of                       *)
(* core/src/alerts/telescope-alerter.ts on every pod, over one shared      *)
(* store, with the diagnosis coordinator it asks for a note.               *)
(*                                                                         *)
(* A flush's exceptions queue behind those of earlier flushes and are      *)
(* evaluated one at a time, with the time they were queued at: every await *)
(* on that path (the shared store, the payload's reads, the diagnosis, the *)
(* channels) is a step here, during which the other pods, later flushes    *)
(* and the diagnoses go on.                                                *)
(*                                                                         *)
(* An entry is its family: entries evaluateFlush filters out are left out  *)
(* of the flushes.  What a page says is not modelled, but for the note.    *)
(* A channel's outcome changes nothing but a log latch.                    *)
(***************************************************************************)
EXTENDS Diagnosis

CONSTANTS
  Flushes,          \* what a flush may store: sequences of families
  NewRule,          \* is a new-exception rule configured
  EveryRule,        \* is an every-exception rule configured
  Window,           \* the new-exception rule's window
  Cooldown,         \* cooldownMs
  MaxFamilies,      \* cap of lastFiredFamily and of the tracker
  MaxPending,       \* MAX_PENDING_FLUSH_ENTRIES
  LastSeenMayFall,  \* does markFamilySeen overwrite a later last-seen time
  MaxFlushes        \* bound: flushes

ASSUME AlerterAssumption ==
  /\ \A s \in Flushes : s \in Seq(Families) /\ s # <<>>
  /\ NewRule \in BOOLEAN
  /\ EveryRule \in BOOLEAN
  /\ LastSeenMayFall \in BOOLEAN
  /\ Window \in Nat \ {0}
  /\ Cooldown \in Nat
  /\ MaxFamilies \in Nat \ {0}
  /\ {MaxPending, MaxFlushes} \subseteq Nat

VARIABLES
  queue,        \* pod -> flushes queued on flushQueue, the head in evaluation
  pending,      \* pod -> pendingFlushEntries
  stage,        \* pod -> where the evaluation of the head is
  rule,         \* pod -> the rule whose page is being built
  observed,     \* pod -> families of the head observed so far
  seen,         \* the shared store: family -> last seen
  tracker,      \* pod -> newExceptionTracker
  lastFired,    \* pod -> lastFiredFamily
  flushes,      \* flushes so far
  sightings,    \* history: [fam, at] pairs the new-exception rule evaluated
  fires         \* history: pod -> its fires, in order, and what came of them

evaluationVars == <<stage, rule, observed>>
memoryVars     == <<seen, tracker, lastFired>>
historyVars    == <<sightings, fires>>
alerterVars    == <<queue, pending, evaluationVars, memoryVars, historyVars, flushes>>
vars           == <<now, diagnosisVars, alerterVars>>

Stages == {"idle", "asking", "every", "building", "diagnosing", "sending"}

Init ==
  /\ DiagnosisInit
  /\ queue = [p \in Pods |-> <<>>]
  /\ pending = [p \in Pods |-> 0]
  /\ stage = [p \in Pods |-> "idle"]
  /\ rule = [p \in Pods |-> "new"]
  /\ observed = [p \in Pods |-> {}]
  /\ seen = [f \in Families |-> Never]
  /\ tracker = [p \in Pods |-> Empty]
  /\ lastFired = [p \in Pods |-> Empty]
  /\ flushes = 0
  /\ sightings = {}
  /\ fires = [p \in Pods |-> <<>>]

-----------------------------------------------------------------------------

(* The entry in evaluation, and the time its flush was queued at.          *)
Family(p) == Head(Head(queue[p]).fams)
Stamp(p)  == Head(queue[p]).at

Tick ==
  /\ now < MaxTime
  /\ now' = now + 1
  /\ UNCHANGED <<diagnosisVars, alerterVars>>

(* The queue becomes q; its head's next entry is taken up, when there is   *)
(* one.  With a new-exception rule an entry's family is looked up, awaited,*)
(* once per flush; alreadyObserved are the families of this one.           *)
TakeUp(p, q, alreadyObserved) ==
  LET asks == q # <<>> /\ NewRule /\ Head(Head(q).fams) \notin alreadyObserved
  IN  /\ queue' = [queue EXCEPT ![p] = q]
      /\ stage' = [stage EXCEPT ![p] =
           IF q = <<>> THEN "idle" ELSE IF asks THEN "asking" ELSE "every"]
      /\ observed' = [observed EXCEPT ![p] =
           IF asks THEN alreadyObserved \cup {Head(Head(q).fams)} ELSE alreadyObserved]

(* The flush's turn is over: its entries leave the backlog.                *)
LeaveQueue(p) ==
  /\ pending' = [pending EXCEPT ![p] = @ - Head(queue[p]).size]
  /\ TakeUp(p, Tail(queue[p]), {})

(* An entry is done with.                                                  *)
Advance(p) ==
  LET head == Head(queue[p])
      rest == Tail(head.fams)
  IN  IF rest = <<>>
      THEN LeaveQueue(p)
      ELSE /\ TakeUp(p, <<[head EXCEPT !.fams = rest]>> \o Tail(queue[p]), observed[p])
           /\ UNCHANGED pending

(* A flush stored exceptions: onFlushStored shows them to the coordinator  *)
(* and queues their evaluation, or skips it past the cap.                  *)
Enqueue(p, fams) ==
  LET q == Append(queue[p], [at |-> now, size |-> Len(fams), fams |-> fams])
  IN  IF pending[p] + Len(fams) > MaxPending
      THEN UNCHANGED <<queue, pending, stage, observed>>
      ELSE /\ pending' = [pending EXCEPT ![p] = @ + Len(fams)]
           /\ IF queue[p] = <<>>
              THEN TakeUp(p, q, {})
              ELSE queue' = [queue EXCEPT ![p] = q] /\ UNCHANGED <<stage, observed>>

Flush(p) ==
  /\ flushes < MaxFlushes
  /\ flushes' = flushes + 1
  /\ \E fams \in Flushes :
       /\ ObserveFlush(p, {fams[i] : i \in DOMAIN fams})
       /\ Enqueue(p, fams)
  /\ UNCHANGED <<now, rule, memoryVars, historyVars>>

InCooldown(p, r) ==
  LET key == <<r, Family(p)>>
  IN  Holds(lastFired[p], key) /\ Stamp(p) - At(lastFired[p], key) < Cooldown

(* markFamilyFired, then the page is built.                                *)
FireUnstamped(p, r, via) ==              \* mutant: the cooldown clock is not set
  /\ rule' = [rule EXCEPT ![p] = r]
  /\ stage' = [stage EXCEPT ![p] = "building"]
  /\ fires' = [fires EXCEPT ![p] = Append(@,
       [rule |-> r, fam |-> Family(p), at |-> Stamp(p), via |-> via, note |-> "pending"])]
  /\ UNCHANGED lastFired

Fire(p, r, via) ==
  /\ lastFired' = [lastFired EXCEPT ![p] = Put(@, <<r, Family(p)>>, Stamp(p), MaxFamilies)]
  /\ rule' = [rule EXCEPT ![p] = r]
  /\ stage' = [stage EXCEPT ![p] = "building"]
  /\ fires' = [fires EXCEPT ![p] = Append(@,
       [rule |-> r, fam |-> Family(p), at |-> Stamp(p), via |-> via, note |-> "pending"])]

FireIfNew(p, isNew, via) ==
  /\ sightings' = sightings \cup {[fam |-> Family(p), at |-> Stamp(p)]}
  /\ IF isNew /\ ~InCooldown(p, "new")
     THEN Fire(p, "new", via)
     ELSE /\ stage' = [stage EXCEPT ![p] = "every"]
          /\ UNCHANGED <<lastFired, rule, fires>>
  /\ UNCHANGED <<now, coordinatorVars, queue, pending, observed, flushes>>

(* The store's markFamilySeen: a sliding window, checked and moved at once.*)
NewToStoreEarly(p) ==                    \* mutant: the window is one short
  seen[Family(p)] = Never \/ Stamp(p) - seen[Family(p)] >= Window - 1

NewToStore(p) ==
  seen[Family(p)] = Never \/ Stamp(p) - seen[Family(p)] >= Window

MoveSeen(p) ==
  LET last == seen[Family(p)]
  IN  seen' = [seen EXCEPT ![Family(p)] =
        IF last # Never /\ last > Stamp(p) /\ ~LastSeenMayFall THEN last ELSE Stamp(p)]

Marked(p) ==
  /\ stage[p] = "asking"
  /\ MoveSeen(p)
  /\ FireIfNew(p, NewToStore(p), "store")
  /\ UNCHANGED <<tracker, faults>>

(* The call fails, executed by the store or not: the pod's own tracker     *)
(* decides, and is the only memory of it.                                  *)
NewToTrackerNever(p) ==                  \* mutant: a failed call counts as "not new"
  FALSE

NewToTracker(p) ==
  ~Holds(tracker[p], Family(p)) \/ Stamp(p) - At(tracker[p], Family(p)) >= Window

MarkFails(p) ==
  /\ stage[p] = "asking"
  /\ Fault
  /\ MoveSeen(p) \/ UNCHANGED seen
  /\ tracker' = [tracker EXCEPT ![p] = Put(@, Family(p), Stamp(p), MaxFamilies)]
  /\ FireIfNew(p, NewToTracker(p), "tracker")

(* The every-exception rule looks at each entry.                           *)
Every(p) ==
  /\ stage[p] = "every"
  /\ IF EveryRule /\ ~InCooldown(p, "every")
     THEN Fire(p, "every", "rule") /\ UNCHANGED <<queue, pending, observed>>
     ELSE Advance(p) /\ UNCHANGED <<lastFired, rule, fires>>
  /\ UNCHANGED <<now, diagnosisVars, seen, tracker, sightings, flushes>>

(* What came of the pod's last fire.                                       *)
Noted(p, note) ==
  fires' = [fires EXCEPT ![p][Len(fires[p])].note = note]

(* A read of buildExceptionPayload throws: evaluateExceptions ends, with   *)
(* this page and the entries behind it.                                    *)
GiveUpTurnOnly(p) ==                     \* mutant: the counter is lowered on success only
  /\ TakeUp(p, Tail(queue[p]), {})
  /\ UNCHANGED pending

GiveUp(p) == LeaveQueue(p)

BuildFails(p) ==
  /\ stage[p] = "building"
  /\ Fault
  /\ Noted(p, "lost")
  /\ GiveUp(p)
  /\ UNCHANGED <<now, coordinatorVars, rule, memoryVars, sightings, flushes>>

(* The reads are done; awaitForAlert answers from the cache, waits for the *)
(* run in flight, or has nothing to say.  A pod without the automatic mode *)
(* has no hook to ask.                                                     *)
AskForNoteInFlightOnly(p, f) ==          \* mutant: the cache is not looked at
  /\ IF p \in AutoPods /\ f \in inFlight[p]
     THEN stage' = [stage EXCEPT ![p] = "diagnosing"] /\ UNCHANGED fires
     ELSE stage' = [stage EXCEPT ![p] = "sending"] /\ Noted(p, outcome[p][f])
  /\ UNCHANGED cache

AskForNote(p, f) ==
  IF p \in AutoPods
  THEN /\ cache' = [cache EXCEPT ![p] = AfterGet(p, f)]
       /\ IF ~Fresh(p, f) /\ f \in inFlight[p]
          THEN stage' = [stage EXCEPT ![p] = "diagnosing"] /\ UNCHANGED fires
          ELSE /\ stage' = [stage EXCEPT ![p] = "sending"]
               /\ Noted(p, IF Fresh(p, f) THEN "attached" ELSE outcome[p][f])
  ELSE /\ stage' = [stage EXCEPT ![p] = "sending"]
       /\ Noted(p, "off")
       /\ UNCHANGED cache

Built(p) ==
  /\ stage[p] = "building"
  /\ AskForNote(p, Family(p))
  /\ UNCHANGED <<now, firstSeen, inFlight, onDemand, requests, faults, outcome, succeeded,
                 queue, pending, rule, observed, memoryVars, sightings, flushes>>

(* The grace is over: the page goes without a note.                        *)
Grace(p) ==
  /\ stage[p] = "diagnosing"
  /\ stage' = [stage EXCEPT ![p] = "sending"]
  /\ Noted(p, "late")
  /\ UNCHANGED <<now, diagnosisVars, queue, pending, rule, observed, memoryVars, sightings,
                 flushes>>

(* An automatic run settles, and with it the wait of a page for it.        *)
Diagnosed(p, f) ==
  /\ AutoSettles(p, f)
  /\ IF stage[p] = "diagnosing" /\ Family(p) = f
     THEN /\ stage' = [stage EXCEPT ![p] = "sending"]
          /\ Noted(p, IF outcome'[p][f] = "ok" THEN "attached" ELSE "failed")
     ELSE UNCHANGED <<stage, fires>>
  /\ UNCHANGED <<now, queue, pending, rule, observed, memoryVars, sightings, flushes>>

OnDemand(p, f) ==
  /\ Ask(p, f) \/ AskSettles(p, f)
  /\ UNCHANGED <<now, alerterVars>>

(* Every channel has answered or failed.                                   *)
Sent(p) ==
  /\ stage[p] = "sending"
  /\ IF rule[p] = "new"
     THEN stage' = [stage EXCEPT ![p] = "every"] /\ UNCHANGED <<queue, pending, observed>>
     ELSE Advance(p)
  /\ UNCHANGED <<now, diagnosisVars, rule, memoryVars, historyVars, flushes>>

Evaluate(p) ==
  \/ Marked(p)
  \/ MarkFails(p)
  \/ Every(p)
  \/ Built(p)
  \/ BuildFails(p)
  \/ Grace(p)
  \/ Sent(p)

Next ==
  \/ Tick
  \/ \E p \in Pods :
       \/ Flush(p)
       \/ Evaluate(p)
       \/ \E f \in Families : Diagnosed(p, f) \/ OnDemand(p, f)

Spec == Init /\ [][Next]_vars

(* What an evaluation awaits settles: store calls and channels answer or   *)
(* fail, the grace timer fires.  The model need not ever answer.           *)
Fairness == \A p \in Pods : WF_vars(Evaluate(p))

FairSpec == Spec /\ Fairness

-----------------------------------------------------------------------------
(* Properties.                                                             *)

TypeOK ==
  /\ DiagnosisTypeOK
  /\ stage \in [Pods -> Stages]
  /\ rule \in [Pods -> {"new", "every"}]
  /\ observed \in [Pods -> SUBSET Families]
  /\ seen \in [Families -> 0 .. MaxTime \cup {Never}]
  /\ \A p \in Pods :
       /\ Len(tracker[p]) <= MaxFamilies
       /\ Len(lastFired[p]) <= MaxFamilies
       /\ queue[p] = <<>> <=> stage[p] = "idle"

Fires == UNION {{fires[p][i] : i \in DOMAIN fires[p]} : p \in Pods}

(* Two pages granted by the shared store for a family are a window apart,  *)
(* over all pods and however late each evaluation runs (markFamilySeen: a  *)
(* family pages once across the whole deployment).                         *)
Granted(p, i) == fires[p][i].rule = "new" /\ fires[p][i].via = "store"

OncePerWindow ==
  \A p, q \in Pods : \A i \in DOMAIN fires[p], j \in DOMAIN fires[q] :
    /\ <<p, i>> # <<q, j>>
    /\ Granted(p, i) /\ Granted(q, j)
    /\ fires[p][i].fam = fires[q][j].fam
    => \/ fires[p][i].at - fires[q][j].at >= Window
       \/ fires[q][j].at - fires[p][i].at >= Window

(* A pod pages again for a family within the cooldown only when more than  *)
(* MaxFamilies others fired in between (markFamilyFired's eviction).       *)
CooldownKept ==
  \A p \in Pods : \A i, j \in DOMAIN fires[p] :
    LET Key(k) == <<fires[p][k].rule, fires[p][k].fam>>
    IN  i < j /\ Key(i) = Key(j) =>
          \/ fires[p][j].at - fires[p][i].at >= Cooldown
          \/ Cardinality({Key(k) : k \in i + 1 .. j - 1} \ {Key(i)}) >= MaxFamilies

(* A sighting paged, unless another one was less than a window, or less    *)
(* than a cooldown, before it, or was after it.                            *)
PagedFor(s, notes) ==
  \/ \E t \in sightings :
       t # s /\ t.fam = s.fam /\ (s.at - t.at < Window \/ s.at - t.at < Cooldown)
  \/ \E e \in Fires : e.rule = "new" /\ e.fam = s.fam /\ e.at = s.at /\ e.note \notin notes

(* A failing markFamilySeen never silences a family: what it leaves behind,*)
(* done or not, in the store or in a tracker, still lets an isolated       *)
(* sighting page (observeFamily: once per pod, never silent).  A page lost *)
(* to a failed read of its payload is let off here.                        *)
PagedOrLost == \A s \in sightings : PagedFor(s, {})

(* The same without the excuse.                                            *)
NeverSilent == \A s \in sightings : PagedFor(s, {"lost"})

(* A page that asked goes without a note only when the last run failed or  *)
(* the pod no longer knows the answer: the coordinator never learns of a   *)
(* family later than its alert (onFlushStored's order), and what a run     *)
(* found is there once it is no longer in flight (runDiagnosis' order).    *)
LastNote(p) == fires'[p][Len(fires[p])].note

NoteExplained ==
  [][\A p \in AutoPods :
       stage[p] = "building" /\ stage'[p] = "sending" =>
         \/ LastNote(p) = "attached"
         \/ LastNote(p) \in {"ok", "failed"} /\ ~StillKnown(p, Family(p))]_vars

(* Whoever fails, and even if the model never answers, each backlog        *)
(* empties (evaluateFlush never rejects; awaitForAlert caps its wait) and  *)
(* is counted as empty: a counter that drifts up ends in skipping every    *)
(* alert (evaluateFlush's finally).                                        *)
BacklogDrains ==
  \A p \in Pods : queue[p] # <<>> ~> queue[p] = <<>> /\ pending[p] = 0
=============================================================================
