------------------------------ MODULE Diagnosis ------------------------------
(***************************************************************************)
(* The AI diagnosis coordinator of core/src/ai, one on every pod: an       *)
(* automatic diagnosis for each new error family, diagnoses on demand, and *)
(* the cache both fill.  A run reads its context from the storage and asks *)
(* the model; nothing is remembered until it settles, so it is one         *)
(* interval that ends well, ends in a failure, or never ends.              *)
(*                                                                         *)
(* The first-seen tracker's cap of 10 000 families is not reached.         *)
(***************************************************************************)
EXTENDS Integers, Sequences, FiniteSets, BoundedMap

CONSTANTS
  Pods,             \* the replicas
  AutoPods,         \* those configured with ai mode 'auto'
  Families,         \* family hashes
  NewFamilyWindow,  \* AUTO_NEW_FAMILY_WINDOW
  CacheTTL,         \* the cache's ttlMs
  CacheMax,         \* the cache's maxEntries
  MaxTime,          \* bound: the clock stops here
  MaxRequests,      \* bound: diagnoses on demand
  MaxFaults,        \* bound: calls that fail
  Never             \* a family that has not been seen

ASSUME DiagnosisAssumption ==
  /\ NewFamilyWindow \in Nat \ {0}
  /\ CacheTTL \in Nat \ {0}
  /\ CacheMax \in Nat \ {0}
  /\ MaxTime \in Nat
  /\ MaxRequests \in Nat
  /\ MaxFaults \in Nat
  /\ Never \notin Int
  /\ AutoPods \subseteq Pods

VARIABLES
  now,        \* the clock every pod reads
  firstSeen,  \* pod -> family -> when newFamilyTracker last observed it
  cache,      \* pod -> the diagnosis cache
  inFlight,   \* pod -> families with an automatic run
  onDemand,   \* pod -> families with a run on demand
  requests,   \* runs on demand so far
  faults,     \* calls that failed so far
  outcome,    \* history: pod -> family -> how its last settled run ended
  succeeded   \* history: pod -> the runs that succeeded, in order

coordinatorVars == <<firstSeen, cache, inFlight, onDemand, requests, outcome, succeeded>>
diagnosisVars   == <<coordinatorVars, faults>>

DiagnosisInit ==
  /\ now = 0
  /\ firstSeen = [p \in Pods |-> [f \in Families |-> Never]]
  /\ cache = [p \in Pods |-> Empty]
  /\ inFlight = [p \in Pods |-> {}]
  /\ onDemand = [p \in Pods |-> {}]
  /\ requests = 0
  /\ faults = 0
  /\ outcome = [p \in Pods |-> [f \in Families |-> "none"]]
  /\ succeeded = [p \in Pods |-> Empty]

-----------------------------------------------------------------------------

(* DiagnosisCache.get: an expired entry is a miss, and is deleted by it.   *)
Fresh(p, f) == Holds(cache[p], f) /\ now - At(cache[p], f) < CacheTTL

AfterGet(p, f) == IF Fresh(p, f) THEN cache[p] ELSE Without(cache[p], f)

(* NewExceptionTracker.observe, as newFamilyTracker uses it.               *)
NewToPod(p, f) ==
  firstSeen[p][f] = Never \/ now - firstSeen[p][f] >= NewFamilyWindow

(* onNewFamily: nothing to do for a family cached or under way.            *)
StartsRunAlways(p, f) ==                 \* mutant: the cache is not consulted
  NewToPod(p, f) /\ f \notin inFlight[p]

StartsRun(p, f) == NewToPod(p, f) /\ ~Fresh(p, f) /\ f \notin inFlight[p]

(* observeFlush over the families S of a flush: a repeat within it is not  *)
(* new, its first occurrence having been observed at the same time.        *)
ObserveFlush(p, S) ==
  /\ IF p \in AutoPods
     THEN /\ firstSeen' = [firstSeen EXCEPT ![p] =
               [f \in Families |-> IF f \in S THEN now ELSE @[f]]]
          /\ cache' = [cache EXCEPT ![p] =
               Retain(@, {f \in Families : f \in S /\ NewToPod(p, f) => Fresh(p, f)})]
          /\ inFlight' = [inFlight EXCEPT ![p] = @ \cup {f \in S : StartsRun(p, f)}]
     ELSE UNCHANGED <<firstSeen, cache, inFlight>>
  /\ UNCHANGED <<onDemand, requests, faults, outcome, succeeded>>

(* A run settles: its markdown goes to the cache, or a failure is noted.   *)
Keep(p, f) ==
  /\ cache' = [cache EXCEPT ![p] = Put(@, f, now, CacheMax)]
  /\ outcome' = [outcome EXCEPT ![p][f] = "ok"]
  /\ succeeded' = [succeeded EXCEPT ![p] = Append(@, [key |-> f, at |-> now])]
  /\ UNCHANGED faults

(* Some awaited call fails.                                                *)
Fault == faults < MaxFaults /\ faults' = faults + 1

Fail(p, f) ==
  /\ Fault
  /\ outcome' = [outcome EXCEPT ![p][f] = "failed"]
  /\ UNCHANGED <<cache, succeeded>>

(* The automatic run of f ends; its slot is freed either way.              *)
AutoSettles(p, f) ==
  /\ f \in inFlight[p]
  /\ inFlight' = [inFlight EXCEPT ![p] = @ \ {f}]
  /\ Keep(p, f) \/ Fail(p, f)
  /\ UNCHANGED <<firstSeen, onDemand, requests>>

(* diagnose() for the dashboard: a fresh answer is served unless force;    *)
(* a run under way is not joined.                                          *)
Ask(p, f) ==
  /\ requests < MaxRequests
  /\ p \in AutoPods
  /\ f \notin onDemand[p]
  /\ \E force \in BOOLEAN :
       IF force \/ ~Fresh(p, f)
       THEN /\ onDemand' = [onDemand EXCEPT ![p] = @ \cup {f}]
            /\ requests' = requests + 1
            /\ cache' = [cache EXCEPT ![p] = IF force THEN @ ELSE AfterGet(p, f)]
       ELSE UNCHANGED <<onDemand, requests, cache>>
  /\ UNCHANGED <<firstSeen, inFlight, faults, outcome, succeeded>>

AskSettles(p, f) ==
  /\ f \in onDemand[p]
  /\ onDemand' = [onDemand EXCEPT ![p] = @ \ {f}]
  /\ Keep(p, f) \/ Fail(p, f)
  /\ UNCHANGED <<firstSeen, inFlight, requests>>

-----------------------------------------------------------------------------
(* Properties.                                                             *)

DiagnosisTypeOK ==
  /\ now \in 0 .. MaxTime
  /\ firstSeen \in [Pods -> [Families -> 0 .. MaxTime \cup {Never}]]
  /\ \A p \in Pods : Len(cache[p]) <= CacheMax
  /\ inFlight \in [Pods -> SUBSET Families]
  /\ onDemand \in [Pods -> SUBSET Families]
  /\ requests \in 0 .. MaxRequests
  /\ faults \in 0 .. MaxFaults
  /\ outcome \in [Pods -> [Families -> {"none", "ok", "failed"}]]

(* f was diagnosed on p less than a TTL ago, and fewer than CacheMax other *)
(* families since then.                                                    *)
StillKnown(p, f) ==
  \E i \in DOMAIN succeeded[p] :
    /\ succeeded[p][i].key = f
    /\ now - succeeded[p][i].at < CacheTTL
    /\ Cardinality({succeeded[p][j].key : j \in i + 1 .. Len(succeeded[p])} \ {f}) < CacheMax

(* No model call is spent by the automatic mode on a family the pod still  *)
(* knows, whoever asked for that diagnosis and however the runs of other   *)
(* families overlap with it (onNewFamily: at most once per family per      *)
(* cache window).                                                          *)
DiagnosedOncePerWindow ==
  [][\A p \in Pods, f \in Families :
       f \in inFlight'[p] \ inFlight[p] => ~StillKnown(p, f)]_inFlight
=============================================================================
