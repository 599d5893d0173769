------------------------------ MODULE PruneFleet ------------------------------
(***************************************************************************)
(* Which pod of a fleet prunes when: the in-flight guard and the locked    *)
(* cycle of core/src/nest/telescope-pruner.service.ts over the lease of    *)
(* core/src/prune/prune-lock.ts.  What a cycle does to the entries is      *)
(* ArchivePrune's subject.                                                 *)
(*                                                                         *)
(* The lease is a row of the shared store with an owner and an expiry,     *)
(* granted and deleted by one conditional statement.  The expiry is        *)
(* computed and compared with the clock of the caller, read before the     *)
(* statement is sent.  Here every expiry is counted down from the moment   *)
(* it was set, against true time; Skew says how far a pod's clock is       *)
(* ahead.  A provider whose store owns the expiry (Redis) has no skew.     *)
(*                                                                         *)
(* A tick or a "prune now" that finds a cycle in flight is dropped or      *)
(* joins it: both leave the state alone.  A pruner without a lock is one   *)
(* whose lock is always unavailable.  A statement takes effect before its  *)
(* process dies or never.  Log latches are not modelled.                   *)
(***************************************************************************)
EXTENDS Integers, FiniteSets

CONSTANTS
  Pods,         \* the replicas
  TTL,          \* prune.lockTtlMs
  Skew,         \* pod -> how far its clock is ahead of true time
  MaxLatency,   \* bound: how long a lease statement may be under way
  MaxCrashes,   \* bound: process restarts
  Horizon,      \* bound: countdowns stop here
  NoOwner       \* there is no lease row

ASSUME FleetAssumption ==
  /\ TTL \in Nat \ {0}
  /\ Skew \in [Pods -> Int]
  /\ MaxLatency \in Nat
  /\ MaxCrashes \in Nat
  /\ Horizon \in Int
  /\ \A p \in Pods : Horizon <= Skew[p] - MaxLatency
  /\ NoOwner \notin Pods \X Nat

VARIABLES
  stage,      \* pod -> where its cycle is: none, at acquire(), or pruning
  age,        \* pod -> how long ago the cycle read the clock for acquire()
  mine,       \* pod -> what is left of the lease it was granted
  releasing,  \* pods whose cycle awaits release()
  owner,      \* the lease row's owner
  left,       \* what is left until the row's expiry
  life,       \* pod -> its process id: a restart may or may not change it
  crashes     \* restarts so far

podVars  == <<stage, age, mine, releasing>>
rowVars  == <<owner, left>>
lifeVars == <<life, crashes>>
fleetVars     == <<podVars, rowVars, lifeVars>>

Stages == {"idle", "asking", "locked", "unlocked"}

(* lockOwner: `<instanceId>#<pid>'.                                        *)
Me(p) == <<p, life[p]>>

(* The clock p read when it called acquire(), relative to true time.       *)
Clock(p) == Skew[p] - age[p]

(* An expiry every clock has passed need not be told from an older one.    *)
Older(t) == IF t > Horizon THEN t - 1 ELSE t

FleetInit ==
  /\ stage = [p \in Pods |-> "idle"]
  /\ age = [p \in Pods |-> 0]
  /\ mine = [p \in Pods |-> 0]
  /\ releasing = {}
  /\ owner = NoOwner
  /\ left = 0
  /\ life = [p \in Pods |-> 0]
  /\ crashes = 0

-----------------------------------------------------------------------------

(* Time passes, for every countdown at once.                               *)
Tick ==
  /\ \A p \in Pods : stage[p] = "asking" => age[p] < MaxLatency
  /\ left' = Older(left)
  /\ mine' = [p \in Pods |-> Older(mine[p])]
  /\ age' = [p \in Pods |-> IF stage[p] = "asking" THEN age[p] + 1 ELSE age[p]]
  /\ UNCHANGED <<stage, releasing, owner, lifeVars>>

(* A scheduled tick or a manual prune finds the pruner idle.               *)
StartCycle(p) ==
  /\ stage[p] = "idle"
  /\ p \notin releasing
  /\ stage' = [stage EXCEPT ![p] = "asking"]
  /\ age' = [age EXCEPT ![p] = 0]
  /\ UNCHANGED <<mine, releasing, rowVars, lifeVars>>

(* tryAcquireLease: the row is free, expired, or p's own.                  *)
FreeForEarly(p) ==                       \* mutant: expired one instant too soon
  owner = NoOwner \/ left <= Clock(p) + 1 \/ owner = Me(p)

FreeForNeverExpired(p) ==                \* mutant: an abandoned lease does not expire
  owner = NoOwner \/ owner = Me(p)

FreeFor(p) == owner = NoOwner \/ left <= Clock(p) \/ owner = Me(p)

TakeRow(p) ==
  /\ FreeFor(p)
  /\ owner' = Me(p)
  /\ left' = Clock(p) + TTL

Granted(p) ==
  /\ stage[p] = "asking"
  /\ TakeRow(p)
  /\ stage' = [stage EXCEPT ![p] = "locked"]
  /\ mine' = [mine EXCEPT ![p] = Clock(p) + TTL]
  /\ UNCHANGED <<age, releasing, lifeVars>>

(* Somebody else's: the cycle is skipped.                                  *)
Held(p) ==
  /\ stage[p] = "asking"
  /\ ~FreeFor(p)
  /\ stage' = [stage EXCEPT ![p] = "idle"]
  /\ UNCHANGED <<age, mine, releasing, rowVars, lifeVars>>

(* acquire() fails, with the statement executed or not: prune unlocked.    *)
Unavailable(p) ==
  /\ stage[p] = "asking"
  /\ TakeRow(p) \/ UNCHANGED rowVars
  /\ stage' = [stage EXCEPT ![p] = "unlocked"]
  /\ UNCHANGED <<age, mine, releasing, lifeVars>>

(* runCycle settles; a granted lease is released in the finally block.     *)
CycleEnds(p) ==
  /\ stage[p] \in {"locked", "unlocked"}
  /\ stage' = [stage EXCEPT ![p] = "idle"]
  /\ releasing' = IF stage[p] = "locked" THEN releasing \cup {p} ELSE releasing
  /\ UNCHANGED <<age, mine, rowVars, lifeVars>>

(* releaseLease: compare and delete.                                       *)
DropRow(p) ==
  /\ owner' = IF owner = Me(p) THEN NoOwner ELSE owner
  /\ left' = left

(* release() settles, or fails without an effect.                          *)
Released(p) ==
  /\ p \in releasing
  /\ DropRow(p) \/ UNCHANGED rowVars
  /\ releasing' = releasing \ {p}
  /\ UNCHANGED <<stage, age, mine, lifeVars>>

(* The process dies with a statement under way or none, and restarts with  *)
(* the process id it had (a container's pid 1) or another.                 *)
Crash(p) ==
  /\ crashes < MaxCrashes
  /\ stage[p] # "idle" \/ p \in releasing
  /\ crashes' = crashes + 1
  /\ \E id \in {life[p], crashes + 1} : life' = [life EXCEPT ![p] = id]
  /\ \/ UNCHANGED rowVars
     \/ stage[p] = "asking" /\ TakeRow(p)
     \/ p \in releasing /\ DropRow(p)
  /\ stage' = [stage EXCEPT ![p] = "idle"]
  /\ releasing' = releasing \ {p}
  /\ UNCHANGED <<age, mine>>

PodStep(p) ==
  \/ StartCycle(p)
  \/ Granted(p)
  \/ Held(p)
  \/ Unavailable(p)
  \/ CycleEnds(p)
  \/ Released(p)

FleetNext == Tick \/ \E p \in Pods : PodStep(p) \/ Crash(p)

FleetSpec == FleetInit /\ [][FleetNext]_fleetVars

(* Time passes, the interval ticks on every pod, and what a cycle awaits   *)
(* settles: no call of the pruner has a timeout of its own.                *)
Fairness == SF_fleetVars(Tick) /\ \A p \in Pods : WF_fleetVars(PodStep(p))

FairSpec == FleetSpec /\ Fairness

-----------------------------------------------------------------------------
(* Properties.                                                             *)

(* The state has its type: in particular a pod has one cycle at a time,     *)
(* release() included (runGuardedCycle's inFlight).                        *)
FleetTypeOK ==
  /\ stage \in [Pods -> Stages]
  /\ age \in [Pods -> 0 .. MaxLatency]
  /\ mine \in [Pods -> Int]
  /\ releasing \subseteq {p \in Pods : stage[p] = "idle"}
  /\ owner \in (Pods \X Nat) \cup {NoOwner}
  /\ left \in Int
  /\ life \in [Pods -> Nat]
  /\ crashes \in Nat

Locked(p) == stage[p] = "locked"

(* A lease no pod's clock sees as expired.                                 *)
Unexpired(p) == \A q \in Pods : mine[p] > Skew[q]

(* Two pods prune under the lease at once only when, by somebody's clock,  *)
(* the lease of one of them has expired (TelescopePruneLock, point 2).     *)
OneLiveHolder ==
  \A p, q \in Pods :
    p # q /\ Locked(p) /\ Locked(q) => ~Unexpired(p) \/ ~Unexpired(q)

(* While its lease is unexpired, a pruning pod keeps the row: neither a    *)
(* late release, its own former one included, nor a crash elsewhere takes  *)
(* it away (TelescopePruneLock, point 5).                                  *)
LiveLeaseKept ==
  \A p \in Pods : Locked(p) /\ Unexpired(p) => owner = Me(p) /\ left >= mine[p]

(* Retention never stops: whoever dies with the lease, some pod prunes     *)
(* again (TelescopePruneLock, point 3; failing open in runLockedCycle).    *)
RetentionContinues == []<>(\E p \in Pods : stage[p] \in {"locked", "unlocked"})
=============================================================================
