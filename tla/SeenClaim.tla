------------------------------ MODULE SeenClaim ------------------------------
(***************************************************************************)
(* markFamilySeen of packages/clickhouse: which of the pods that see an    *)
(* exception family reports it as new.  The check and the update are not   *)
(* one statement: a call reads the family's row, inserts it or updates it, *)
(* and reads back who claimed it.  One family, and calls of any pods; what *)
(* a pod's clock says is free, so clocks may differ by any amount.         *)
(*                                                                         *)
(* KeeperMap in strict mode refuses an insert of an existing key, and an   *)
(* update whose key changed between the server's read and its write.       *)
(***************************************************************************)
EXTENDS Integers

CONSTANTS
  Calls,        \* the calls of markFamilySeen; each draws its own claim token
  Times,        \* what a call's nowMs may be
  Window,       \* windowMs
  MaxAttempts,  \* SEEN_ATTEMPTS
  NoClaim       \* no call

ASSUME SeenAssumption ==
  /\ Times \subseteq Int
  /\ Window \in Nat \ {0}
  /\ MaxAttempts \in Nat \ {0}
  /\ NoClaim \notin Calls

VARIABLES
  row,      \* the family's row: last_seen, claim and the node's version
  pc,       \* call -> where it is
  at,       \* call -> its nowMs
  read,     \* call -> the last_seen it read
  version,  \* call -> the version its update's WHERE was evaluated at
  attempt,  \* call -> how often it has tried
  answer    \* call -> "none", "new", "seen", "gaveUp" or "failed"

vars == <<row, pc, at, read, version, attempt, answer>>

NoRow == [last |-> 0, claim |-> NoClaim, version |-> 0]
Exists == row.claim # NoClaim

Init ==
  /\ row = NoRow
  /\ pc = [c \in Calls |-> "idle"]
  /\ at = [c \in Calls |-> 0]
  /\ read = [c \in Calls |-> 0]
  /\ version = [c \in Calls |-> 0]
  /\ attempt = [c \in Calls |-> 0]
  /\ answer = [c \in Calls |-> "none"]

Goes(c, to) == pc' = [pc EXCEPT ![c] = to]

Answers(c, what) ==
  /\ Goes(c, "done")
  /\ answer' = [answer EXCEPT ![c] = what]

Expired(c) == at[c] - read[c] >= Window

-----------------------------------------------------------------------------

Call(c) ==
  /\ pc[c] = "idle"
  /\ \E t \in Times : at' = [at EXCEPT ![c] = t]
  /\ Goes(c, "reading")
  /\ UNCHANGED <<row, read, version, attempt, answer>>

Read(c) ==
  /\ pc[c] = "reading"
  /\ Goes(c, IF Exists THEN "updating" ELSE "inserting")
  /\ read' = [read EXCEPT ![c] = row.last]
  /\ UNCHANGED <<row, at, version, attempt, answer>>

(* A conflict: again from the read, until the attempts are used up.        *)
Conflicts(c) ==
  /\ attempt' = [attempt EXCEPT ![c] = @ + 1]
  /\ IF attempt[c] + 1 < MaxAttempts
       THEN Goes(c, "reading") /\ UNCHANGED answer
       ELSE Answers(c, "gaveUp")

WriteRow(last, claim) == row' = [last |-> last, claim |-> claim, version |-> row.version + 1]

(* A new family belongs to the one insert that succeeds.                   *)
Insert(c) ==
  /\ pc[c] = "inserting"
  /\ IF Exists
       THEN Conflicts(c) /\ UNCHANGED row
       ELSE WriteRow(at[c], c) /\ Answers(c, "new") /\ UNCHANGED attempt
  /\ UNCHANGED <<at, read, version>>

UpdateUnconditional(c) ==                \* mutant: no AND last_seen = {last}
  /\ pc[c] = "updating"
  /\ Goes(c, "writing")
  /\ version' = [version EXCEPT ![c] = row.version]
  /\ UNCHANGED <<row, at, read, attempt, answer>>

(* The server evaluates the update.  That of an expired family is for the  *)
(* last_seen that was read: when it is another by now nothing matches,     *)
(* nothing is written, and the statement succeeds.                         *)
Update(c) ==
  /\ pc[c] = "updating"
  /\ IF Expired(c) /\ row.last # read[c]
       THEN Goes(c, "readingBack") /\ UNCHANGED version
       ELSE Goes(c, "writing") /\ version' = [version EXCEPT ![c] = row.version]
  /\ UNCHANGED <<row, at, read, attempt, answer>>

(* It writes: the claim of an expired family, or greatest() of a current   *)
(* one.                                                                    *)
Written(c) ==
  IF Expired(c)
  THEN WriteRow(at[c], c)
  ELSE WriteRow(IF at[c] > row.last THEN at[c] ELSE row.last, row.claim)

Write(c) ==
  /\ pc[c] = "writing"
  /\ \/ /\ version[c] # row.version
        /\ Conflicts(c)
        /\ UNCHANGED row
     \/ /\ version[c] = row.version
        /\ Written(c)
        /\ IF Expired(c) THEN Goes(c, "readingBack") /\ UNCHANGED answer ELSE Answers(c, "seen")
        /\ UNCHANGED attempt
  /\ UNCHANGED <<at, read, version>>

ReadBackOld(c) ==                        \* mutant: the winner is whose last_seen is there
  /\ pc[c] = "readingBack"
  /\ Answers(c, IF row.last = at[c] THEN "new" ELSE "seen")
  /\ UNCHANGED <<row, at, read, version, attempt>>

(* The winner is whoever's token is read back.                             *)
ReadBack(c) ==
  /\ pc[c] = "readingBack"
  /\ Answers(c, IF row.claim = c THEN "new" ELSE "seen")
  /\ UNCHANGED <<row, at, read, version, attempt>>

(* A statement fails, or its answer is lost with the write done: the call  *)
(* throws, and the alerter asks its own tracker instead.                   *)
Fail(c) ==
  /\ pc[c] \notin {"idle", "done"}
  /\ \/ UNCHANGED row
     \/ pc[c] = "inserting" /\ ~Exists /\ WriteRow(at[c], c)
     \/ pc[c] = "writing" /\ version[c] = row.version /\ Written(c)
  /\ Answers(c, "failed")
  /\ UNCHANGED <<at, read, version, attempt>>

Step(c) == Read(c) \/ Insert(c) \/ Update(c) \/ Write(c) \/ ReadBack(c)

Next == \E c \in Calls : Call(c) \/ Step(c) \/ Fail(c)

Spec == Init /\ [][Next]_vars

-----------------------------------------------------------------------------
(* Properties.                                                             *)

TypeOK ==
  /\ row \in [last : Int, claim : Calls \cup {NoClaim}, version : Nat]
  /\ ~Exists => row = NoRow
  /\ pc \in [Calls -> {"idle", "reading", "inserting", "updating", "writing", "readingBack", "done"}]
  /\ at \in [Calls -> Int]
  /\ read \in [Calls -> Int]
  /\ version \in [Calls -> Nat]
  /\ attempt \in [Calls -> 0 .. MaxAttempts]
  /\ answer \in [Calls -> {"none", "new", "seen", "gaveUp", "failed"}]

(* A family is reported as new once per window, over all the pods: two     *)
(* calls told so are at least a window apart by their own clocks           *)
(* (storage-provider.ts: "a family pages ONCE across the whole             *)
(* deployment").                                                           *)
OncePerWindow ==
  \A c, d \in Calls :
    c # d /\ answer[c] = "new" /\ answer[d] = "new"
      => at[c] - at[d] >= Window \/ at[d] - at[c] >= Window

(* The claim that stands was reported: once nothing is under way, the call *)
(* whose token the row holds was told the family is new, or failed.  So no *)
(* contention, and no other call's claim, makes a new family silent.       *)
ClaimReported ==
  (\A c \in Calls : pc[c] \in {"idle", "done"}) =>
    \A c \in Calls : row.claim = c => answer[c] \in {"new", "failed"}

(* A call gives up only if that many writes of other calls succeeded while *)
(* it tried: contention is never a standstill.                             *)
GivesUpOverWrites ==
  \A c \in Calls : answer[c] = "gaveUp" => row.version >= MaxAttempts

(* Each write of the row is one atomic sighting of the SPI's window: it    *)
(* claims a family that is new then, or slides the window on.  So          *)
(* last_seen never goes back, whatever the pods' clocks say and in which   *)
(* order their statements arrive.                                          *)
Atomic == INSTANCE SeenWindow WITH last <- row.last, claim <- row.claim

ImplementsWindow == Atomic!Spec

(* clickhouse-storage-provider.ts:423: "the sighting is recorded either    *)
(* way".                                                                   *)
SightingRecorded ==
  \A c \in Calls : answer[c] \in {"new", "seen"} => row.last >= at[c]

=============================================================================
