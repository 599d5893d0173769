--------------------------- MODULE SharedRowProofs ---------------------------
(***************************************************************************)
(* Proofs about the two protocols in which pods contend for one row of the *)
(* shared store: the claim of an exception family (SeenClaim) and the      *)
(* prune lease (PruneFleet).                                               *)
(***************************************************************************)
EXTENDS SeenClaim, PruneFleet, TLAPS

-----------------------------------------------------------------------------
(* The claim protocol of SeenClaim, for any calls, clocks and window.      *)


(* What a call that is under way knows: it works on a family whose row     *)
(* exists unless it inserts; the version its update was evaluated at is    *)
(* not ahead of the row's, and while it is the row's own the last_seen of  *)
(* a claim is still the one that was read; it tried once for each write it *)
(* lost to.                                                                *)
Knows(c) ==
  /\ pc[c] # "done" => answer[c] = "none"
  /\ pc[c] \in {"updating", "writing", "readingBack"} => Exists
  /\ pc[c] = "inserting" => attempt[c] = 0
  /\ pc[c] # "done" => attempt[c] < MaxAttempts
  /\ attempt[c] <= row.version
  /\ version[c] <= row.version
  /\ pc[c] = "writing" => attempt[c] <= version[c]
  /\ pc[c] = "writing" /\ Expired(c) /\ version[c] = row.version => row.last = read[c]
  /\ answer[c] = "gaveUp" => MaxAttempts <= row.version

(* The call that holds the claim was told so, or is about to be.           *)
Claimant(c) ==
  row.claim = c => /\ row.last >= at[c]
                   /\ pc[c] \in {"readingBack", "done"}
                   /\ pc[c] = "done" => answer[c] \in {"new", "failed"}

(* A call that was told so holds the claim or lost it a window later.      *)
Told(c) ==
  answer[c] = "new" =>
    /\ pc[c] = "done"
    /\ Exists
    /\ row.last >= at[c]
    /\ row.claim = c \/ at[row.claim] - at[c] >= Window

IInv ==
  /\ TypeOK
  /\ Exists => row.version > 0
  /\ \A c \in Calls : Knows(c) /\ Claimant(c) /\ Told(c)
  /\ OncePerWindow

(* The invariant holds of a family nobody has seen.                        *)
LEMMA InitInv == Init => IInv
  BY SeenAssumption DEF Init, IInv, TypeOK, Knows, Claimant, Told, OncePerWindow, NoRow, Exists

(* The steps that leave the row alone.                                     *)
LEMMA QuietSteps ==
  ASSUME IInv, NEW c \in Calls,
         Call(c) \/ Read(c) \/ Update(c) \/ ReadBack(c)
  PROVE  IInv'
  <1> USE SeenAssumption
  <1>1. TypeOK'
    BY DEF IInv, TypeOK, Call, Read, Update, ReadBack, Goes, Answers, Exists, NoRow
  <1>2. row' = row /\ attempt' = attempt
    BY DEF Call, Read, Update, ReadBack
  <1>3. \A d \in Calls \ {c} : /\ pc'[d] = pc[d] /\ at'[d] = at[d] /\ read'[d] = read[d]
                               /\ version'[d] = version[d] /\ answer'[d] = answer[d]
    BY DEF IInv, TypeOK, Call, Read, Update, ReadBack, Goes, Answers
  <1>10. Exists' => row'.version > 0
    BY <1>2 DEF IInv, Exists
  <1>4. ASSUME NEW d \in Calls \ {c} PROVE (Knows(d) /\ Claimant(d))'
    BY <1>2, <1>3 DEF IInv, TypeOK, Knows, Claimant, Exists, Expired
  <1>5. (Knows(c) /\ Claimant(c))'
    <2>1. CASE Call(c)
      BY <2>1 DEF IInv, TypeOK, Knows, Claimant, Exists, Expired, Call, Goes
    <2>2. CASE Read(c)
      BY <2>2 DEF IInv, TypeOK, Knows, Claimant, Exists, Expired, Read, Goes, NoRow
    <2>3. CASE Update(c)
      BY <2>3 DEF IInv, TypeOK, Knows, Claimant, Exists, Expired, Update, Goes
    <2>4. CASE ReadBack(c)
      BY <2>4 DEF IInv, TypeOK, Knows, Claimant, Exists, Expired, ReadBack, Goes, Answers
    <2> QED BY <2>1, <2>2, <2>3, <2>4
  <1>6. \A d \in Calls : answer'[d] = "new" => at'[d] = at[d]
    BY <1>3 DEF IInv, TypeOK, Knows, Call, Read, Update, ReadBack, Goes, Answers
  <1>7. \A d \in Calls : row.claim = d => at'[d] = at[d]
    BY <1>3 DEF IInv, TypeOK, Claimant, Call, Read, Update, ReadBack
  <1>8. ASSUME NEW d \in Calls PROVE Told(d)'
    <2>1. CASE d # c
      BY <2>1, <1>2, <1>3, <1>6, <1>7 DEF IInv, TypeOK, Told, Exists
    <2>2. CASE d = c
      BY <2>2, <1>2, <1>6, <1>7
      DEF IInv, TypeOK, Told, Claimant, Knows, Exists, Call, Read, Update, ReadBack, Goes, Answers
    <2> QED BY <2>1, <2>2
  <1>9. OncePerWindow'
    <2> SUFFICES ASSUME NEW d \in Calls, NEW e \in Calls, d # e,
                        answer'[d] = "new", answer'[e] = "new"
                 PROVE  at'[d] - at'[e] >= Window \/ at'[e] - at'[d] >= Window
      BY DEF OncePerWindow
    <2>1. CASE answer[d] = "new" /\ answer[e] = "new"
      BY <2>1, <1>6 DEF IInv, OncePerWindow
    <2>2. CASE answer[d] # "new"
      <3>1. d = c /\ row.claim = c /\ answer[e] = "new"
        BY <2>2, <1>3 DEF IInv, TypeOK, Call, Read, Update, ReadBack, Goes, Answers
      <3> QED BY <3>1, <1>6 DEF IInv, TypeOK, Told
    <2>3. CASE answer[e] # "new"
      <3>1. e = c /\ row.claim = c /\ answer[d] = "new"
        BY <2>3, <1>3 DEF IInv, TypeOK, Call, Read, Update, ReadBack, Goes, Answers
      <3> QED BY <3>1, <1>6 DEF IInv, TypeOK, Told
    <2> QED BY <2>1, <2>2, <2>3
  <1> QED BY <1>1, <1>4, <1>5, <1>8, <1>9, <1>10 DEF IInv

(* A write of c claims the family, which then was new, or slides the       *)
(* window.                                                                 *)
Claims(c) ==
  /\ row' = [last |-> at[c], claim |-> c, version |-> row.version + 1]
  /\ Exists => at[c] - row.last >= Window

Slides ==
  /\ Exists
  /\ row'.last >= row.last
  /\ row'.claim = row.claim
  /\ row'.version = row.version + 1

(* The steps that may write it.                                            *)
WriteStep(c) == Insert(c) \/ Write(c) \/ Fail(c)

(* What a step that may write does to the row.                             *)
LEMMA Writes ==
  ASSUME IInv, NEW c \in Calls, WriteStep(c)
  PROVE  row' = row \/ Claims(c) \/ (Slides /\ answer'[c] \in {"seen", "failed"})
  <1>1. CASE pc[c] = "inserting" /\ ~Exists /\ WriteRow(at[c], c)
    BY <1>1 DEF Claims, WriteRow
  <1>2. CASE pc[c] = "writing" /\ version[c] = row.version /\ Written(c) /\ Expired(c)
    <2>1. Exists /\ row.last = read[c]
      BY <1>2 DEF IInv, Knows
    <2> QED BY <1>2, <2>1 DEF Claims, WriteRow, Written, Expired
  <1>3. CASE /\ pc[c] = "writing" /\ version[c] = row.version /\ Written(c) /\ ~Expired(c)
             /\ answer'[c] \in {"seen", "failed"}
    BY <1>3 DEF IInv, TypeOK, Knows, Slides, WriteRow, Written
  <1>4. row' = row \/ (pc[c] = "inserting" /\ ~Exists /\ WriteRow(at[c], c))
          \/ (/\ pc[c] = "writing" /\ version[c] = row.version /\ Written(c)
              /\ Expired(c) \/ answer'[c] \in {"seen", "failed"})
    BY DEF IInv, TypeOK, WriteStep, Insert, Write, Fail, Answers
  <1> QED BY <1>1, <1>2, <1>3, <1>4

(* Every one of them keeps the invariant.                                  *)
LEMMA WriteSteps ==
  ASSUME IInv, NEW c \in Calls, WriteStep(c)
  PROVE  IInv'
  <1> USE SeenAssumption
  <1>1. row' = row \/ Claims(c) \/ (Slides /\ answer'[c] \in {"seen", "failed"})
    BY Writes
  <1>2. at' = at /\ read' = read /\ version' = version
    BY DEF WriteStep, Insert, Write, Fail
  <1>3. \A d \in Calls \ {c} : pc'[d] = pc[d] /\ answer'[d] = answer[d] /\ attempt'[d] = attempt[d]
    BY DEF IInv, TypeOK, WriteStep, Insert, Write, Fail, Conflicts, Answers, Goes
  <1>4. TypeOK'
    <2>1. row' \in [last : Int, claim : Calls \cup {NoClaim}, version : Nat]
      BY DEF IInv, TypeOK, WriteStep, Insert, Write, Fail, Written, WriteRow
    <2>2. ~Exists' => row' = NoRow
      BY <1>1 DEF IInv, TypeOK, Claims, Slides, Exists
    <2>3. /\ pc' \in [Calls -> {"idle", "reading", "inserting", "updating", "writing",
                                "readingBack", "done"}]
          /\ attempt' \in [Calls -> 0 .. MaxAttempts]
          /\ answer' \in [Calls -> {"none", "new", "seen", "gaveUp", "failed"}]
      <3>1. CASE Insert(c)
        BY <3>1 DEF IInv, TypeOK, Knows, Insert, Conflicts, Answers, Goes
      <3>2. CASE Write(c)
        BY <3>2 DEF IInv, TypeOK, Knows, Write, Conflicts, Answers, Goes
      <3>3. CASE Fail(c)
        BY <3>3 DEF IInv, TypeOK, Fail, Answers, Goes
      <3> QED BY <3>1, <3>2, <3>3 DEF WriteStep
    <2> QED BY <2>1, <2>2, <2>3, <1>2 DEF IInv, TypeOK
  <1>5. /\ row'.version \in Nat /\ row'.version >= row.version
        /\ row' # row => row'.version > row.version
        /\ Exists => Exists'
        /\ Exists' => row'.version > 0
    BY <1>1, <1>4 DEF IInv, TypeOK, Claims, Slides, Exists
  <1>14. /\ Written(c) => row' # row
         /\ WriteRow(at[c], c) => row' # row
    <2>1. Written(c) \/ WriteRow(at[c], c) => row'.version = row.version + 1
      BY DEF Written, WriteRow
    <2> QED BY <2>1 DEF IInv, TypeOK
  <1>6. ASSUME NEW d \in Calls \ {c} PROVE Knows(d)'
    BY <1>2, <1>3, <1>5 DEF IInv, TypeOK, Knows, Expired
  <1>7. Knows(c)'
    <2>1. CASE Insert(c)
      BY <2>1, <1>5 DEF IInv, TypeOK, Knows, Expired, Exists, Insert, Conflicts, Answers, Goes, WriteRow
    <2>2. CASE Write(c) /\ row' = row
      <3>1. version[c] # row.version /\ Conflicts(c)
        BY <2>2, <1>14 DEF Write
      <3>2. /\ pc[c] = "writing" /\ attempt[c] + 1 <= row.version /\ attempt'[c] = attempt[c] + 1
            /\ attempt[c] < MaxAttempts /\ answer[c] = "none"
        BY <2>2, <3>1 DEF IInv, TypeOK, Knows, Write, Conflicts
      <3>3. \/ /\ pc'[c] = "reading" /\ answer'[c] = "none"
               /\ attempt[c] + 1 < MaxAttempts
            \/ /\ pc'[c] = "done" /\ answer'[c] = "gaveUp"
               /\ attempt[c] + 1 >= MaxAttempts
        BY <3>1, <3>2, SeenAssumption DEF IInv, TypeOK, Conflicts, Answers, Goes
      <3> QED BY <2>2, <3>2, <3>3, <1>2, SeenAssumption DEF IInv, TypeOK, Knows
    <2>4. CASE Write(c) /\ row' # row
      BY <2>4, <1>5 DEF IInv, TypeOK, Knows, Expired, Exists, Write, Answers, Goes
    <2>3. CASE Fail(c)
      BY <2>3, <1>5 DEF IInv, TypeOK, Knows, Expired, Fail, Answers, Goes
    <2> QED BY <2>1, <2>2, <2>3, <2>4 DEF WriteStep
  <1>8. row' # row => c # row.claim
    BY DEF IInv, Claimant, WriteStep, Insert, Write, Fail, Conflicts
  <1>9. answer'[c] = "new" => Claims(c) /\ ~Exists /\ pc'[c] = "done"
    BY DEF IInv, TypeOK, Knows, Claims, WriteRow, WriteStep, Insert, Write, Fail, Conflicts, Answers, Goes
  <1>10. row' = row => pc[c] # "readingBack" \/ answer'[c] = "failed"
    BY DEF IInv, TypeOK, WriteStep, Insert, Write, Fail, Answers
  <1>11. ASSUME NEW d \in Calls PROVE Claimant(d)'
    <2>1. CASE d # c
      BY <2>1, <1>1, <1>2, <1>3, <1>4 DEF IInv, TypeOK, Claimant, Claims, Slides, Exists
    <2>2. CASE d = c /\ row' = row
      BY <2>2, <1>2 DEF IInv, TypeOK, Claimant, WriteStep, Insert, Write, Fail, Conflicts, Answers, Goes
    <2>3. CASE d = c /\ row' # row
      <3>1. Claims(c) => pc'[c] = "readingBack" \/ (pc'[c] = "done" /\ answer'[c] \in {"new", "failed"})
        <4>1. CASE Write(c)
          <5>1. Written(c) /\ (Expired(c) \/ row'.claim = row.claim)
            BY <4>1, <2>3 DEF Write, Written, WriteRow
          <5> QED BY <4>1, <5>1, <2>3, <1>8 DEF IInv, TypeOK, Claims, Write, Answers, Goes
        <4>2. CASE Insert(c)
          BY <4>2, <2>3 DEF IInv, TypeOK, Insert, Answers, Goes
        <4>3. CASE Fail(c)
          BY <4>3 DEF IInv, TypeOK, Fail, Answers, Goes
        <4> QED BY <4>1, <4>2, <4>3 DEF WriteStep
      <3> QED BY <2>3, <3>1, <1>1, <1>2, <1>8 DEF IInv, TypeOK, Claimant, Claims, Slides
    <2> QED BY <2>1, <2>2, <2>3
  <1>12. ASSUME NEW d \in Calls PROVE Told(d)'
    <2>1. CASE d # c
      <3>1. CASE row' = row
        BY <2>1, <3>1, <1>2, <1>3 DEF IInv, Told, Exists
      <3>2. CASE Claims(c)
        BY <2>1, <3>2, <1>2, <1>3, <1>5 DEF IInv, TypeOK, Told, Claims
      <3>3. CASE Slides
        BY <2>1, <3>3, <1>2, <1>3, <1>4, <1>5 DEF IInv, TypeOK, Told, Slides
      <3> QED BY <3>1, <3>2, <3>3, <1>1
    <2>2. CASE d = c
      BY <2>2, <1>2, <1>9 DEF IInv, TypeOK, Told, Claims, Exists
    <2> QED BY <2>1, <2>2
  <1>13. OncePerWindow'
    <2>1. answer'[c] = "new" => \A d \in Calls : answer[d] # "new"
      BY <1>9 DEF IInv, Told
    <2> QED BY <2>1, <1>2, <1>3 DEF IInv, OncePerWindow
  <1> QED BY <1>4, <1>5, <1>6, <1>7, <1>11, <1>12, <1>13 DEF IInv

(* A step of something else changes nothing.                               *)
LEMMA StutterInv == IInv /\ UNCHANGED vars => IInv'
  BY DEF IInv, vars, TypeOK, Knows, Claimant, Told, OncePerWindow, Exists, Expired, NoRow

(* The invariant is inductive.                                             *)
LEMMA NextInv == IInv /\ [Next]_vars => IInv'
  <1> SUFFICES ASSUME IInv, [Next]_vars PROVE IInv'
    OBVIOUS
  <1>1. CASE UNCHANGED vars
    BY <1>1, StutterInv
  <1>2. ASSUME NEW c \in Calls, Call(c) \/ Step(c) \/ Fail(c)
        PROVE  IInv'
    BY <1>2, QuietSteps, WriteSteps DEF Step, WriteStep
  <1> QED BY <1>1, <1>2 DEF Next

(* The types, and the inductive invariant as a whole.                      *)
THEOREM TypeCorrect == Spec => [](TypeOK /\ IInv)
  <1>1. Spec => []IInv
    BY InitInv, NextInv, PTL DEF Spec
  <1>2. IInv => TypeOK /\ IInv
    BY DEF IInv
  <1> QED BY <1>1, <1>2, PTL

(* Two pods are never both told that a family is new within one window:    *)
(* the read, the write and the read back of markSeen amount to one atomic  *)
(* check.                                                                  *)
THEOREM NewOncePerWindow == Spec => []OncePerWindow
  <1>1. IInv => OncePerWindow
    BY DEF IInv
  <1> QED BY <1>1, TypeCorrect, PTL

(* When nothing is under way the holder of the claim was told, or failed.  *)
THEOREM ClaimIsReported == Spec => []ClaimReported
  <1>1. IInv => ClaimReported
    BY DEF IInv, TypeOK, Claimant, ClaimReported
  <1> QED BY <1>1, TypeCorrect, PTL

(* A call gives up only over as many writes of the row.                    *)
THEOREM GivingUpIsContention == Spec => []GivesUpOverWrites
  <1>1. IInv => GivesUpOverWrites
    BY SeenAssumption DEF IInv, TypeOK, Knows, GivesUpOverWrites
  <1> QED BY <1>1, TypeCorrect, PTL

(* A call's nowMs is one of the times a call may have.                     *)
TimesInv == \A c \in Calls : pc[c] # "idle" => at[c] \in Times

(* And stays one: a call draws it once.                                    *)
LEMMA TimesHold == Spec => []TimesInv
  <1>1. Init => TimesInv
    BY DEF Init, TimesInv
  <1>2. ASSUME IInv, TimesInv, [Next]_vars PROVE TimesInv'
    <2>1. CASE UNCHANGED vars
      BY <1>2, <2>1 DEF vars, TimesInv
    <2>2. ASSUME NEW c \in Calls, Call(c)
          PROVE  TimesInv'
      BY <1>2, <2>2 DEF IInv, TypeOK, TimesInv, Call, Goes
    <2>3. ASSUME NEW c \in Calls, Step(c) \/ Fail(c)
          PROVE  TimesInv'
      <3>1. at' = at /\ \A d \in Calls : pc'[d] # "idle" => pc[d] # "idle"
        BY <1>2, <2>3 DEF IInv, TypeOK, Step, Fail, Read, Insert, Update, Write, ReadBack, Conflicts,
                          Answers, Goes
      <3> QED BY <1>2, <3>1 DEF TimesInv
    <2> QED BY <1>2, <2>1, <2>2, <2>3 DEF Next
  <1> QED BY <1>1, <1>2, TypeCorrect, PTL DEF Spec

(* Every step of the protocol is a stutter or one atomic sighting of the   *)
(* SPI's sliding window.                                                   *)
THEOREM Implementation == Spec => ImplementsWindow
  <1>1. Init => Atomic!Init
    BY DEF Init, NoRow, Atomic!Init
  <1>2. ASSUME IInv, TimesInv, TimesInv', [Next]_vars
        PROVE  [Atomic!Next]_<<row.last, row.claim>>
    <2>1. CASE row' = row
      BY <2>1
    <2>2. ASSUME NEW c \in Calls, Call(c) \/ Step(c) \/ Fail(c), row' # row
          PROVE  [Atomic!Next]_<<row.last, row.claim>>
      <3>1. WriteStep(c) /\ pc[c] # "idle" /\ at[c] \in Times
        BY <1>2, <2>2 DEF Call, Step, Fail, Read, Update, ReadBack, WriteStep, TimesInv, Insert, Write
      <3>2. CASE Claims(c)
        <4>1. Atomic!New(c, at[c])
          BY <3>2 DEF Claims, Atomic!New, Exists
        <4> QED BY <4>1, <3>1 DEF Atomic!Next
      <3>3. CASE Slides /\ row'.last = row.last
        BY <3>3 DEF Slides
      <3>4. CASE Slides /\ row'.last # row.last
        <4>1. row'.last = at[c] /\ at[c] > row.last
          BY <1>2, <3>1, <3>4 DEF IInv, TypeOK, Knows, Slides, WriteStep, Insert, Write, Fail, Written,
                                  WriteRow, Conflicts
        <4>2. Atomic!Seen(at[c])
          BY <3>4, <4>1 DEF Slides, Atomic!Seen, Exists
        <4> QED BY <3>1, <4>2 DEF Atomic!Next
      <3> QED BY <1>2, <2>2, <3>1, <3>2, <3>3, <3>4, Writes
    <2> QED BY <1>2, <2>1, <2>2 DEF Next, vars
  <1> QED BY <1>1, <1>2, TypeCorrect, TimesHold, PTL DEF Spec, ImplementsWindow, Atomic!Spec


-----------------------------------------------------------------------------
(* PruneFleet, for every fleet, skew, latency and TTL: the state has its   *)
(* type; a pod that prunes under an unexpired lease still owns the row;    *)
(* hence two pods prune under the lease at once only after an expiry.      *)
(*                                                                         *)
(* The argument: as long as the lease of q is ahead of every clock, the    *)
(* row is q's and outlives it, so no other pod's clock makes the row free  *)
(* and no other pod's release matches it; q's own former release is over   *)
(* before q asks again.                                                    *)

LEMMA MeType ==
  ASSUME NEW p \in Pods, life \in [Pods -> Nat]
  PROVE  Me(p) \in Pods \X Nat
BY DEF Me

LEMMA OlderType ==
  ASSUME NEW t \in Int
  PROVE  Older(t) \in Int
BY FleetAssumption DEF Older

LEMMA TakeRowType ==
  ASSUME FleetTypeOK, NEW p \in Pods, TakeRow(p)
  PROVE  owner' \in Pods \X Nat /\ left' \in Int
BY FleetAssumption, MeType DEF TakeRow, FleetTypeOK, Clock

(* The state has its type, one cycle per pod included.                     *)
THEOREM LeaseTypeInvariant == FleetSpec => []FleetTypeOK
<1>1. FleetInit => FleetTypeOK
  BY FleetAssumption DEF FleetInit, FleetTypeOK, Stages
<1>2. FleetTypeOK /\ [FleetNext]_fleetVars => FleetTypeOK'
  <2> SUFFICES ASSUME FleetTypeOK, [FleetNext]_fleetVars PROVE FleetTypeOK'
    OBVIOUS
  <2> USE FleetAssumption
  <2>1. CASE Tick
    <3>1. /\ left' \in Int
          /\ mine' \in [Pods -> Int]
      BY <2>1, OlderType DEF Tick, FleetTypeOK
    <3>2. age' \in [Pods -> 0 .. MaxLatency]
      BY <2>1 DEF Tick, FleetTypeOK
    <3> QED
      BY <2>1, <3>1, <3>2 DEF Tick, FleetTypeOK, lifeVars
  <2>2. ASSUME NEW p \in Pods, StartCycle(p) PROVE FleetTypeOK'
    BY <2>2 DEF StartCycle, FleetTypeOK, Stages, rowVars, lifeVars
  <2>3. ASSUME NEW p \in Pods, Granted(p) PROVE FleetTypeOK'
    <3>1. Clock(p) + TTL \in Int
      BY DEF Clock, FleetTypeOK
    <3> QED
      BY <2>3, <3>1, TakeRowType DEF Granted, FleetTypeOK, Stages, lifeVars
  <2>4. ASSUME NEW p \in Pods, Held(p) PROVE FleetTypeOK'
    BY <2>4 DEF Held, FleetTypeOK, Stages, rowVars, lifeVars
  <2>5. ASSUME NEW p \in Pods, Unavailable(p) PROVE FleetTypeOK'
    BY <2>5, TakeRowType DEF Unavailable, FleetTypeOK, Stages, rowVars, lifeVars
  <2>6. ASSUME NEW p \in Pods, CycleEnds(p) PROVE FleetTypeOK'
    BY <2>6 DEF CycleEnds, FleetTypeOK, Stages, rowVars, lifeVars
  <2>7. ASSUME NEW p \in Pods, Released(p) PROVE FleetTypeOK'
    BY <2>7 DEF Released, DropRow, FleetTypeOK, rowVars, lifeVars
  <2>8. ASSUME NEW p \in Pods, Crash(p) PROVE FleetTypeOK'
    <3>1. life' \in [Pods -> Nat] /\ crashes' \in Nat
      BY <2>8 DEF Crash, FleetTypeOK
    <3>2. owner' \in (Pods \X Nat) \cup {NoOwner} /\ left' \in Int
      BY <2>8, TakeRowType DEF Crash, DropRow, FleetTypeOK, rowVars
    <3> QED
      BY <2>8, <3>1, <3>2 DEF Crash, FleetTypeOK, Stages
  <2>9. CASE UNCHANGED fleetVars
    BY <2>9 DEF fleetVars, podVars, rowVars, lifeVars, FleetTypeOK
  <2> QED
    BY <2>1, <2>2, <2>3, <2>4, <2>5, <2>6, <2>7, <2>8, <2>9 DEF FleetNext, PodStep
<1> QED
  BY <1>1, <1>2, PTL DEF FleetSpec

-----------------------------------------------------------------------------

(* What an unexpired lease of q keeps another pod from doing to the row.   *)
LEMMA RowIsTaken ==
  ASSUME FleetTypeOK, LiveLeaseKept,
         NEW q \in Pods, Locked(q), Unexpired(q),
         NEW p \in Pods, p # q
  PROVE  /\ ~TakeRow(p)
         /\ DropRow(p) => UNCHANGED rowVars
<1>1. owner = Me(q) /\ left >= mine[q]
  BY DEF LiveLeaseKept
<1>2. owner # NoOwner /\ owner # Me(p)
  BY <1>1, MeType, FleetAssumption DEF Me, FleetTypeOK
<1>3. left > Clock(p)
  BY <1>1, FleetAssumption DEF Unexpired, Clock, FleetTypeOK
<1>4. ~FreeFor(p)
  BY <1>2, <1>3, FleetAssumption DEF FreeFor, Clock, FleetTypeOK
<1> QED
  BY <1>2, <1>4 DEF TakeRow, DropRow, rowVars

(* A pod whose cycle and lease a step leaves alone keeps the row if the    *)
(* step does.                                                              *)
LEMMA Kept ==
  ASSUME LiveLeaseKept, NEW q \in Pods, Locked(q)', Unexpired(q)',
         stage'[q] = stage[q], mine' = mine, life'[q] = life[q],
         UNCHANGED rowVars
  PROVE  owner' = Me(q)' /\ left' >= mine'[q]
BY DEF LiveLeaseKept, Locked, Unexpired, Me, rowVars

(* Time takes as much from the row as from the lease.                      *)
LEMMA OlderMonotone ==
  ASSUME NEW s \in Int, NEW t \in Int, s <= t
  PROVE  Older(s) <= Older(t) /\ Older(s) <= s
BY FleetAssumption DEF Older

(* While its lease is unexpired, a pruning pod keeps the row.              *)
THEOREM LeaseKept == FleetSpec => []LiveLeaseKept
<1>1. FleetInit => LiveLeaseKept
  BY DEF FleetInit, LiveLeaseKept, Locked
<1>2. FleetTypeOK /\ FleetTypeOK' /\ LiveLeaseKept /\ [FleetNext]_fleetVars => LiveLeaseKept'
  <2> SUFFICES ASSUME FleetTypeOK, FleetTypeOK', LiveLeaseKept, [FleetNext]_fleetVars,
                      NEW q \in Pods, Locked(q)', Unexpired(q)'
               PROVE  owner' = Me(q)' /\ left' >= mine'[q]
    BY DEF LiveLeaseKept
  <2>1. CASE Tick
    <3>1. /\ Locked(q) /\ Me(q)' = Me(q) /\ owner' = owner
          /\ left' = Older(left) /\ mine' = [p \in Pods |-> Older(mine[p])]
      BY <2>1 DEF Tick, Locked, Me, lifeVars
    <3>2. mine'[q] <= mine[q]
      BY <3>1, OlderMonotone DEF FleetTypeOK
    <3>3. Unexpired(q)
      BY <3>2, FleetAssumption DEF Unexpired, FleetTypeOK
    <3>4. owner = Me(q) /\ mine[q] <= left
      BY <3>1, <3>3 DEF LiveLeaseKept, FleetTypeOK
    <3> QED
      BY <3>1, <3>4, OlderMonotone DEF FleetTypeOK
  <2>2. ASSUME NEW p \in Pods, StartCycle(p)
        PROVE  owner' = Me(q)' /\ left' >= mine'[q]
    <3>1. q # p
      BY <2>2 DEF StartCycle, Locked, FleetTypeOK
    <3> QED
      BY <2>2, <3>1, Kept DEF StartCycle, FleetTypeOK, lifeVars
  <2>3. ASSUME NEW p \in Pods, Granted(p)
        PROVE  owner' = Me(q)' /\ left' >= mine'[q]
    <3>1. CASE q = p
      BY <2>3, <3>1, FleetAssumption
         DEF Granted, TakeRow, Me, Clock, FleetTypeOK, lifeVars
    <3>2. CASE q # p
      <4>1. Locked(q) /\ Unexpired(q)
        BY <2>3, <3>2 DEF Granted, Locked, Unexpired, FleetTypeOK
      <4> QED
        BY <2>3, <3>2, <4>1, RowIsTaken DEF Granted
    <3> QED
      BY <3>1, <3>2
  <2>4. ASSUME NEW p \in Pods, Held(p)
        PROVE  owner' = Me(q)' /\ left' >= mine'[q]
    <3>1. q # p
      BY <2>4 DEF Held, Locked, FleetTypeOK
    <3> QED
      BY <2>4, <3>1, Kept DEF Held, FleetTypeOK, lifeVars
  <2>5. ASSUME NEW p \in Pods, Unavailable(p)
        PROVE  owner' = Me(q)' /\ left' >= mine'[q]
    <3>1. q # p
      BY <2>5 DEF Unavailable, Locked, FleetTypeOK
    <3>2. Locked(q) /\ Unexpired(q)
      BY <2>5, <3>1 DEF Unavailable, Locked, Unexpired, FleetTypeOK
    <3>3. UNCHANGED rowVars
      BY <2>5, <3>1, <3>2, RowIsTaken DEF Unavailable
    <3> QED
      BY <2>5, <3>1, <3>3, Kept DEF Unavailable, FleetTypeOK, lifeVars
  <2>6. ASSUME NEW p \in Pods, CycleEnds(p)
        PROVE  owner' = Me(q)' /\ left' >= mine'[q]
    <3>1. q # p
      BY <2>6 DEF CycleEnds, Locked, FleetTypeOK
    <3> QED
      BY <2>6, <3>1, Kept DEF CycleEnds, FleetTypeOK, lifeVars
  <2>7. ASSUME NEW p \in Pods, Released(p)
        PROVE  owner' = Me(q)' /\ left' >= mine'[q]
    <3>1. Locked(q) /\ Unexpired(q) /\ q # p
      BY <2>7 DEF Released, Locked, Unexpired, FleetTypeOK
    <3>2. UNCHANGED rowVars
      BY <2>7, <3>1, RowIsTaken DEF Released
    <3> QED
      BY <2>7, <3>2, Kept DEF Released, lifeVars
  <2>8. ASSUME NEW p \in Pods, Crash(p)
        PROVE  owner' = Me(q)' /\ left' >= mine'[q]
    <3>1. q # p
      BY <2>8 DEF Crash, Locked, FleetTypeOK
    <3>2. Locked(q) /\ Unexpired(q)
      BY <2>8, <3>1 DEF Crash, Locked, Unexpired, FleetTypeOK
    <3>3. UNCHANGED rowVars
      BY <2>8, <3>1, <3>2, RowIsTaken DEF Crash
    <3>4. stage'[q] = stage[q] /\ life'[q] = life[q] /\ mine' = mine
      BY <2>8, <3>1 DEF Crash, FleetTypeOK
    <3> QED
      BY <3>3, <3>4, Kept
  <2>9. CASE UNCHANGED fleetVars
    BY <2>9, Kept DEF fleetVars, podVars, lifeVars
  <2> QED
    BY <2>1, <2>2, <2>3, <2>4, <2>5, <2>6, <2>7, <2>8, <2>9 DEF FleetNext, PodStep
<1> QED
  BY <1>1, <1>2, LeaseTypeInvariant, PTL DEF FleetSpec

(* Two pods prune under the lease at once only after an expiry.            *)
THEOREM OneHolder == FleetSpec => []OneLiveHolder
<1>1. FleetTypeOK /\ LiveLeaseKept => OneLiveHolder
  BY DEF FleetTypeOK, LiveLeaseKept, OneLiveHolder, Me
<1> QED
  BY <1>1, LeaseTypeInvariant, LeaseKept, PTL
=============================================================================
