--------------------------- MODULE ProfilerProofs ---------------------------
(***************************************************************************)
(* The cap on captures, the budget armed by hand, and that a request       *)
(* answered before its profiler started keeps its profile: for any         *)
(* requests, routes, cap and arms.                                         *)
(***************************************************************************)
EXTENDS Profiler, SequenceTheorems, FiniteSetTheorems, TLAPS

Open == {r \in Requests : handle[r] = "open"}

Typed ==
  /\ active \in Nat
  /\ response \in [Requests -> {"none", "open", "finished", "closed"}]
  /\ handle \in [Requests -> {"none", "open", "ended"}]
  /\ profiler \in [Requests -> {"off", "starting", "running", "failed", "stopped"}]
  /\ result \in [Requests -> {"none", "nothing", "recorded", "short", "failed"}]

(* A capture from its begin to its end: a profiler belongs to an open      *)
(* handle as long as it runs, and a handle that ended has a result.        *)
Stages(r) ==
  /\ response[r] = "none" => handle[r] = "none"
  /\ handle[r] = "none" => profiler[r] = "off"
  /\ handle[r] = "open" => profiler[r] \in {"starting", "running", "failed"}
  /\ handle[r] = "ended" => profiler[r] \in {"stopped", "failed"}
  /\ result[r] # "none" => handle[r] = "ended"
  /\ result[r] = "nothing" => profiler[r] = "failed"

IInv ==
  /\ Typed
  /\ \A r \in Requests : Stages(r)
  /\ active = Cardinality(Open)
  /\ active <= MaxConcurrent

LEMMA OpenFinite == IsFiniteSet(Open) /\ Cardinality(Open) \in Nat
<1>1. IsFiniteSet(Open)
  BY ProfilerAssumption, FS_Subset DEF Open
<1> QED
  BY <1>1, FS_CardinalityType

LEMMA InitInv == Init => IInv
<1> SUFFICES ASSUME Init PROVE IInv
  OBVIOUS
<1>1. Open = {}
  BY DEF Init, Open
<1>2. Cardinality(Open) = 0
  BY <1>1, FS_EmptySet
<1> QED
  BY <1>2, ProfilerAssumption DEF Init, IInv, Typed, Stages

LEMMA BeginStep ==
  ASSUME IInv, NEW r \in Requests, Begin(r) PROVE IInv'
<1>1. /\ handle[r] = "none" /\ active' = active + 1 /\ active < MaxConcurrent
      /\ handle' = [handle EXCEPT ![r] = "open"]
  BY DEF Begin, HasSlot, IInv, Stages
<1>2. Open' = Open \cup {r} /\ r \notin Open
  BY <1>1 DEF Open, IInv, Typed
<1>3. Cardinality(Open') = Cardinality(Open) + 1
  BY <1>2, OpenFinite, FS_AddElement
<1>4. Typed' /\ \A q \in Requests : Stages(q)'
  BY <1>1 DEF IInv, Typed, Stages, Begin
<1> QED
  BY <1>1, <1>3, <1>4, ProfilerAssumption DEF IInv, Typed

LEMMA EndStep ==
  ASSUME IInv, NEW r \in Requests,
         EndsWithNothing(r) \/ \E how \in {"recorded", "short", "failed"} : EndsWithProfile(r, how)
  PROVE  IInv'
<1>1. /\ handle[r] = "open" /\ profiler[r] # "starting"
      /\ handle' = [handle EXCEPT ![r] = "ended"]
      /\ active' = Max({0, active - 1})
  BY DEF EndsWithNothing, EndsWithProfile, Ending, Release
<1>2. Open' = Open \ {r} /\ r \in Open
  BY <1>1 DEF Open, IInv, Typed
<1>3. Cardinality(Open') = Cardinality(Open) - 1 /\ Cardinality(Open) > 0
  <2>1. Cardinality(Open') = Cardinality(Open) - 1
    BY <1>2, OpenFinite, FS_RemoveElement
  <2>2. Cardinality(Open) # 0
    BY <1>2, OpenFinite, FS_EmptySet
  <2> QED
    BY <2>1, <2>2, OpenFinite
<1>4. active' = active - 1
  <2>1. active - 1 \in Nat
    BY <1>3, OpenFinite DEF IInv
  <2>2. \E x \in {0, active - 1} : \A y \in {0, active - 1} : x >= y
    BY <2>1
  <2>3. /\ Max({0, active - 1}) \in {0, active - 1}
        /\ \A y \in {0, active - 1} : Max({0, active - 1}) >= y
    BY <2>2 DEF Max
  <2> QED
    BY <1>1, <2>1, <2>3
<1>5. Typed' /\ \A q \in Requests : Stages(q)'
  <2>1. active' \in Nat
    BY <1>3, <1>4, OpenFinite DEF IInv
  <2>2. CASE EndsWithNothing(r)
    BY <1>1, <2>1, <2>2 DEF IInv, Typed, Stages, EndsWithNothing
  <2>3. ASSUME NEW how \in {"recorded", "short", "failed"}, EndsWithProfile(r, how)
        PROVE  Typed' /\ \A q \in Requests : Stages(q)'
    BY <1>1, <2>1, <2>3 DEF IInv, Typed, Stages, EndsWithProfile
  <2> QED
    BY <2>2, <2>3
<1> QED
  BY <1>3, <1>4, <1>5, ProfilerAssumption DEF IInv, Typed

LEMMA Step == IInv /\ [Next]_vars => IInv'
<1> SUFFICES ASSUME IInv, [Next]_vars PROVE IInv'
  OBVIOUS
<1>1. CASE \E t \in Targets, n \in 1..MaxArmed : Arm(t, n)
  BY <1>1 DEF Arm, IInv, Typed, Stages, Open
<1>2. ASSUME NEW r \in Requests, ServeUntouched(r) PROVE IInv'
  BY <1>2 DEF ServeUntouched, IInv, Typed, Stages, Open
<1>3. ASSUME NEW r \in Requests, Begin(r) PROVE IInv'
  BY <1>3, BeginStep
<1>4. ASSUME NEW r \in Requests, NEW how \in {"running", "failed"}, StartSettles(r, how)
      PROVE  IInv'
  BY <1>4 DEF StartSettles, IInv, Typed, Stages, Open
<1>5. ASSUME NEW r \in Requests, NEW how \in {"finished", "closed"}, Ends(r, how)
      PROVE  IInv'
  BY <1>5 DEF Ends, IInv, Typed, Stages, Open
<1>6. ASSUME NEW r \in Requests,
             \/ EndsWithNothing(r)
             \/ \E how \in {"recorded", "short", "failed"} : EndsWithProfile(r, how)
      PROVE  IInv'
  BY <1>6, EndStep
<1>7. CASE UNCHANGED vars
  BY <1>7 DEF vars, IInv, Typed, Stages, Open
<1> QED
  BY <1>1, <1>2, <1>3, <1>4, <1>5, <1>6, <1>7 DEF Next

(* At most maxConcurrent profilers run, those of requests already answered *)
(* and of aborted ones included, and active counts the open handles, for   *)
(* any cap and any overlap of starts, responses and ends.                  *)
THEOREM CapIsKept == Spec => []CapKept
<1>1. IInv => CapKept
  <2> SUFFICES ASSUME IInv PROVE CapKept
    OBVIOUS
  <2> DEFINE running == {r \in Requests : profiler[r] \in {"starting", "running"}}
  <2>1. running \subseteq Open
    BY DEF IInv, Typed, Stages, Open
  <2>2. Cardinality(running) <= Cardinality(Open) /\ Cardinality(running) \in Nat
    BY <2>1, OpenFinite, FS_Subset, FS_CardinalityType
  <2> QED
    BY <2>2, ProfilerAssumption DEF IInv, Typed, CapKept, Open
<1> QED
  BY <1>1, InitInv, Step, PTL DEF Spec

(* end() finds nothing to record only when the start failed: awaiting      *)
(* handle.started keeps the profile of a request answered before it.       *)
THEOREM FastRequestIsKept == Spec => []FastRequestKept
<1>1. IInv => FastRequestKept
  BY DEF IInv, Stages, FastRequestKept
<1> QED
  BY <1>1, InitInv, Step, PTL DEF Spec

-----------------------------------------------------------------------------
(* The budget armed by hand.                                               *)

ArmRecord == [count : 1..MaxArmed, target : Targets]

(* The captures a list of arms gives of target t.                          *)
UnitsOf(arms, t) ==
  {u \in (1 .. Len(arms)) \X (1..MaxArmed) : arms[u[1]].target = t /\ u[2] <= arms[u[1]].count}

LEMMA ArmFacts ==
  ASSUME NEW arms \in Seq(ArmRecord)
  PROVE  /\ Len(arms) \in Nat /\ DOMAIN arms = 1 .. Len(arms)
         /\ \A i \in 1 .. Len(arms) : /\ arms[i].count \in 1..MaxArmed
                                      /\ arms[i].target \in Targets
<1>1. Len(arms) \in Nat /\ \A i \in 1 .. Len(arms) : arms[i] \in ArmRecord
  BY LenProperties, ElementOfSeq
<1> QED
  BY <1>1, LenProperties DEF ArmRecord

LEMMA Pairs ==
  ASSUME NEW S, NEW T
  PROVE  /\ \A a, b : <<a, b>> \in S \X T <=> a \in S /\ b \in T
         /\ \A x \in S \X T : x = <<x[1], x[2]>> /\ x[1] \in S /\ x[2] \in T
OBVIOUS

ArePairs(S) == \A x \in S : \E i, k : x = <<i, k>>

LEMMA SamePairs ==
  ASSUME NEW S, NEW T, ArePairs(S), ArePairs(T),
         \A i, k : <<i, k>> \in S <=> <<i, k>> \in T
  PROVE  S = T
BY DEF ArePairs

IsUnit(arms, t, i, k) ==
  /\ i \in 1 .. Len(arms) /\ k \in 1..MaxArmed
  /\ arms[i].target = t /\ k <= arms[i].count

LEMMA UnitsMembers ==
  ASSUME NEW arms, NEW t
  PROVE  /\ ArePairs(UnitsOf(arms, t))
         /\ \A i, k : <<i, k>> \in UnitsOf(arms, t) <=> IsUnit(arms, t, i, k)
<1> DEFINE D == 1 .. Len(arms)
           K == 1..MaxArmed
<1>2. UnitsOf(arms, t)
        = {u \in D \X K : arms[u[1]].target = t /\ u[2] <= arms[u[1]].count}
  BY DEF UnitsOf
<1> HIDE DEF D, K
<1>3. ASSUME NEW x \in UnitsOf(arms, t)
      PROVE  \E i \in D, k \in K : x = <<i, k>>
  <2>1. x \in D \X K
    BY <1>2
  <2> QED
    BY <2>1, Pairs
<1>4. ASSUME NEW i, NEW k
      PROVE  <<i, k>> \in UnitsOf(arms, t)
               <=> i \in D /\ k \in K /\ arms[i].target = t /\ k <= arms[i].count
  <2> DEFINE x == <<i, k>>
  <2>1. x[1] = i /\ x[2] = k
    OBVIOUS
  <2>2. x \in D \X K <=> i \in D /\ k \in K
    BY Pairs
  <2> HIDE DEF x
  <2>3. x \in UnitsOf(arms, t)
          <=> x \in D \X K /\ arms[x[1]].target = t /\ x[2] <= arms[x[1]].count
    BY <1>2
  <2>4. x \in UnitsOf(arms, t)
          <=> i \in D /\ k \in K /\ arms[i].target = t /\ k <= arms[i].count
    BY <2>1, <2>2, <2>3
  <2> QED
    BY <2>4 DEF x
<1> QED
  BY <1>3, <1>4 DEF D, K, ArePairs, IsUnit

LEMMA UnitsFinite ==
  ASSUME NEW arms \in Seq(ArmRecord), NEW t
  PROVE  IsFiniteSet(UnitsOf(arms, t)) /\ Cardinality(UnitsOf(arms, t)) \in Nat
<1>1. IsFiniteSet(1 .. Len(arms)) /\ IsFiniteSet(1..MaxArmed)
  BY ArmFacts, FS_Interval, ProfilerAssumption
<1>2. IsFiniteSet((1 .. Len(arms)) \X (1..MaxArmed))
  <2> DEFINE D == 1 .. Len(arms)
             K == 1..MaxArmed
  <2>1. IsFiniteSet(D) /\ IsFiniteSet(K)
    BY <1>1
  <2> HIDE DEF D, K
  <2>2. IsFiniteSet(D \X K)
    BY <2>1, FS_Product
  <2> QED
    BY <2>2 DEF D, K
<1>3. UnitsOf(arms, t) \in SUBSET ((1 .. Len(arms)) \X (1..MaxArmed))
  BY DEF UnitsOf
<1>4. IsFiniteSet(UnitsOf(arms, t))
  BY <1>2, <1>3, FS_Subset
<1> QED
  BY <1>4, FS_CardinalityType

(* An arm adds its captures to its own target's.                           *)
LEMMA AppendUnits ==
  ASSUME NEW arms \in Seq(ArmRecord), NEW arm \in ArmRecord, NEW u,
         NEW more, more = Append(arms, arm)
  PROVE  /\ more \in Seq(ArmRecord)
         /\ u = arm.target
              => Cardinality(UnitsOf(more, u)) = Cardinality(UnitsOf(arms, u)) + arm.count
         /\ u # arm.target => Cardinality(UnitsOf(more, u)) = Cardinality(UnitsOf(arms, u))
<1>a. PICK n \in 1..MaxArmed, t \in Targets : arm = [count |-> n, target |-> t]
  BY DEF ArmRecord
<1>b. arm.count = n /\ arm.target = t
  BY <1>a
<1> DEFINE last == Len(arms) + 1
           new == {last} \X (1..n)
<1>0. MaxArmed \in Nat
  BY ProfilerAssumption
<1>2. /\ more \in Seq(ArmRecord) /\ Len(more) = last
      /\ \A i \in 1 .. Len(arms) : more[i] = arms[i]
      /\ more[last] = [count |-> n, target |-> t]
  BY <1>a, AppendProperties, ArmFacts
<1>3. DOMAIN more = 1 .. last /\ DOMAIN arms = 1 .. Len(arms) /\ Len(arms) \in Nat
  BY <1>2, ArmFacts
<1>m. /\ ArePairs(UnitsOf(more, u)) /\ ArePairs(UnitsOf(arms, u))
      /\ \A i, k : <<i, k>> \in UnitsOf(more, u) <=> IsUnit(more, u, i, k)
      /\ \A i, k : <<i, k>> \in UnitsOf(arms, u) <=> IsUnit(arms, u, i, k)
  BY UnitsMembers
<1>4. CASE u # t
  <2>1. ASSUME NEW i, NEW k
        PROVE  IsUnit(more, u, i, k) <=> IsUnit(arms, u, i, k)
    BY <1>2, <1>3, <1>4 DEF IsUnit
  <2>2. UnitsOf(more, u) = UnitsOf(arms, u)
    BY <1>m, <2>1, SamePairs
  <2> QED
    BY <1>2, <1>4, <2>2, UnitsFinite
<1>5. CASE u = t
  <2>1. UnitsOf(more, u) = UnitsOf(arms, u) \cup new
    <3>1. ASSUME NEW i, NEW k
          PROVE  IsUnit(more, u, i, k) <=> IsUnit(arms, u, i, k) \/ <<i, k>> \in new
      <4>1. <<i, k>> \in new <=> i = last /\ k \in 1..n
        OBVIOUS
      <4> QED
        BY <1>0, <1>2, <1>3, <1>5, <4>1 DEF IsUnit
    <3>2. ArePairs(new)
      BY DEF ArePairs
    <3> HIDE DEF new
    <3>3. ArePairs(UnitsOf(arms, u) \cup new)
      BY <1>m, <3>2 DEF ArePairs
    <3> QED
      BY <1>m, <3>1, <3>3, SamePairs
  <2>2. UnitsOf(arms, u) \cap new = {}
    <3>1. ASSUME NEW i, NEW k, IsUnit(arms, u, i, k) PROVE <<i, k>> \notin new
      BY <1>3, <3>1 DEF IsUnit
    <3> HIDE DEF new
    <3> QED
      BY <1>m, <3>1 DEF ArePairs
  <2>3. IsFiniteSet(new) /\ Cardinality(new) = n
    <3>1. IsFiniteSet({last}) /\ Cardinality({last}) = 1
      BY FS_Singleton
    <3>2. IsFiniteSet(1..n) /\ Cardinality(1..n) = n
      BY FS_Interval, <1>0
    <3>3. IsFiniteSet(new) /\ Cardinality(new) = 1 * n
      BY <3>1, <3>2, FS_Product
    <3> QED
      BY <3>3
  <2> HIDE DEF new, last
  <2>4. Cardinality(UnitsOf(more, u))
          = Cardinality(UnitsOf(arms, u)) + Cardinality(new) - Cardinality({})
    BY <2>1, <2>2, <2>3, UnitsFinite, FS_Union
  <2> QED
    BY <1>2, <1>5, <2>3, <2>4, UnitsFinite, FS_EmptySet
<1> QED
  BY <1>b, <1>4, <1>5

(* What RemoveAt leaves, position by position.                             *)
LEMMA RemoveAtShape ==
  ASSUME NEW E, NEW arms \in Seq(E), NEW i \in 1 .. Len(arms),
         NEW rest, rest = RemoveAt(arms, i)
  PROVE  /\ rest \in Seq(E) /\ Len(rest) = Len(arms) - 1
         /\ \A m \in 1 .. Len(arms) - 1 : rest[m] = IF m < i THEN arms[m] ELSE arms[m + 1]
<1> DEFINE n == Len(arms)
           a == SubSeq(arms, 1, i - 1)
           b == SubSeq(arms, i + 1, n)
<1>1. n \in Nat /\ \A m \in 1 .. n : arms[m] \in E
  OBVIOUS
<1>2. /\ a \in Seq(E) /\ Len(a) = i - 1
      /\ \A m \in 1 .. i - 1 : a[m] = arms[m]
  <2>1. \A m \in 1 .. i - 1 : arms[m] \in E
    BY <1>1
  <2> QED
    BY <1>1, <2>1, SubSeqProperties
<1>3. /\ b \in Seq(E) /\ Len(b) = n - i
      /\ \A m \in 1 .. n - i : b[m] = arms[i + m]
  <2>1. \A m \in i + 1 .. n : arms[m] \in E
    BY <1>1
  <2> QED
    BY <1>1, <2>1, SubSeqProperties
<1>4. rest = a \o b
  BY DEF RemoveAt
<1> HIDE DEF a, b
<1>5. rest \in Seq(E) /\ Len(rest) = n - 1
  BY <1>1, <1>2, <1>3, <1>4
<1>6. ASSUME NEW m \in 1 .. n - 1
      PROVE  rest[m] = IF m < i THEN arms[m] ELSE arms[m + 1]
  <2>1. rest[m] = IF m <= Len(a) THEN a[m] ELSE b[m - Len(a)]
    BY <1>1, <1>2, <1>3, <1>4, ConcatProperties
  <2>2. CASE m < i
    BY <1>1, <1>2, <2>1, <2>2
  <2>3. CASE m >= i
    <3>1. m - Len(a) \in 1 .. n - i /\ i + (m - Len(a)) = m + 1
      BY <1>1, <1>2, <2>3
    <3> QED
      BY <1>1, <1>2, <1>3, <2>1, <2>3, <3>1
  <2> QED
    BY <1>1, <2>2, <2>3
<1> QED
  BY <1>5, <1>6

(* Spending an arm takes one capture from its own target, and from no      *)
(* other, whether the arm stays or goes.                                   *)
LEMMA SpendUnits ==
  ASSUME NEW arms \in Seq(ArmRecord), NEW i \in 1 .. Len(arms), NEW u, NEW less,
         less = IF arms[i].count > 1 THEN [arms EXCEPT ![i].count = @ - 1]
                ELSE RemoveAt(arms, i)
  PROVE  /\ less \in Seq(ArmRecord)
         /\ u = arms[i].target
              => Cardinality(UnitsOf(arms, u)) = Cardinality(UnitsOf(less, u)) + 1
         /\ u # arms[i].target
              => Cardinality(UnitsOf(arms, u)) = Cardinality(UnitsOf(less, u))
<1> DEFINE c == arms[i].count
           spent == <<i, c>>
<1>0. MaxArmed \in Nat
  BY ProfilerAssumption
<1>1. /\ Len(arms) \in Nat /\ DOMAIN arms = 1 .. Len(arms)
      /\ \A j \in 1 .. Len(arms) : arms[j] \in ArmRecord
      /\ \A j \in 1 .. Len(arms) : arms[j].count \in 1..MaxArmed /\ arms[j].target \in Targets
  BY ArmFacts, ElementOfSeq
<1>2. /\ ArePairs(UnitsOf(arms, u)) /\ ArePairs(UnitsOf(less, u))
      /\ \A j, k : <<j, k>> \in UnitsOf(arms, u) <=> IsUnit(arms, u, j, k)
      /\ \A j, k : <<j, k>> \in UnitsOf(less, u) <=> IsUnit(less, u, j, k)
  BY UnitsMembers
<1>3. IsUnit(arms, u, i, c) <=> u = arms[i].target
  BY <1>0, <1>1 DEF IsUnit
<1>4. Cardinality(UnitsOf(arms, u) \ {spent})
        = Cardinality(UnitsOf(arms, u)) - (IF u = arms[i].target THEN 1 ELSE 0)
  <2>1. IsFiniteSet(UnitsOf(arms, u)) /\ Cardinality(UnitsOf(arms, u)) \in Nat
    BY UnitsFinite
  <2>2. spent \in UnitsOf(arms, u) <=> u = arms[i].target
    BY <1>2, <1>3
  <2> HIDE DEF spent, c
  <2>3. Cardinality(UnitsOf(arms, u) \ {spent})
          = IF spent \in UnitsOf(arms, u) THEN Cardinality(UnitsOf(arms, u)) - 1
            ELSE Cardinality(UnitsOf(arms, u))
    BY <2>1, FS_RemoveElement
  <2> QED
    BY <2>1, <2>2, <2>3
<1>5. CASE c > 1
  <2>1. /\ less = [arms EXCEPT ![i].count = @ - 1]
        /\ [arms[i] EXCEPT !.count = @ - 1] \in ArmRecord
    <3>1. less = [arms EXCEPT ![i].count = @ - 1]
      BY <1>5
    <3>2. arms[i] \in ArmRecord /\ c - 1 \in 1..MaxArmed
      BY <1>0, <1>1, <1>5
    <3>3. [arms[i] EXCEPT !.count = c - 1] \in ArmRecord
      <4> HIDE DEF c
      <4> QED
        BY <3>2 DEF ArmRecord
    <3> QED
      BY <3>1, <3>3
  <2>2. /\ less \in Seq(ArmRecord) /\ Len(less) = Len(arms)
        /\ \A j \in 1 .. Len(arms) : j # i => less[j] = arms[j]
        /\ less[i].count = c - 1 /\ less[i].target = arms[i].target
    <3>1. less = [arms EXCEPT ![i] = [arms[i] EXCEPT !.count = @ - 1]]
      BY <2>1
    <3>2. less \in Seq(ArmRecord) /\ Len(less) = Len(arms)
      BY <2>1, <3>1, ExceptSeq
    <3>3. \A j \in 1 .. Len(arms) : j # i => less[j] = arms[j]
      BY <1>1, <3>1
    <3>4. less[i] = [arms[i] EXCEPT !.count = @ - 1]
      BY <1>1, <3>1
    <3>5. less[i].count = c - 1 /\ less[i].target = arms[i].target
      BY <1>1, <3>4 DEF ArmRecord
    <3> QED
      BY <3>2, <3>3, <3>5
  <2>3. ASSUME NEW j, NEW k
        PROVE  IsUnit(less, u, j, k) <=> IsUnit(arms, u, j, k) /\ ~(j = i /\ k = c)
    <3>1. CASE j = i
      BY <1>0, <1>1, <2>2, <3>1 DEF IsUnit
    <3>2. CASE j # i
      BY <2>2, <3>2 DEF IsUnit
    <3> QED
      BY <3>1, <3>2
  <2>4. UnitsOf(less, u) = UnitsOf(arms, u) \ {spent}
    <3>1. ArePairs(UnitsOf(arms, u) \ {spent})
      BY <1>2 DEF ArePairs
    <3>2. \A j, k : <<j, k>> \in UnitsOf(arms, u) \ {spent}
                      <=> IsUnit(arms, u, j, k) /\ ~(j = i /\ k = c)
      BY <1>2
    <3> HIDE DEF spent, c
    <3> QED
      BY <1>2, <2>3, <3>1, <3>2, SamePairs
  <2>5. Cardinality(UnitsOf(less, u)) \in Nat /\ Cardinality(UnitsOf(arms, u)) \in Nat
    BY <2>2, UnitsFinite
  <2>6. Cardinality(UnitsOf(less, u))
          = Cardinality(UnitsOf(arms, u)) - (IF u = arms[i].target THEN 1 ELSE 0)
    BY <1>4, <2>4
  <2> HIDE DEF spent
  <2> QED
    BY <2>2, <2>5, <2>6
<1>6. CASE ~(c > 1)
  <2> DEFINE S == UnitsOf(less, u)
             T == UnitsOf(arms, u) \ {spent}
             up(j) == IF j < i THEN j ELSE j + 1
             f == [x \in S |-> <<up(x[1]), x[2]>>]
  <2>1. c = 1 /\ spent = <<i, 1>>
    BY <1>0, <1>1, <1>6
  <2>2. /\ less \in Seq(ArmRecord) /\ Len(less) = Len(arms) - 1
        /\ \A m \in 1 .. Len(arms) - 1 : less[m] = arms[up(m)]
    <3>1. less = RemoveAt(arms, i)
      BY <1>6
    <3>2. /\ less \in Seq(ArmRecord) /\ Len(less) = Len(arms) - 1
          /\ \A m \in 1 .. Len(arms) - 1 : less[m] = IF m < i THEN arms[m] ELSE arms[m + 1]
      BY <3>1, RemoveAtShape
    <3> QED
      BY <3>2
  <2>3. ASSUME NEW j, NEW k, <<j, k>> \in S
        PROVE  <<up(j), k>> \in T
    <3>1. IsUnit(less, u, j, k)
      BY <1>2, <2>3
    <3>2. up(j) \in 1 .. Len(arms) /\ up(j) # i /\ IsUnit(arms, u, up(j), k)
      <4>1. j \in 1 .. Len(arms) - 1
        BY <2>2, <3>1 DEF IsUnit
      <4>2. up(j) \in 1 .. Len(arms) /\ up(j) # i
        BY <1>1, <4>1
      <4>3. less[j] = arms[up(j)]
        BY <2>2, <4>1
      <4> HIDE DEF up
      <4> QED
        BY <3>1, <4>2, <4>3 DEF IsUnit
    <3> HIDE DEF up
    <3> QED
      BY <1>2, <2>1, <3>2
  <2>4. ASSUME NEW y \in T
        PROVE  \E j, k : <<j, k>> \in S /\ y = <<up(j), k>>
    <3>1. PICK j, k : y = <<j, k>>
      BY <1>2 DEF ArePairs
    <3>2. IsUnit(arms, u, j, k)
      BY <1>2, <3>1
    <3>3. j # i
      BY <1>0, <1>1, <2>1, <3>1, <3>2 DEF IsUnit
    <3>4. PICK m \in 1 .. Len(arms) - 1 : j = up(m)
      <4>1. CASE j < i
        BY <1>1, <3>2, <4>1 DEF IsUnit
      <4>2. CASE j > i
        <5>1. j - 1 \in 1 .. Len(arms) - 1 /\ ~(j - 1 < i) /\ (j - 1) + 1 = j
          BY <1>1, <3>2, <4>2 DEF IsUnit
        <5> QED
          BY <5>1
      <4> QED
        BY <1>1, <3>2, <3>3, <4>1, <4>2 DEF IsUnit
    <3>5. IsUnit(less, u, m, k)
      BY <2>2, <3>2, <3>4 DEF IsUnit
    <3> HIDE DEF up
    <3> QED
      BY <1>2, <3>1, <3>4, <3>5
  <2>5. \A x \in S : x = <<x[1], x[2]>> /\ x[1] \in Int
    <3>1. ASSUME NEW x \in S PROVE x = <<x[1], x[2]>> /\ x[1] \in Int
      <4>1. PICK j, k : x = <<j, k>>
        BY <1>2 DEF ArePairs
      <4>2. IsUnit(less, u, j, k)
        BY <1>2, <4>1
      <4>3. j \in Int
        BY <4>2 DEF IsUnit
      <4> QED
        BY <4>1, <4>3
    <3> QED
      BY <3>1
  <2>6. f \in Bijection(S, T)
    <3>1. \A x \in S : f[x] = <<up(x[1]), x[2]>>
      OBVIOUS
    <3>2. \A x \in S : f[x] \in T
      BY <2>3, <2>5, <3>1
    <3>3. ASSUME NEW x \in S, NEW y \in S, f[x] = f[y] PROVE x = y
      <4>1. up(x[1]) = up(y[1]) /\ x[2] = y[2]
        BY <3>1, <3>3
      <4>2. x[1] = y[1]
        <5>1. \A a, b \in Int : up(a) = up(b) => a = b
          BY <1>1
        <5> HIDE DEF f, S, T, up
        <5> QED
          BY <2>5, <4>1, <5>1
      <4> QED
        BY <2>5, <4>1, <4>2
    <3>4. ASSUME NEW y \in T PROVE \E x \in S : f[x] = y
      <4>1. PICK j, k : <<j, k>> \in S /\ y = <<up(j), k>>
        BY <2>4
      <4>2. <<j, k>>[1] = j /\ <<j, k>>[2] = k
        OBVIOUS
      <4> QED
        BY <3>1, <4>1, <4>2
    <3>5. f \in [S -> T]
      BY <3>2
    <3> HIDE DEF f, S, T
    <3> QED
      BY <3>3, <3>4, <3>5 DEF Bijection, Injection, IsInjective, Surjection
  <2> HIDE DEF f, S, T, spent
  <2>7. IsFiniteSet(S) /\ Cardinality(S) \in Nat
    BY <2>2, UnitsFinite DEF S
  <2>8. Cardinality(T) = Cardinality(S)
    BY <2>6, <2>7, FS_Bijection DEF ExistsBijection
  <2>9. Cardinality(UnitsOf(arms, u)) \in Nat
    BY UnitsFinite
  <2> QED
    BY <1>4, <2>2, <2>7, <2>8, <2>9 DEF S, T
<1> QED
  BY <1>5, <1>6

(* A set of positions has a first one.                                     *)
LEMMA MinOfPositions ==
  ASSUME NEW T \in SUBSET Nat, T # {}
  PROVE  Min(T) \in T
<1> DEFINE below == {p \in Nat \X Nat : p[1] < p[2]}
<1>1. IsWellFoundedOn(below, Nat)
  BY NatLessThanWellFounded DEF OpToRel
<1> HIDE DEF below
<1>2. PICK x \in T : \A y \in T : ~(<<y, x>> \in below)
  BY <1>1, WFMin
<1>3. \A y \in T : x <= y
  <2> SUFFICES ASSUME NEW y \in T PROVE x <= y
    OBVIOUS
  <2>1. <<y, x>> \in below <=> y < x
    BY DEF below
  <2>2. x \in Nat /\ y \in Nat
    OBVIOUS
  <2> QED
    BY <1>2, <2>1, <2>2
<1> QED
  BY <1>3 DEF Min

Charges(t) == {r \in Requests : t \in charged[r]}

(* A request is charged once, and only when it is profiled; what a target  *)
(* was armed with is pending or charged.                                   *)
Budget ==
  /\ manual \in Seq(ArmRecord)
  /\ armed \in [Targets -> Nat]
  /\ charged \in [Requests -> SUBSET Targets]
  /\ \A r \in Requests :
       charged[r] # {} => charged[r] \subseteq {RouteOf[r], AnyRoute} /\ handle[r] # "none"
  /\ \A t \in Targets : armed[t] = Cardinality(UnitsOf(manual, t)) + Cardinality(Charges(t))

LEMMA ChargesFinite ==
  ASSUME NEW t PROVE IsFiniteSet(Charges(t)) /\ Cardinality(Charges(t)) \in Nat
<1>1. IsFiniteSet(Charges(t))
  BY ProfilerAssumption, FS_Subset DEF Charges
<1> QED
  BY <1>1, FS_CardinalityType

LEMMA InitBudget == Init => Budget
<1> SUFFICES ASSUME Init PROVE Budget
  OBVIOUS
<1>1. manual \in Seq(ArmRecord) /\ Len(manual) = 0
  BY EmptySeq DEF Init
<1>2. ASSUME NEW t \in Targets
      PROVE  armed[t] = Cardinality(UnitsOf(manual, t)) + Cardinality(Charges(t))
  <2>1. Charges(t) = {}
    BY DEF Init, Charges
  <2>2. UnitsOf(manual, t) = {}
    <3>1. \A j, k : ~IsUnit(manual, t, j, k)
      BY <1>1 DEF IsUnit
    <3> QED
      BY <3>1, UnitsMembers DEF ArePairs
  <2>3. Cardinality(Charges(t)) = 0 /\ Cardinality(UnitsOf(manual, t)) = 0
    BY <2>1, <2>2, FS_EmptySet
  <2>4. armed[t] = 0
    BY DEF Init
  <2> QED
    BY <2>3, <2>4
<1> QED
  BY <1>1, <1>2 DEF Init, Budget

LEMMA ArmBudget ==
  ASSUME Budget, NEW t \in Targets, NEW n \in 1..MaxArmed, Arm(t, n)
  PROVE  Budget'
<1>1. /\ manual' = Append(manual, [count |-> n, target |-> t])
      /\ armed' = [armed EXCEPT ![t] = @ + n]
      /\ UNCHANGED <<handle, charged>>
  BY DEF Arm
<1>2. /\ manual' \in Seq(ArmRecord)
      /\ \A u : u = t => Cardinality(UnitsOf(manual', u)) = Cardinality(UnitsOf(manual, u)) + n
      /\ \A u : u # t => Cardinality(UnitsOf(manual', u)) = Cardinality(UnitsOf(manual, u))
  <2>1. manual \in Seq(ArmRecord)
    BY DEF Budget
  <2>2. PICK arm \in ArmRecord : arm = [count |-> n, target |-> t]
    BY DEF ArmRecord
  <2>3. manual' = Append(manual, arm) /\ arm.count = n /\ arm.target = t
    BY <1>1, <2>2
  <2> QED
    BY <2>1, <2>3, AppendUnits, ZenonT(40)
<1>3. n \in Nat
  BY ProfilerAssumption
<1>4. ASSUME NEW u \in Targets
      PROVE  armed'[u] = Cardinality(UnitsOf(manual', u)) + Cardinality(Charges(u)')
  <2>1. Charges(u)' = Charges(u)
    BY <1>1 DEF Charges
  <2>2. armed'[u] = armed[u] + (IF u = t THEN n ELSE 0) /\ armed[u] \in Nat
    BY <1>1, <1>3 DEF Budget
  <2>3. armed[u] = Cardinality(UnitsOf(manual, u)) + Cardinality(Charges(u))
    BY DEF Budget
  <2>4. Cardinality(UnitsOf(manual, u)) \in Nat /\ Cardinality(Charges(u)) \in Nat
    BY UnitsFinite, ChargesFinite DEF Budget
  <2> QED
    BY <1>2, <1>3, <2>1, <2>2, <2>3, <2>4
<1>5. armed' \in [Targets -> Nat]
  BY <1>1, <1>3 DEF Budget
<1> QED
  BY <1>1, <1>2, <1>4, <1>5 DEF Budget, Charges

LEMMA BeginBudget ==
  ASSUME IInv, Budget, NEW r \in Requests, Begin(r)
  PROVE  Budget'
<1>1. /\ handle[r] = "none" /\ handle' = [handle EXCEPT ![r] = "open"] /\ armed' = armed
      /\ handle' \in [Requests -> {"none", "open", "ended"}]
  BY DEF Begin, IInv, Typed, Stages
<1>2. charged[r] = {}
  BY <1>1 DEF Budget
<1>3. CASE Matching(r) = {}
  <2>1. UNCHANGED <<manual, charged>>
    BY <1>3 DEF Begin
  <2>2. \A q \in Requests : handle[q] # "none" => handle'[q] # "none"
    BY <1>1 DEF IInv, Typed
  <2> QED
    BY <1>1, <2>1, <2>2 DEF Budget, Charges
<1>4. CASE Matching(r) # {}
  <2> DEFINE i == Min(Matching(r))
             t == manual[i].target
  <2>1. /\ i \in 1 .. Len(manual) /\ t \in {RouteOf[r], AnyRoute} /\ t \in Targets
    <3>1. DOMAIN manual = 1 .. Len(manual) /\ Len(manual) \in Nat
      BY ArmFacts DEF Budget
    <3>2. Matching(r) \in SUBSET Nat
      BY <3>1 DEF Matching
    <3>3. i \in Matching(r)
      BY <1>4, <3>2, MinOfPositions
    <3> HIDE DEF i
    <3>4. i \in 1 .. Len(manual) /\ manual[i].target \in {RouteOf[r], AnyRoute}
      BY <3>1, <3>3 DEF Matching
    <3>5. manual[i].target \in Targets
      BY <3>4, ArmFacts DEF Budget
    <3> QED
      BY <3>4, <3>5
  <2>2. /\ manual' = IF manual[i].count > 1 THEN [manual EXCEPT ![i].count = @ - 1]
                     ELSE RemoveAt(manual, i)
        /\ charged' = [charged EXCEPT ![r] = {t}]
    BY <1>4 DEF Begin, Spend
  <2> HIDE DEF i
  <2>3. /\ manual' \in Seq(ArmRecord)
        /\ \A u : u = t => Cardinality(UnitsOf(manual, u)) = Cardinality(UnitsOf(manual', u)) + 1
        /\ \A u : u # t => Cardinality(UnitsOf(manual, u)) = Cardinality(UnitsOf(manual', u))
    <3>1. manual \in Seq(ArmRecord)
      BY DEF Budget
    <3> QED
      BY <2>1, <2>2, <3>1, SpendUnits, ZenonT(40)
  <2> HIDE DEF t
  <2>4. ASSUME NEW u
        PROVE  Cardinality(Charges(u)') = Cardinality(Charges(u)) + (IF u = t THEN 1 ELSE 0)
    <3>1. CASE u = t
      <4>1. Charges(u)' = Charges(u) \cup {r} /\ r \notin Charges(u)
        BY <1>2, <2>2, <3>1 DEF Charges, Budget
      <4> QED
        BY <3>1, <4>1, ChargesFinite, FS_AddElement
    <3>2. CASE u # t
      <4>1. Charges(u)' = Charges(u)
        BY <1>2, <2>2, <3>2 DEF Charges, Budget
      <4> QED
        BY <3>2, <4>1, ChargesFinite
    <3> QED
      BY <3>1, <3>2
  <2>5. ASSUME NEW u \in Targets
        PROVE  armed'[u] = Cardinality(UnitsOf(manual', u)) + Cardinality(Charges(u)')
    <3>1. armed[u] = Cardinality(UnitsOf(manual, u)) + Cardinality(Charges(u))
      BY DEF Budget
    <3>2. Cardinality(UnitsOf(manual', u)) \in Nat /\ Cardinality(Charges(u)) \in Nat
      BY <2>3, UnitsFinite, ChargesFinite
    <3> QED
      BY <1>1, <2>3, <2>4, <3>1, <3>2
  <2>6. charged' \in [Requests -> SUBSET Targets]
    BY <2>1, <2>2 DEF Budget
  <2>7. \A q \in Requests : charged'[q] # {} =>
           charged'[q] \subseteq {RouteOf[q], AnyRoute} /\ handle'[q] # "none"
    <3>1. TAKE q \in Requests
    <3>2. CASE q = r
      BY <1>1, <2>1, <2>2, <3>2 DEF Budget, IInv, Typed
    <3>3. CASE q # r
      BY <1>1, <2>2, <3>3 DEF Budget, IInv, Typed
    <3> QED
      BY <3>2, <3>3
  <2>8. armed' \in [Targets -> Nat]
    BY <1>1 DEF Budget
  <2> QED
    BY <2>3, <2>5, <2>6, <2>7, <2>8 DEF Budget
<1> QED
  BY <1>3, <1>4

LEMMA BudgetStep == IInv /\ Budget /\ [Next]_vars => Budget'
<1> SUFFICES ASSUME IInv, Budget, [Next]_vars PROVE Budget'
  OBVIOUS
<1>1. ASSUME NEW t \in Targets, NEW n \in 1..MaxArmed, Arm(t, n) PROVE Budget'
  BY <1>1, ArmBudget
<1>2. ASSUME NEW r \in Requests, Begin(r) PROVE Budget'
  BY <1>2, BeginBudget
<1>3. ASSUME UNCHANGED <<manual, armed, charged>>,
             \A q \in Requests : handle[q] # "none" => handle'[q] # "none"
      PROVE  Budget'
  BY <1>3 DEF Budget, Charges
<1>4. ASSUME NEW r \in Requests, ServeUntouched(r) PROVE Budget'
  BY <1>3, <1>4 DEF ServeUntouched
<1>5. ASSUME NEW r \in Requests, NEW how, StartSettles(r, how) PROVE Budget'
  BY <1>3, <1>5 DEF StartSettles
<1>6. ASSUME NEW r \in Requests, NEW how, Ends(r, how) PROVE Budget'
  BY <1>3, <1>6 DEF Ends
<1>7. ASSUME NEW r \in Requests, EndsWithNothing(r) PROVE Budget'
  BY <1>3, <1>7 DEF EndsWithNothing, Release, IInv, Typed
<1>8. ASSUME NEW r \in Requests, NEW how, EndsWithProfile(r, how) PROVE Budget'
  BY <1>3, <1>8 DEF EndsWithProfile, Release, IInv, Typed
<1>9. CASE UNCHANGED vars
  BY <1>3, <1>9 DEF vars
<1> QED
  BY <1>1, <1>2, <1>4, <1>5, <1>6, <1>7, <1>8, <1>9 DEF Next

(* An armed capture is spent once, by a request it was armed for: for any  *)
(* arms, in any order, what a target was armed with is what is pending of  *)
(* it and what its requests were charged (begin's matchManual).            *)
THEOREM BudgetIsExact == Spec => []BudgetExact
<1>1. Budget => BudgetExact
  BY DEF Budget, BudgetExact, Pending, Units, UnitsOf, Charges
<1> QED
  BY <1>1, InitInv, Step, InitBudget, BudgetStep, PTL DEF Spec
=============================================================================
