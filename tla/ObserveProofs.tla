---------------------------- MODULE ObserveProofs ----------------------------
(***************************************************************************)
(* Why an entry is in one place at every time, the assembler, a payload    *)
(* under way or its outcome; why a count reaches the wire once; and why a  *)
(* batch that is still arriving is sent early only for a reason the code   *)
(* names.  For any batches, caps, grace period, chunk size and attempts.   *)
(*                                                                         *)
(* The assembler's maps, the batches they give and the payload built from  *)
(* them are sequences that folds and filters of sequences produce, so most *)
(* of the module says what one fold or filter does.  The inductive         *)
(* invariant has five parts: `Typed'; `Assembled', that the open batches   *)
(* and the evicted ones share no entry and hold only accepted ones;        *)
(* `Dispatching', that one caller at a time has payloads, no two of which  *)
(* carry the same entry; `Placed', that an entry's fate says in which of   *)
(* these it is, and that only close() makes entries vanish; and `Counted', *)
(* which is MetricsOnce with the types it needs.                           *)
(*                                                                         *)
(* Induction over the length of a sequence goes through sets: the least    *)
(* element of the set of those that fail (LeastOf), from which UpTo.       *)
(***************************************************************************)
EXTENDS ObserveExporter, SequenceTheorems, FiniteSetTheorems,
        WellFoundedInduction, TLAPS

(* A set of naturals that is not empty has a least element.                *)
LEMMA LeastOf ==
  ASSUME NEW T \in SUBSET Nat, T # {}
  PROVE  \E x \in T : \A y \in T : x <= y
<1> DEFINE R == {ss \in Nat \X Nat : ss[1] < ss[2]}
<1>1. IsWellFoundedOn(R, Nat)
  BY NatLessThanWellFounded DEF OpToRel
<1>2. PICK x \in T : \A y \in T : ~(<<y, x>> \in R)
  <2> HIDE DEF R
  <2> QED
    BY <1>1, WFMin
<1>3. ASSUME NEW y \in T
      PROVE  x <= y
  <2>1. ~(y < x)
    BY <1>2, <1>3
  <2> QED
    BY <2>1
<1> QED
  BY <1>3

(* Induction up to n, over a set of naturals.                              *)
LEMMA UpTo ==
  ASSUME NEW n \in Nat, NEW I, 0 \in I,
         \A k \in 0 .. n - 1 : k \in I => k + 1 \in I
  PROVE  \A k \in 0 .. n : k \in I
<1> DEFINE T == {k \in 0 .. n : k \notin I}
<1>1. ASSUME T # {}
      PROVE  FALSE
  <2>1. PICK x \in T : \A y \in T : x <= y
    <3>1. T \in SUBSET Nat /\ T # {}
      BY <1>1
    <3> HIDE DEF T
    <3> QED
      BY <3>1, LeastOf
  <2>2. x # 0 /\ x \in 1 .. n
    BY <2>1
  <2>3. x - 1 \notin T /\ x - 1 \in 0 .. n - 1
    BY <2>1, <2>2
  <2>4. x - 1 \in I /\ (x - 1) + 1 = x
    BY <2>3
  <2> QED
    BY <2>1, <2>3, <2>4
<1> QED
  BY <1>1

(* A set of naturals that is not empty and has a bound has a maximum.      *)
LEMMA MaxOf ==
  ASSUME NEW n \in Nat, NEW S \in SUBSET (0 .. n), S # {}
  PROVE  Max(S) \in S /\ \A y \in S : Max(S) >= y
<1> DEFINE T == {n - y : y \in S}
<1>1. T \in SUBSET Nat /\ T # {}
  <2>1. \A y \in S : n - y \in Nat
    OBVIOUS
  <2> QED
    BY <2>1
<1>2. PICK x \in T : \A y \in T : x <= y
  <2> HIDE DEF T
  <2> QED
    BY <1>1, LeastOf
<1>3. PICK m \in S : x = n - m
  BY <1>2
<1>4. \A y \in S : m >= y
  <2> TAKE y \in S
  <2>1. x <= n - y
    BY <1>2
  <2> QED
    BY <1>3, <2>1
<1> QED
  BY <1>4 DEF Max

(* The recursion that a fold from the left over 1 .. n stands for.         *)
Unfolds(h, n, base, op) ==
  \A s \in SUBSET (1 .. n) :
    h[s] = IF s = {} THEN base ELSE op[<<h[s \ {Max(s)}], Max(s)>>]

(* It has a solution.                                                      *)
LEMMA Folding ==
  ASSUME NEW n \in Nat, NEW V, NEW base \in V, NEW op \in [V \X (1 .. n) -> V]
  PROVE  \E h \in [SUBSET (1 .. n) -> V] : Unfolds(h, n, base, op)
<1> DEFINE Solves(h, k) == \A s \in SUBSET (1 .. k) :
             h[s] = IF s = {} THEN base ELSE op[<<h[s \ {Max(s)}], Max(s)>>]
           I == {k \in 0 .. n : \E h \in [SUBSET (1 .. k) -> V] : Solves(h, k)}
<1>1. 0 \in I
  <2> DEFINE h == [s \in SUBSET (1 .. 0) |-> base]
  <2>1. h \in [SUBSET (1 .. 0) -> V] /\ Solves(h, 0)
    OBVIOUS
  <2>2. 0 \in 0 .. n
    OBVIOUS
  <2> HIDE DEF h, Solves
  <2>3. \E g \in [SUBSET (1 .. 0) -> V] : Solves(g, 0)
    BY <2>1
  <2> QED
    BY <2>2, <2>3
<1>2. ASSUME NEW k \in 0 .. n - 1, k \in I
      PROVE  k + 1 \in I
  <2>1. PICK h \in [SUBSET (1 .. k) -> V] : Solves(h, k)
    BY <1>2
  <2> DEFINE g == [s \in SUBSET (1 .. k + 1) |->
                     IF s = {} THEN base ELSE op[<<h[s \ {Max(s)}], Max(s)>>]]
  <2>2. ASSUME NEW s \in SUBSET (1 .. k + 1), s # {}
        PROVE  Max(s) \in s /\ Max(s) \in 1 .. n /\ s \ {Max(s)} \in SUBSET (1 .. k)
    <3>1. Max(s) \in s /\ \A y \in s : Max(s) >= y
      <4>1. s \in SUBSET (0 .. k + 1) /\ k + 1 \in Nat
        BY <2>2
      <4> QED
        BY <2>2, <4>1, MaxOf
    <3>2. Max(s) \in 1 .. k + 1 /\ \A y \in s \ {Max(s)} : y \in 1 .. k
      <4> DEFINE m == Max(s)
      <4>1. m \in s /\ \A y \in s : m >= y
        BY <3>1
      <4> HIDE DEF m
      <4>2. m \in 1 .. k + 1 /\ \A y \in s \ {m} : y \in 1 .. k
        BY <4>1
      <4> QED
        BY <4>2 DEF m
    <3>3. 1 .. k + 1 \subseteq 1 .. n
      OBVIOUS
    <3> QED
      BY <3>1, <3>2, <3>3
  <2>3. g \in [SUBSET (1 .. k + 1) -> V]
    BY <2>2
  <2>4. ASSUME NEW s \in SUBSET (1 .. k)
        PROVE  g[s] = h[s]
    <3>1. s \in SUBSET (1 .. k + 1)
      OBVIOUS
    <3> QED
      BY <2>1, <3>1
  <2>5. Solves(g, k + 1)
    <3> TAKE s \in SUBSET (1 .. k + 1)
    <3>1. CASE s = {}
      BY <3>1
    <3>2. CASE s # {}
      <4>1. g[s \ {Max(s)}] = h[s \ {Max(s)}]
        BY <2>2, <2>4, <3>2
      <4> QED
        BY <3>2, <4>1
    <3> QED
      BY <3>1, <3>2
  <2>6. k + 1 \in 0 .. n
    OBVIOUS
  <2> HIDE DEF g, Solves
  <2> QED
    BY <2>3, <2>5, <2>6
<1> HIDE DEF I
<1>3. n \in I
  <2>1. \A k \in 0 .. n : k \in I
    BY <1>1, <1>2, UpTo
  <2> QED
    BY <2>1
<1> QED
  BY <1>3 DEF I, Unfolds

(* What the sets of numbers up to k are, one number at a time.             *)
LEMMA Prefix ==
  ASSUME NEW k \in Nat \ {0}
  PROVE  /\ Max(1 .. k) = k
         /\ (1 .. k) \ {k} = 1 .. k - 1
         /\ 1 .. k # {}
<1>1. 1 .. k \in SUBSET (0 .. k) /\ 1 .. k # {}
  OBVIOUS
<1>2. Max(1 .. k) \in 1 .. k /\ \A y \in 1 .. k : Max(1 .. k) >= y
  BY <1>1, MaxOf
<1> DEFINE m == Max(1 .. k)
<1>3. m \in 1 .. k /\ m >= k
  BY <1>2
<1> HIDE DEF m
<1>4. m = k
  BY <1>3
<1> QED
  BY <1>1, <1>4 DEF m

(* A recursion over 0 .. n, one number at a time, has a solution too.      *)
Stepwise(h, n, base, op) ==
  /\ h[0] = base
  /\ \A k \in 1 .. n : h[k] = op[<<h[k - 1], k>>]

LEMMA Stepping ==
  ASSUME NEW n \in Nat, NEW V, NEW base \in V, NEW op \in [V \X (1 .. n) -> V]
  PROVE  \E h \in [0 .. n -> V] : Stepwise(h, n, base, op)
<1>1. PICK g \in [SUBSET (1 .. n) -> V] : Unfolds(g, n, base, op)
  BY Folding
<1> DEFINE h == [k \in 0 .. n |-> g[1 .. k]]
<1>2. h \in [0 .. n -> V]
  OBVIOUS
<1>3. h[0] = base
  <2>1. 1 .. 0 = {} /\ {} \in SUBSET (1 .. n) /\ 0 \in 0 .. n
    OBVIOUS
  <2>2. g[{}] = base
    BY <1>1, <2>1 DEF Unfolds
  <2> QED
    BY <2>1, <2>2
<1>4. ASSUME NEW k \in 1 .. n
      PROVE  h[k] = op[<<h[k - 1], k>>]
  <2>1. Max(1 .. k) = k /\ (1 .. k) \ {k} = 1 .. k - 1 /\ 1 .. k # {}
    <3>1. k \in Nat \ {0}
      OBVIOUS
    <3> QED
      BY <3>1, Prefix
  <2>2. 1 .. k \in SUBSET (1 .. n) /\ k - 1 \in 0 .. n /\ k \in 0 .. n
    OBVIOUS
  <2>3. g[1 .. k] = op[<<g[1 .. k - 1], k>>]
    BY <1>1, <2>1, <2>2 DEF Unfolds
  <2> QED
    BY <2>2, <2>3
<1> HIDE DEF h
<1> QED
  BY <1>2, <1>3, <1>4 DEF Stepwise

-----------------------------------------------------------------------------
(* Where keeps the elements of a sequence that are in a set.               *)

(* ix says where the elements of r stand in the first m of s.              *)
Picking(r, s, S, m, ix) ==
  /\ ix \in [1 .. Len(r) -> 1 .. m]
  /\ \A k, l \in 1 .. Len(r) : k < l => ix[k] < ix[l]
  /\ \A k \in 1 .. Len(r) : r[k] = s[ix[k]]
  /\ \A i \in 1 .. m : s[i] \in S <=> \E k \in 1 .. Len(r) : ix[k] = i

(* What Where has after each element.                                      *)
Filtering(u, s, S) ==
  /\ u[0] = <<>>
  /\ \A k \in 1 .. Len(s) :
       u[k] = IF s[k] \in S THEN Append(u[k - 1], s[k]) ELSE u[k - 1]

LEMMA WhereUnfolds ==
  ASSUME NEW X, NEW s \in Seq(X), NEW S
  PROVE  \E u \in [0 .. Len(s) -> Seq(X)] :
           Where(s, S) = u[Len(s)] /\ Filtering(u, s, S)
<1> DEFINE n == Len(s)
           Eq(u) == u = [k \in 0 .. n |->
                           IF k = 0 THEN <<>>
                           ELSE IF s[k] \in S THEN Append(u[k - 1], s[k]) ELSE u[k - 1]]
           it == CHOOSE u : Eq(u)
           op == [x \in Seq(X) \X (1 .. n) |->
                    IF s[x[2]] \in S THEN Append(x[1], s[x[2]]) ELSE x[1]]
<1>1. Where(s, S) = it[n]
  BY DEF Where
<1>2. n \in Nat /\ <<>> \in Seq(X) /\ \A k \in 1 .. n : s[k] \in X
  BY LenProperties, ElementOfSeq
<1>3. op \in [Seq(X) \X (1 .. n) -> Seq(X)]
  <2>1. \A q \in Seq(X), k \in 1 .. n : Append(q, s[k]) \in Seq(X)
    BY <1>2, AppendProperties
  <2> QED
    BY <2>1
<1>4. PICK h \in [0 .. n -> Seq(X)] : Stepwise(h, n, <<>>, op)
  <2> HIDE DEF op, n
  <2> QED
    BY <1>2, <1>3, Stepping
<1>5. \A k \in 1 .. n : h[k] = IF s[k] \in S THEN Append(h[k - 1], s[k]) ELSE h[k - 1]
  <2> TAKE k \in 1 .. n
  <2>1. h[k] = op[<<h[k - 1], k>>]
    BY <1>4 DEF Stepwise
  <2>2. k - 1 \in 0 .. n
    BY <1>2
  <2>3. h[k - 1] \in Seq(X)
    BY <1>4, <2>2
  <2> QED
    BY <2>1, <2>3
<1>6. Eq(h)
  <2>1. \A k \in 0 .. n : h[k] = IF k = 0 THEN <<>>
             ELSE IF s[k] \in S THEN Append(h[k - 1], s[k]) ELSE h[k - 1]
    <3>1. h[0] = <<>>
      BY <1>4 DEF Stepwise
    <3>2. \A k \in 0 .. n : k = 0 \/ k \in 1 .. n
      BY <1>2
    <3> HIDE DEF n, op
    <3> QED
      BY <1>5, <3>1, <3>2
  <2> HIDE DEF n, op
  <2> QED
    BY <2>1
<1>7. Eq(it)
  <2> HIDE DEF Eq
  <2> QED
    BY <1>6
<1> HIDE DEF it
<1>8. it[0] = <<>> /\ DOMAIN it = 0 .. n
  <2> HIDE DEF n
  <2> QED
    BY <1>2, <1>7
<1>9. \A k \in 1 .. n : it[k] = IF s[k] \in S THEN Append(it[k - 1], s[k]) ELSE it[k - 1]
  <2> TAKE k \in 1 .. n
  <2>1. k \in 0 .. n /\ k # 0
    BY <1>2
  <2> HIDE DEF n
  <2> QED
    BY <1>7, <2>1
<1>10. \A k \in 0 .. n : it[k] \in Seq(X)
  <2> DEFINE I == {k \in 0 .. n : it[k] \in Seq(X)}
  <2>1. 0 \in I
    <3>1. 0 \in 0 .. n /\ it[0] \in Seq(X)
      BY <1>2, <1>8
    <3> HIDE DEF n
    <3> QED
      BY <3>1
  <2>2. ASSUME NEW k \in 0 .. n - 1, k \in I
        PROVE  k + 1 \in I
    <3>1. k + 1 \in 1 .. n /\ (k + 1) - 1 = k /\ k + 1 \in 0 .. n
      BY <1>2
    <3>2. s[k + 1] \in X
      BY <1>2, <3>1
    <3>3. Append(it[k], s[k + 1]) \in Seq(X)
      BY <2>2, <3>2, AppendProperties
    <3> HIDE DEF n
    <3> QED
      BY <1>9, <2>2, <3>1, <3>3
  <2> HIDE DEF I
  <2>3. \A k \in 0 .. n : k \in I
    BY <1>2, <2>1, <2>2, UpTo
  <2> QED
    BY <2>3 DEF I
<1> QED
  <2>1. it \in [0 .. n -> Seq(X)]
    <3> HIDE DEF n
    <3> QED
      BY <1>7, <1>8, <1>10
  <2>2. Filtering(it, s, S)
    BY <1>8, <1>9 DEF Filtering
  <2> QED
    BY <1>1, <2>1, <2>2

(* An element more, or not.                                                *)
LEMMA PickingMore ==
  ASSUME NEW X, NEW s \in Seq(X), NEW S, NEW m \in 0 .. Len(s) - 1,
         NEW r \in Seq(X), NEW ix, Picking(r, s, S, m, ix),
         NEW q, q = IF s[m + 1] \in S THEN Append(r, s[m + 1]) ELSE r
  PROVE  \E jx : Picking(q, s, S, m + 1, jx)
<1>1. Len(r) \in Nat /\ Len(s) \in Nat /\ m \in Nat /\ m + 1 \in 1 .. Len(s)
  BY LenProperties
<1>2. CASE s[m + 1] \notin S
  <2>1. ix \in [1 .. Len(r) -> 1 .. m + 1] /\ \A k \in 1 .. Len(r) : ix[k] # m + 1
    BY <1>1 DEF Picking
  <2>2. \A i \in 1 .. m + 1 : i = m + 1 \/ i \in 1 .. m
    BY <1>1
  <2>3. \A i \in 1 .. m + 1 : s[i] \in S <=> \E k \in 1 .. Len(r) : ix[k] = i
    BY <1>2, <2>1, <2>2 DEF Picking
  <2>4. Picking(r, s, S, m + 1, ix)
    BY <2>1, <2>3 DEF Picking
  <2> QED
    BY <1>2, <2>4
<1>3. CASE s[m + 1] \in S
  <2> DEFINE n == Len(r) + 1
             jx == [k \in 1 .. n |-> IF k = n THEN m + 1 ELSE ix[k]]
  <2>1. s[m + 1] \in X
    BY <1>1, ElementOfSeq
  <2>2. q = Append(r, s[m + 1]) /\ Len(q) = n /\ q[n] = s[m + 1]
          /\ \A k \in 1 .. Len(r) : q[k] = r[k]
    BY <1>3, <2>1, AppendProperties
  <2>3. \A k \in 1 .. n : k = n \/ k \in 1 .. Len(r)
    BY <1>1
  <2>4. ix \in [1 .. Len(r) -> 1 .. m]
    BY DEF Picking
  <2>5. jx \in [1 .. Len(q) -> 1 .. m + 1]
    BY <1>1, <2>2, <2>3, <2>4
  <2>6. \A k, l \in 1 .. Len(q) : k < l => jx[k] < jx[l]
    BY <1>1, <2>2, <2>3, <2>4 DEF Picking
  <2>7. \A k \in 1 .. Len(q) : q[k] = s[jx[k]]
    BY <1>1, <2>2, <2>3 DEF Picking
  <2>8. ASSUME NEW i \in 1 .. m + 1
        PROVE  s[i] \in S <=> \E k \in 1 .. Len(q) : jx[k] = i
    <3>1. CASE i = m + 1
      <4>1. n \in 1 .. Len(q) /\ jx[n] = m + 1
        BY <1>1, <2>2
      <4> QED
        BY <1>3, <3>1, <4>1
    <3>2. CASE i # m + 1
      <4>1. i \in 1 .. m
        BY <1>1, <3>2
      <4>2. \A k \in 1 .. Len(r) : k \in 1 .. Len(q) /\ jx[k] = ix[k]
        BY <1>1, <2>2
      <4>3. \A k \in 1 .. Len(q) : jx[k] = i => k \in 1 .. Len(r) /\ ix[k] = i
        BY <1>1, <2>2, <2>3, <3>2
      <4> HIDE DEF jx, n
      <4> QED
        BY <4>1, <4>2, <4>3 DEF Picking
    <3> QED
      BY <3>1, <3>2
  <2>9. Picking(q, s, S, m + 1, jx)
    <3> HIDE DEF jx
    <3> QED
      BY <2>5, <2>6, <2>7, <2>8 DEF Picking
  <2> QED
    BY <2>9
<1> QED
  BY <1>2, <1>3

LEMMA WherePicks ==
  ASSUME NEW X, NEW s \in Seq(X), NEW S
  PROVE  /\ Where(s, S) \in Seq(X)
         /\ \E ix : Picking(Where(s, S), s, S, Len(s), ix)
<1> DEFINE n == Len(s)
<1>1. PICK u \in [0 .. n -> Seq(X)] :
        Where(s, S) = u[n] /\ Filtering(u, s, S)
  BY WhereUnfolds
<1> DEFINE I == {k \in 0 .. n : \E ix : Picking(u[k], s, S, k, ix)}
<1>2. n \in Nat
  BY LenProperties
<1>3. 0 \in I
  <2>1. Picking(<<>>, s, S, 0, <<>>)
    BY DEF Picking
  <2>2. 0 \in 0 .. n
    BY <1>2
  <2>3. u[0] = <<>>
    BY <1>1 DEF Filtering
  <2>4. \E ix : Picking(u[0], s, S, 0, ix)
    BY <2>1, <2>3
  <2> HIDE DEF n
  <2> QED
    BY <2>2, <2>4
<1>4. ASSUME NEW k \in 0 .. n - 1, k \in I
      PROVE  k + 1 \in I
  <2>1. PICK ix : Picking(u[k], s, S, k, ix)
    BY <1>4
  <2>2. k + 1 \in 1 .. n /\ (k + 1) - 1 = k /\ k + 1 \in 0 .. n /\ k \in 0 .. n
    BY <1>2
  <2>3. u[k + 1] = IF s[k + 1] \in S THEN Append(u[k], s[k + 1]) ELSE u[k]
    BY <1>1, <2>2 DEF Filtering
  <2>4. u[k] \in Seq(X)
    BY <1>1, <2>2
  <2>5. \E jx : Picking(u[k + 1], s, S, k + 1, jx)
    BY <2>1, <2>3, <2>4, PickingMore
  <2> QED
    BY <2>2, <2>5
<1> HIDE DEF I
<1>5. n \in I
  <2>1. \A k \in 0 .. n : k \in I
    <3> HIDE DEF n
    <3> QED
      BY <1>2, <1>3, <1>4, UpTo
  <2> QED
    BY <1>2, <2>1
<1> QED
  BY <1>1, <1>2, <1>5 DEF I

(* Where and SubSeq keep the order of two elements.                        *)
InOrderOf(r, s) ==
  \A i, j \in 1 .. Len(r) : i < j =>
    \E k, l \in 1 .. Len(s) : k < l /\ r[i] = s[k] /\ r[j] = s[l]

LEMMA WhereKeeps ==
  ASSUME NEW X, NEW s \in Seq(X), NEW S
  PROVE  /\ Where(s, S) \in Seq(X)
         /\ Len(Where(s, S)) <= Len(s)
         /\ ToSet(Where(s, S)) = ToSet(s) \cap S
         /\ InOrderOf(Where(s, S), s)
<1> DEFINE r == Where(s, S)
<1>1. r \in Seq(X)
  BY WherePicks
<1>2. PICK ix : Picking(r, s, S, Len(s), ix)
  BY WherePicks
<1>3. /\ Len(r) \in Nat /\ DOMAIN r = 1 .. Len(r)
      /\ Len(s) \in Nat /\ DOMAIN s = 1 .. Len(s)
  <2> HIDE DEF r
  <2> QED
    BY <1>1, LenProperties
<1> HIDE DEF r
<1>4. ix \in [1 .. Len(r) -> 1 .. Len(s)]
  BY <1>2 DEF Picking
<1>5. Len(r) <= Len(s)
  <2>1. ix \in Injection(1 .. Len(r), 1 .. Len(s))
    <3>1. \A k, l \in 1 .. Len(r) : k # l => k < l \/ l < k
      BY <1>3
    <3>2. \A k, l \in 1 .. Len(r) : k # l => ix[k] # ix[l]
      BY <1>2, <1>3, <1>4, <3>1 DEF Picking
    <3> QED
      BY <1>4, <3>2 DEF Injection, IsInjective
  <2>2. /\ IsFiniteSet(1 .. Len(s)) /\ Cardinality(1 .. Len(s)) = Len(s)
        /\ Cardinality(1 .. Len(r)) = Len(r)
    <3>1. \A n \in Nat : IsFiniteSet(1 .. n) /\ Cardinality(1 .. n) = n
      <4> TAKE n \in Nat
      <4>1. 1 \in Int /\ n \in Int
        OBVIOUS
      <4>2. IsFiniteSet(1 .. n) /\ Cardinality(1 .. n) = IF 1 > n THEN 0 ELSE n - 1 + 1
        BY <4>1, FS_Interval
      <4> QED
        BY <4>2
    <3> QED
      BY <1>3, <3>1
  <2>3. Cardinality(1 .. Len(r)) <= Cardinality(1 .. Len(s))
    BY <2>1, <2>2, FS_Injection
  <2> QED
    BY <2>2, <2>3
<1>6. ToSet(r) = ToSet(s) \cap S
  <2>1. ASSUME NEW x \in ToSet(r)
        PROVE  x \in ToSet(s) \cap S
    <3>1. PICK k \in 1 .. Len(r) : x = r[k]
      BY <1>3, <2>1 DEF ToSet
    <3>2. ix[k] \in 1 .. Len(s) /\ r[k] = s[ix[k]]
      BY <1>2, <1>4 DEF Picking
    <3>3. s[ix[k]] \in S
      BY <1>2, <3>2 DEF Picking
    <3> QED
      BY <1>3, <3>1, <3>2, <3>3 DEF ToSet
  <2>2. ASSUME NEW x \in ToSet(s), x \in S
        PROVE  x \in ToSet(r)
    <3>1. PICK i \in 1 .. Len(s) : x = s[i]
      BY <1>3, <2>2 DEF ToSet
    <3>2. PICK k \in 1 .. Len(r) : ix[k] = i
      BY <1>2, <2>2, <3>1 DEF Picking
    <3>3. r[k] = x
      BY <1>2, <3>1, <3>2 DEF Picking
    <3> QED
      BY <1>3, <3>3 DEF ToSet
  <2> QED
    BY <2>1, <2>2
<1>7. InOrderOf(r, s)
  <2> SUFFICES ASSUME NEW i \in 1 .. Len(r), NEW j \in 1 .. Len(r), i < j
               PROVE  \E k, l \in 1 .. Len(s) : k < l /\ r[i] = s[k] /\ r[j] = s[l]
    BY DEF InOrderOf
  <2>1. ix[i] \in 1 .. Len(s) /\ ix[j] \in 1 .. Len(s)
    BY <1>4
  <2>2. ix[i] < ix[j] /\ r[i] = s[ix[i]] /\ r[j] = s[ix[j]]
    BY <1>2 DEF Picking
  <2> QED
    BY <2>1, <2>2
<1> QED
  BY <1>1, <1>5, <1>6, <1>7 DEF r

LEMMA SubSeqKeeps ==
  ASSUME NEW X, NEW s \in Seq(X), NEW a \in Nat \ {0}, NEW b \in 0 .. Len(s), a <= b + 1
  PROVE  /\ SubSeq(s, a, b) \in Seq(X)
         /\ Len(SubSeq(s, a, b)) = b + 1 - a
         /\ \A i \in 1 .. b + 1 - a : SubSeq(s, a, b)[i] = s[a + i - 1]
         /\ ToSet(SubSeq(s, a, b)) = {s[i] : i \in a .. b}
         /\ InOrderOf(SubSeq(s, a, b), s)
<1> DEFINE r == SubSeq(s, a, b)
           n == b + 1 - a
<1>1. Len(s) \in Nat /\ b \in Nat /\ n \in Nat /\ \A i \in 1 .. n : a + i - 1 \in 1 .. Len(s)
  BY LenProperties
<1>2. \A i \in a .. b : s[i] \in X
  BY <1>1, ElementOfSeq
<1>3. r \in Seq(X) /\ Len(r) = n /\ \A i \in 1 .. n : r[i] = s[a + i - 1]
  <2>1. CASE a <= b
    <3>1. a \in 1 .. Len(s) + 1 /\ b \in a - 1 .. Len(s)
      BY <1>1, <2>1
    <3> QED
      BY <3>1, SubSeqProperties
  <2>2. CASE a = b + 1
    <3>1. a \in 1 .. Len(s) + 1 /\ b \in a - 1 .. Len(s)
      BY <1>1, <2>2
    <3> QED
      BY <3>1, SubSeqProperties
  <2> QED
    BY <1>1, <2>1, <2>2
<1>4. DOMAIN r = 1 .. n
  <2> HIDE DEF r, n
  <2> QED
    BY <1>3, LenProperties
<1>5. ToSet(r) = {s[i] : i \in a .. b}
  <2>1. \A i \in a .. b : i - a + 1 \in 1 .. n /\ a + (i - a + 1) - 1 = i
    BY <1>1
  <2>2. \A i \in 1 .. n : a + i - 1 \in a .. b
    BY <1>1
  <2>3. ToSet(r) = {r[i] : i \in 1 .. n}
    BY <1>4 DEF ToSet
  <2> HIDE DEF r, n
  <2>4. ToSet(r) = {s[a + i - 1] : i \in 1 .. n}
    BY <1>3, <2>3
  <2>5. ASSUME NEW i \in a .. b
        PROVE  s[i] \in {s[a + k - 1] : k \in 1 .. n}
    BY <2>1
  <2>6. ASSUME NEW k \in 1 .. n
        PROVE  s[a + k - 1] \in {s[i] : i \in a .. b}
    BY <2>2
  <2> QED
    BY <2>4, <2>5, <2>6
<1>6. InOrderOf(r, s)
  <2> SUFFICES ASSUME NEW i \in 1 .. n, NEW j \in 1 .. n, i < j
               PROVE  \E k, l \in 1 .. Len(s) : k < l /\ r[i] = s[k] /\ r[j] = s[l]
    <3> HIDE DEF r, n
    <3> QED
      BY <1>3 DEF InOrderOf
  <2>1. a + i - 1 \in 1 .. Len(s) /\ a + j - 1 \in 1 .. Len(s) /\ a + i - 1 < a + j - 1
    BY <1>1
  <2>2. r[i] = s[a + i - 1] /\ r[j] = s[a + j - 1]
    BY <1>3
  <2> HIDE DEF r, n
  <2> QED
    BY <2>1, <2>2
<1> QED
  <2> HIDE DEF r
  <2>1. r \in Seq(X) /\ Len(r) = b + 1 - a
        /\ \A i \in 1 .. b + 1 - a : r[i] = s[a + i - 1]
    BY <1>3
  <2> QED
    BY <1>5, <1>6, <2>1 DEF r

-----------------------------------------------------------------------------
(* Division: the request that a record is in.                              *)

LEMMA Division ==
  ASSUME NEW a \in Nat, NEW m \in Nat \ {0}
  PROVE  /\ a \div m \in Nat
         /\ m * (a \div m) <= a
         /\ a < m * (a \div m) + m
OBVIOUS

LEMMA RequestOf ==
  ASSUME NEW len \in Nat, NEW m \in Nat \ {0}, NEW j \in 1 .. len
  PROVE  (j - 1) \div m + 1 \in 1 .. (len + m - 1) \div m
<1> DEFINE q == (j - 1) \div m
           p == (len + m - 1) \div m
<1>1. q \in Nat /\ m * q <= j - 1
  <2>1. j - 1 \in Nat
    OBVIOUS
  <2> QED
    BY <2>1, Division
<1>2. p \in Nat /\ len + m - 1 < m * p + m
  <2>1. len + m - 1 \in Nat
    OBVIOUS
  <2> QED
    BY <2>1, Division
<1> HIDE DEF p, q
<1>3. m * q + m < m * p + m
  BY <1>1, <1>2
<1>4. q < p
  <2>1. ASSUME p <= q
        PROVE  FALSE
    <3>1. PICK d \in Nat : q = p + d
      <4>1. q - p \in Nat /\ q = p + (q - p)
        BY <1>1, <1>2, <2>1
      <4> QED
        BY <4>1
    <3>2. m * q = m * p + m * d /\ m * d \in Nat
      BY <1>2, <3>1
    <3> QED
      BY <1>1, <1>2, <1>3, <3>2
  <2> QED
    BY <1>1, <1>2, <2>1
<1>5. q + 1 \in 1 .. p
  BY <1>1, <1>2, <1>4
<1> QED
  BY <1>5 DEF p, q

-----------------------------------------------------------------------------
(* The assembler.                                                          *)

Entry == [n : Nat, batch : Batches, kind : Kinds, at : Nat]
Batch == [id : Batches, root : SUBSET Nat, kids : Seq(Nat), touched : Nat]

(* A batch is made of entries of es, each once, and its root is one; it    *)
(* was last touched when the newest of them arrived.                       *)
Whole(b, es) ==
  /\ Members(b) # {}
  /\ Members(b) \subseteq DOMAIN es
  /\ \A n \in b.root : es[n].kind = "root"
  /\ \A i, j \in 1 .. Len(b.kids) : i < j => b.kids[i] # b.kids[j]
  /\ \A n \in Members(b) : es[n].at <= b.touched
  /\ \E n \in Members(b) : es[n].at = b.touched

(* The batches of a sequence are whole and have no entry in common.        *)
Orderly(s, es) ==
  /\ \A b \in ToSet(s) : Whole(b, es)
  /\ \A i, j \in 1 .. Len(s) : i < j => Members(s[i]) \cap Members(s[j]) = {}

(* Open batches have ids of their own, the least recently touched first.   *)
Sorted(s) ==
  \A i, j \in 1 .. Len(s) : i < j => s[i].id # s[j].id /\ s[i].touched <= s[j].touched

(* What batch b is once it has taken entry e.                              *)
Taking(b, e) ==
  LET roots == e.kind = "root" /\ b.root = {}
  IN  [b EXCEPT !.root = IF roots THEN {e.n} ELSE @,
                !.kids = IF roots THEN @ ELSE Append(@, e.n),
                !.touched = now]

EntriesOf(s) == UNION {Members(b) : b \in ToSet(s)}

LEMMA SeqFacts ==
  ASSUME NEW X, NEW s \in Seq(X)
  PROVE  /\ Len(s) \in Nat /\ DOMAIN s = 1 .. Len(s)
         /\ \A i \in 1 .. Len(s) : s[i] \in X
         /\ ToSet(s) = {s[i] : i \in 1 .. Len(s)}
         /\ ToSet(s) \subseteq X
         /\ \A b \in ToSet(s) : \E i \in 1 .. Len(s) : b = s[i]
<1>1. Len(s) \in Nat /\ DOMAIN s = 1 .. Len(s) /\ \A i \in 1 .. Len(s) : s[i] \in X
  BY LenProperties, ElementOfSeq
<1> QED
  BY <1>1 DEF ToSet

LEMMA AppendFacts ==
  ASSUME NEW X, NEW s \in Seq(X), NEW x \in X
  PROVE  /\ Append(s, x) \in Seq(X)
         /\ Len(Append(s, x)) = Len(s) + 1
         /\ \A i \in 1 .. Len(s) : Append(s, x)[i] = s[i]
         /\ Append(s, x)[Len(s) + 1] = x
         /\ ToSet(Append(s, x)) = ToSet(s) \cup {x}
<1> DEFINE r == Append(s, x)
<1>1. /\ r \in Seq(X) /\ Len(r) = Len(s) + 1 /\ r[Len(s) + 1] = x
      /\ \A i \in 1 .. Len(s) : r[i] = s[i]
  BY AppendProperties
<1>2. Len(s) \in Nat /\ ToSet(s) = {s[i] : i \in 1 .. Len(s)}
  BY SeqFacts
<1>3. ToSet(r) = {r[i] : i \in 1 .. Len(s) + 1}
  <2> HIDE DEF r
  <2> QED
    BY <1>1, SeqFacts
<1>4. \A i \in 1 .. Len(s) + 1 : i \in 1 .. Len(s) \/ i = Len(s) + 1
  BY <1>2
<1>5. \A i \in 1 .. Len(s) : i \in 1 .. Len(s) + 1
  BY <1>2
<1>6. Len(s) + 1 \in 1 .. Len(s) + 1
  BY <1>2
<1> HIDE DEF r
<1>7. ToSet(r) = ToSet(s) \cup {x}
  <2>1. ASSUME NEW y \in ToSet(r)
        PROVE  y \in ToSet(s) \cup {x}
    BY <1>1, <1>2, <1>3, <1>4, <2>1
  <2>2. ASSUME NEW y \in ToSet(s) \cup {x}
        PROVE  y \in ToSet(r)
    <3>1. CASE y = x
      BY <1>1, <1>3, <1>6, <3>1
    <3>2. CASE y \in ToSet(s)
      <4>1. PICK i \in 1 .. Len(s) : y = s[i]
        BY <1>2, <3>2
      <4> QED
        BY <1>1, <1>3, <1>5, <4>1
    <3> QED
      BY <2>2, <3>1, <3>2
  <2> QED
    BY <2>1, <2>2
<1> QED
  BY <1>1, <1>7 DEF r

LEMMA TakingIs ==
  ASSUME NEW b \in Batch, NEW e \in Entry, now \in Nat
  PROVE  /\ Taking(b, e) \in Batch
         /\ Taking(b, e).id = b.id
         /\ Taking(b, e).touched = now
         /\ \/ /\ e.kind = "root" /\ b.root = {}
               /\ Taking(b, e).root = {e.n}
               /\ Taking(b, e).kids = b.kids
            \/ /\ Taking(b, e).root = b.root
               /\ Taking(b, e).kids = Append(b.kids, e.n)
<1>1. CASE e.kind = "root" /\ b.root = {}
  <2>1. PICK root \in SUBSET Nat : root = {e.n}
    BY DEF Entry
  <2>2. Taking(b, e) = [b EXCEPT !.root = root, !.touched = now]
    BY <1>1, <2>1 DEF Taking, Batch
  <2>3. /\ Taking(b, e) \in Batch /\ Taking(b, e).id = b.id /\ Taking(b, e).touched = now
        /\ Taking(b, e).root = root /\ Taking(b, e).kids = b.kids
    BY <2>2 DEF Batch
  <2> QED
    BY <1>1, <2>1, <2>3
<1>2. CASE ~(e.kind = "root" /\ b.root = {})
  <2>1. PICK kids : kids = Append(b.kids, e.n)
    OBVIOUS
  <2>4. Taking(b, e) = [b EXCEPT !.kids = kids, !.touched = now]
    BY <1>2, <2>1 DEF Taking, Batch
  <2>2. b.kids \in Seq(Nat) /\ e.n \in Nat
    BY DEF Entry, Batch
  <2>3. kids \in Seq(Nat)
    BY <2>1, <2>2, AppendFacts
  <2>5. /\ Taking(b, e) \in Batch /\ Taking(b, e).id = b.id /\ Taking(b, e).touched = now
        /\ Taking(b, e).root = b.root /\ Taking(b, e).kids = kids
    BY <2>3, <2>4 DEF Batch
  <2> QED
    BY <2>1, <2>5
<1> QED
  BY <1>1, <1>2

(* Taking an entry that has just arrived.                                  *)
LEMMA TakingKeeps ==
  ASSUME NEW es \in Seq(Entry), NEW b \in Batch, NEW e \in Entry,
         now \in Nat, b.touched <= now,
         (b.root = {} /\ b.kids = <<>>) \/ Whole(b, es),
         e.n \in DOMAIN es, es[e.n].kind = e.kind, es[e.n].at = now,
         e.n \notin Members(b)
  PROVE  /\ Taking(b, e) \in Batch
         /\ Taking(b, e).id = b.id
         /\ Taking(b, e).touched = now
         /\ Members(Taking(b, e)) = Members(b) \cup {e.n}
         /\ Whole(Taking(b, e), es)
<1> DEFINE g == Taking(b, e)
<1>1. b.kids \in Seq(Nat) /\ e.n \in Nat
  BY DEF Batch, Entry
<1>2. /\ g \in Batch /\ g.id = b.id /\ g.touched = now
      /\ \/ e.kind = "root" /\ b.root = {} /\ g.root = {e.n} /\ g.kids = b.kids
         \/ g.root = b.root /\ g.kids = Append(b.kids, e.n)
  BY TakingIs
<1> HIDE DEF g
<1>3. /\ Append(b.kids, e.n) \in Seq(Nat)
      /\ Len(Append(b.kids, e.n)) = Len(b.kids) + 1
      /\ \A i \in 1 .. Len(b.kids) : Append(b.kids, e.n)[i] = b.kids[i]
      /\ Append(b.kids, e.n)[Len(b.kids) + 1] = e.n
      /\ ToSet(Append(b.kids, e.n)) = ToSet(b.kids) \cup {e.n}
  BY <1>1, AppendFacts
<1>5. Members(g) = Members(b) \cup {e.n}
  BY <1>2, <1>3 DEF Members
<1>6. b.root = {} /\ b.kids = <<>> => Members(b) = {}
  BY DEF Members, ToSet
<1>7. Whole(g, es)
  <2>1. Members(g) # {} /\ Members(g) \subseteq DOMAIN es
    BY <1>5, <1>6 DEF Whole
  <2>2. \A n \in g.root : es[n].kind = "root"
    BY <1>2 DEF Whole
  <2>3. \A i, j \in 1 .. Len(g.kids) : i < j => g.kids[i] # g.kids[j]
    <3>1. \A i, j \in 1 .. Len(b.kids) : i < j => b.kids[i] # b.kids[j]
      BY DEF Whole
    <3>2. CASE g.kids = b.kids
      BY <1>2, <3>1, <3>2
    <3>3. CASE g.kids = Append(b.kids, e.n)
      <4>1. Len(b.kids) \in Nat
        BY <1>1, SeqFacts
      <4>2. \A i \in 1 .. Len(b.kids) : b.kids[i] # e.n
        <5> TAKE i \in 1 .. Len(b.kids)
        <5>1. b.kids[i] \in ToSet(b.kids)
          BY <1>1, SeqFacts
        <5> QED
          BY <5>1 DEF Members
      <4> SUFFICES ASSUME NEW i \in 1 .. Len(b.kids) + 1, NEW j \in 1 .. Len(b.kids) + 1, i < j
                   PROVE  g.kids[i] # g.kids[j]
        BY <1>2, <1>3, <3>3
      <4>3. i \in 1 .. Len(b.kids)
        BY <4>1
      <4>4. j \in 1 .. Len(b.kids) \/ j = Len(b.kids) + 1
        BY <4>1
      <4> QED
        BY <1>3, <3>1, <3>3, <4>2, <4>3, <4>4
    <3> QED
      BY <1>2, <3>2, <3>3
  <2>4. \A n \in Members(g) : es[n].at <= g.touched
    <3> TAKE n \in Members(g)
    <3>1. CASE n = e.n
      BY <1>2, <3>1
    <3>2. CASE n # e.n
      <4>1. n \in Members(b) /\ es[n].at <= b.touched /\ n \in DOMAIN es
        BY <1>5, <1>6, <3>2 DEF Whole
      <4>2. es[n].at \in Nat /\ b.touched \in Nat
        <5>1. es[n] \in Entry
          BY <4>1, SeqFacts
        <5> QED
          BY <5>1 DEF Entry, Batch
      <4> QED
        BY <1>2, <4>1, <4>2
    <3> QED
      BY <3>1, <3>2
  <2>5. \E n \in Members(g) : es[n].at = g.touched
    BY <1>2, <1>5
  <2> QED
    BY <2>1, <2>2, <2>3, <2>4, <2>5 DEF Whole
<1> QED
  BY <1>2, <1>5, <1>7 DEF g

LEMMA AcceptIs ==
  ASSUME NEW o, NEW e
  PROVE  LET mine == {b \in ToSet(o) : b.id = e.batch}
         IN  Accept(o, e) =
               Append(Where(o, ToSet(o) \ mine),
                      Taking(IF mine = {} THEN [id |-> e.batch, root |-> {}, kids |-> <<>>,
                                                touched |-> now]
                             ELSE CHOOSE b \in mine : TRUE, e))
BY DEF Accept, Taking

(* Two batches of an orderly sequence have no entry in common.             *)
LEMMA OrderlyApart ==
  ASSUME NEW s \in Seq(Batch), NEW es, Orderly(s, es),
         NEW b \in ToSet(s), NEW c \in ToSet(s), b # c
  PROVE  Members(b) \cap Members(c) = {}
<1>1. PICK i \in 1 .. Len(s) : b = s[i]
  BY SeqFacts
<1>2. PICK j \in 1 .. Len(s) : c = s[j]
  BY SeqFacts
<1>3. i < j \/ j < i
  BY <1>1, <1>2
<1> QED
  BY <1>1, <1>2, <1>3 DEF Orderly

(* A sequence that keeps the order of another one is as good.              *)
LEMMA InOrderKeeps ==
  ASSUME NEW s \in Seq(Batch), NEW r \in Seq(Batch), NEW es, Orderly(s, es),
         InOrderOf(r, s), ToSet(r) \subseteq ToSet(s)
  PROVE  /\ Orderly(r, es)
         /\ Sorted(s) => Sorted(r)
<1>1. \A i, j \in 1 .. Len(r) : i < j => Members(r[i]) \cap Members(r[j]) = {}
  <2> SUFFICES ASSUME NEW i \in 1 .. Len(r), NEW j \in 1 .. Len(r), i < j
               PROVE  Members(r[i]) \cap Members(r[j]) = {}
    OBVIOUS
  <2>1. PICK k, l \in 1 .. Len(s) : k < l /\ r[i] = s[k] /\ r[j] = s[l]
    BY DEF InOrderOf
  <2> QED
    BY <2>1 DEF Orderly
<1>2. ASSUME Sorted(s)
      PROVE  Sorted(r)
  <2> SUFFICES ASSUME NEW i \in 1 .. Len(r), NEW j \in 1 .. Len(r), i < j
               PROVE  r[i].id # r[j].id /\ r[i].touched <= r[j].touched
    BY DEF Sorted
  <2>1. PICK k, l \in 1 .. Len(s) : k < l /\ r[i] = s[k] /\ r[j] = s[l]
    BY DEF InOrderOf
  <2> QED
    BY <1>2, <2>1 DEF Sorted
<1>3. \A b \in ToSet(r) : Whole(b, es)
  BY DEF Orderly
<1> QED
  BY <1>1, <1>2, <1>3 DEF Orderly

(* What the batches of s have become in q.                                 *)
Grown(s, q) ==
  \A b \in ToSet(s) : \E c \in ToSet(q) :
    Members(b) \subseteq Members(c) /\ b.touched <= c.touched

(* The batches are as they should be at this time.                         *)
Sound(s, es) ==
  /\ s \in Seq(Batch)
  /\ Orderly(s, es)
  /\ Sorted(s)
  /\ \A b \in ToSet(s) : b.touched <= now

LEMMA AcceptKeeps ==
  ASSUME NEW es \in Seq(Entry), NEW o, Sound(o, es), now \in Nat,
         NEW e \in Entry, e.n \in DOMAIN es, es[e.n].kind = e.kind, es[e.n].at = now,
         e.n \notin EntriesOf(o)
  PROVE  /\ Sound(Accept(o, e), es)
         /\ EntriesOf(Accept(o, e)) = EntriesOf(o) \cup {e.n}
         /\ Grown(o, Accept(o, e))
<1> DEFINE mine == {b \in ToSet(o) : b.id = e.batch}
           rest == Where(o, ToSet(o) \ mine)
           first == [id |-> e.batch, root |-> {}, kids |-> <<>>, touched |-> now]
           old == IF mine = {} THEN first ELSE CHOOSE b \in mine : TRUE
           g == Taking(old, e)
           q == Accept(o, e)
<1>1. q = Append(rest, g)
  BY AcceptIs
<1>2. o \in Seq(Batch) /\ Orderly(o, es) /\ Sorted(o) /\ \A b \in ToSet(o) : b.touched <= now
  BY DEF Sound
<1>3. ToSet(o) \subseteq Batch /\ \A b \in ToSet(o) : \E i \in 1 .. Len(o) : b = o[i]
  BY <1>2, SeqFacts
<1>4. rest \in Seq(Batch) /\ ToSet(rest) = ToSet(o) \ mine /\ InOrderOf(rest, o)
  <2>1. /\ rest \in Seq(Batch) /\ ToSet(rest) = ToSet(o) \cap (ToSet(o) \ mine)
        /\ InOrderOf(rest, o)
    <3> HIDE DEF mine
    <3> QED
      BY <1>2, WhereKeeps
  <2> QED
    BY <2>1
<1>5. Orderly(rest, es) /\ Sorted(rest)
  <2> HIDE DEF rest
  <2> QED
    BY <1>2, <1>4, InOrderKeeps
<1>6. /\ old \in Batch /\ old.id = e.batch /\ old.touched <= now
      /\ ((old.root = {} /\ old.kids = <<>>) \/ Whole(old, es))
      /\ e.n \notin Members(old)
      /\ mine # {} => old \in mine
      /\ mine = {} => Members(old) = {}
  <2>1. CASE mine = {}
    <3>1. old = first
      BY <2>1
    <3>2. first \in Batch /\ first.id = e.batch /\ first.touched = now
            /\ first.root = {} /\ first.kids = <<>>
      BY DEF Batch, Entry
    <3>3. Members(first) = {}
      BY <3>2 DEF Members, ToSet
    <3> HIDE DEF first, mine, old
    <3> QED
      BY <2>1, <3>1, <3>2, <3>3
  <2>2. CASE mine # {}
    <3>1. old \in mine
      <4> HIDE DEF mine
      <4> QED
        BY <2>2
    <3>2. old \in ToSet(o) /\ old.id = e.batch
      <4> HIDE DEF old
      <4> QED
        BY <3>1
    <3> HIDE DEF old, mine
    <3>3. Whole(old, es) /\ e.n \notin Members(old)
      BY <1>2, <3>2 DEF Orderly, EntriesOf
    <3> QED
      BY <1>2, <1>3, <2>2, <3>1, <3>2, <3>3
  <2> QED
    BY <2>1, <2>2
<1> HIDE DEF old
<1>7. /\ g \in Batch /\ g.id = e.batch /\ g.touched = now
      /\ Members(g) = Members(old) \cup {e.n} /\ Whole(g, es)
  BY <1>6, TakingKeeps
<1> HIDE DEF g, rest, q
<1>8. /\ q \in Seq(Batch) /\ Len(q) = Len(rest) + 1
      /\ \A i \in 1 .. Len(rest) : q[i] = rest[i]
      /\ q[Len(rest) + 1] = g /\ ToSet(q) = ToSet(rest) \cup {g}
  BY <1>1, <1>4, <1>7, AppendFacts
<1>9. Len(rest) \in Nat /\ \A i \in 1 .. Len(rest) : rest[i] \in ToSet(rest)
  BY <1>4, SeqFacts
<1>10. \A b \in ToSet(rest) : b \in ToSet(o) /\ b.id # e.batch
  BY <1>4
<1>11. mine # {} => \A b \in mine : b = old
  <2> SUFFICES ASSUME NEW b \in mine, mine # {}
               PROVE  b = old
    OBVIOUS
  <2>1. old \in mine
    BY <1>6
  <2>2. PICK i \in 1 .. Len(o) : b = o[i]
    BY <1>3
  <2>3. PICK j \in 1 .. Len(o) : old = o[j]
    BY <1>3, <2>1
  <2>4. o[i].id = e.batch /\ o[j].id = e.batch
    BY <2>1, <2>2, <2>3
  <2>5. ~(i < j) /\ ~(j < i)
    BY <1>2, <2>4 DEF Sorted
  <2>6. i = j
    BY <2>5
  <2> QED
    BY <2>2, <2>3, <2>6
<1>12. \A b \in ToSet(rest) : Members(b) \cap Members(g) = {}
  <2> TAKE b \in ToSet(rest)
  <2>1. b \in ToSet(o) /\ b.id # e.batch
    BY <1>10
  <2>2. e.n \notin Members(b)
    BY <2>1 DEF EntriesOf
  <2>3. Members(b) \cap Members(old) = {}
    <3>1. CASE mine = {}
      BY <1>6, <3>1
    <3>2. CASE mine # {}
      <4>1. old \in ToSet(o) /\ b # old
        BY <1>6, <2>1, <3>2
      <4> QED
        BY <1>2, <2>1, <4>1, OrderlyApart
    <3> QED
      BY <3>1, <3>2
  <2> QED
    BY <1>7, <2>2, <2>3
<1>13. Orderly(q, es)
  <2>1. \A b \in ToSet(q) : Whole(b, es)
    BY <1>5, <1>7, <1>8 DEF Orderly
  <2>2. ASSUME NEW i \in 1 .. Len(q), NEW j \in 1 .. Len(q), i < j
        PROVE  Members(q[i]) \cap Members(q[j]) = {}
    <3>1. i \in 1 .. Len(rest) /\ (j \in 1 .. Len(rest) \/ j = Len(rest) + 1)
      BY <1>8, <1>9, <2>2
    <3>2. CASE j \in 1 .. Len(rest)
      BY <1>5, <1>8, <2>2, <3>1, <3>2 DEF Orderly
    <3>3. CASE j = Len(rest) + 1
      BY <1>8, <1>9, <1>12, <3>1, <3>3
    <3> QED
      BY <3>1, <3>2, <3>3
  <2> QED
    BY <2>1, <2>2 DEF Orderly
<1>14. Sorted(q)
  <2> SUFFICES ASSUME NEW i \in 1 .. Len(q), NEW j \in 1 .. Len(q), i < j
               PROVE  q[i].id # q[j].id /\ q[i].touched <= q[j].touched
    BY DEF Sorted
  <2>1. i \in 1 .. Len(rest) /\ (j \in 1 .. Len(rest) \/ j = Len(rest) + 1)
    BY <1>8, <1>9
  <2>2. CASE j \in 1 .. Len(rest)
    BY <1>5, <1>8, <2>1, <2>2 DEF Sorted
  <2>3. CASE j = Len(rest) + 1
    <3>1. q[i] \in ToSet(rest) /\ q[j] = g
      BY <1>8, <1>9, <2>1, <2>3
    <3>2. q[i].id # e.batch /\ q[i].touched <= now
      BY <1>2, <1>10, <3>1
    <3> QED
      BY <1>7, <3>1, <3>2
  <2> QED
    BY <2>1, <2>2, <2>3
<1>15. \A b \in ToSet(q) : b.touched <= now
  BY <1>2, <1>7, <1>8, <1>10
<1>16. \A b \in ToSet(o) : b \in ToSet(rest) \/ b \in mine
  BY <1>4
<1>17. EntriesOf(q) = EntriesOf(o) \cup {e.n}
  <2>1. ASSUME NEW n \in EntriesOf(q)
        PROVE  n \in EntriesOf(o) \cup {e.n}
    <3>1. PICK b \in ToSet(q) : n \in Members(b)
      BY <2>1 DEF EntriesOf
    <3>2. CASE b \in ToSet(rest)
      BY <1>10, <3>1, <3>2 DEF EntriesOf
    <3>3. CASE b = g
      BY <1>6, <1>7, <3>1, <3>3 DEF EntriesOf
    <3> QED
      BY <1>8, <3>1, <3>2, <3>3
  <2>2. e.n \in EntriesOf(q)
    BY <1>7, <1>8 DEF EntriesOf
  <2>3. ASSUME NEW n \in EntriesOf(o)
        PROVE  n \in EntriesOf(q)
    <3>1. PICK b \in ToSet(o) : n \in Members(b)
      BY <2>3 DEF EntriesOf
    <3>2. CASE b \in ToSet(rest)
      BY <1>8, <3>1, <3>2 DEF EntriesOf
    <3>3. CASE b \in mine
      BY <1>7, <1>8, <1>11, <3>1, <3>3 DEF EntriesOf
    <3> QED
      BY <1>16, <3>1, <3>2, <3>3
  <2> QED
    BY <2>1, <2>2, <2>3
<1>18. Grown(o, q)
  <2> SUFFICES ASSUME NEW b \in ToSet(o)
               PROVE  \E c \in ToSet(q) : Members(b) \subseteq Members(c) /\ b.touched <= c.touched
    BY DEF Grown
  <2>1. CASE b \in ToSet(rest)
    <3>1. b.touched <= b.touched
      BY <1>3 DEF Batch
    <3> QED
      BY <1>8, <2>1, <3>1
  <2>2. CASE b \in mine
    <3>1. Members(b) \subseteq Members(g) /\ b.touched <= g.touched /\ g \in ToSet(q)
      BY <1>2, <1>7, <1>8, <1>11, <2>2
    <3> QED
      BY <3>1
  <2> QED
    BY <1>16, <2>1, <2>2
<1> QED
  BY <1>8, <1>13, <1>14, <1>15, <1>17, <1>18 DEF Sound, q

LEMMA AcceptType ==
  ASSUME NEW o \in Seq(Batch), NEW e \in Entry, now \in Nat
  PROVE  Accept(o, e) \in Seq(Batch)
<1> DEFINE mine == {b \in ToSet(o) : b.id = e.batch}
           rest == Where(o, ToSet(o) \ mine)
           first == [id |-> e.batch, root |-> {}, kids |-> <<>>, touched |-> now]
           old == IF mine = {} THEN first ELSE CHOOSE b \in mine : TRUE
           g == Taking(old, e)
<1>1. Accept(o, e) = Append(rest, g)
  BY AcceptIs
<1>2. rest \in Seq(Batch)
  <2> HIDE DEF mine
  <2> QED
    BY WhereKeeps
<1>3. old \in Batch
  <2>1. first \in Batch
    BY DEF Batch, Entry
  <2>2. mine \subseteq Batch
    BY SeqFacts
  <2> HIDE DEF first, mine
  <2> QED
    BY <2>1, <2>2
<1>4. g \in Batch
  <2> HIDE DEF old
  <2> QED
    BY <1>3, TakingIs
<1> HIDE DEF g, rest
<1> QED
  BY <1>1, <1>2, <1>4, AppendFacts

(* The assembler after each entry of a flush.                              *)
Accepting(u, tk) ==
  \A k \in 1 .. Len(tk) : u[k] = Accept(u[k - 1], tk[k])

LEMMA AcceptUnfolds ==
  ASSUME NEW o \in Seq(Batch), NEW tk \in Seq(Entry), now \in Nat
  PROVE  \E u \in [0 .. Len(tk) -> Seq(Batch)] :
           FoldLeft(Accept, o, tk) = u[Len(tk)] /\ u[0] = o /\ Accepting(u, tk)
<1> DEFINE n == Len(tk)
           Eq(h) == h = [s \in SUBSET (1 .. n) |->
                           IF s = {} THEN o ELSE Accept(h[s \ {Max(s)}], tk[Max(s)])]
           it == CHOOSE h : Eq(h)
           op == [x \in Seq(Batch) \X (1 .. n) |-> Accept(x[1], tk[x[2]])]
<1>1. n \in Nat /\ DOMAIN tk = 1 .. n /\ \A k \in 1 .. n : tk[k] \in Entry
  BY SeqFacts
<1>2. FoldLeft(Accept, o, tk) = it[1 .. n]
  <2>1. FoldLeft(Accept, o, tk) =
          (CHOOSE h : h = [s \in SUBSET (DOMAIN tk) |->
             IF s = {} THEN o ELSE Accept(h[s \ {Max(s)}], tk[Max(s)])])[DOMAIN tk]
    BY DEF FoldLeft, MapThenFoldSet
  <2> QED
    BY <1>1, <2>1
<1>3. \A s \in SUBSET (1 .. n) : s # {} => Max(s) \in 1 .. n
  <2> TAKE s \in SUBSET (1 .. n)
  <2>1. s \in SUBSET (0 .. n)
    BY <1>1
  <2> QED
    BY <1>1, <2>1, MaxOf
<1>4. \A q \in Seq(Batch), k \in 1 .. n : Accept(q, tk[k]) \in Seq(Batch)
  BY <1>1, AcceptType
<1>5. Eq(it)
  <2>1. op \in [Seq(Batch) \X (1 .. n) -> Seq(Batch)]
    BY <1>4
  <2>2. PICK h \in [SUBSET (1 .. n) -> Seq(Batch)] : Unfolds(h, n, o, op)
    <3> HIDE DEF op, n
    <3> QED
      BY <1>1, <2>1, Folding
  <2>3. ASSUME NEW s \in SUBSET (1 .. n), s # {}
        PROVE  op[<<h[s \ {Max(s)}], Max(s)>>] = Accept(h[s \ {Max(s)}], tk[Max(s)])
    <3>1. Max(s) \in 1 .. n /\ h[s \ {Max(s)}] \in Seq(Batch)
      BY <1>3, <2>2, <2>3
    <3> QED
      BY <3>1
  <2>4. \A s \in SUBSET (1 .. n) :
          h[s] = IF s = {} THEN o ELSE Accept(h[s \ {Max(s)}], tk[Max(s)])
    <3> HIDE DEF op, n
    <3> QED
      BY <2>2, <2>3 DEF Unfolds
  <2>5. Eq(h)
    <3> HIDE DEF n
    <3> QED
      BY <2>2, <2>4
  <2> HIDE DEF Eq
  <2> QED
    BY <2>5
<1> HIDE DEF it
<1> DEFINE u == [k \in 0 .. n |-> it[1 .. k]]
<1>6. u[0] = o /\ u[n] = it[1 .. n]
  <2>1. 1 .. 0 = {} /\ {} \in SUBSET (1 .. n) /\ 0 \in 0 .. n /\ n \in 0 .. n
    BY <1>1
  <2>2. it[{}] = o
    <3> HIDE DEF n
    <3> QED
      BY <1>5, <2>1
  <2> HIDE DEF n
  <2> QED
    BY <2>1, <2>2
<1>7. ASSUME NEW k \in 1 .. n
      PROVE  u[k] = Accept(u[k - 1], tk[k])
  <2>1. Max(1 .. k) = k /\ (1 .. k) \ {k} = 1 .. k - 1 /\ 1 .. k # {}
    <3>1. k \in Nat \ {0}
      BY <1>1
    <3> QED
      BY <3>1, Prefix
  <2>2. 1 .. k \in SUBSET (1 .. n) /\ k - 1 \in 0 .. n /\ k \in 0 .. n
    BY <1>1
  <2>3. it[1 .. k] = Accept(it[1 .. k - 1], tk[k])
    <3> HIDE DEF n
    <3> QED
      BY <1>5, <2>1, <2>2
  <2> HIDE DEF n
  <2> QED
    BY <2>2, <2>3
<1>8. \A k \in 0 .. n : u[k] \in Seq(Batch)
  <2> DEFINE I == {k \in 0 .. n : u[k] \in Seq(Batch)}
  <2>1. 0 \in I
    <3>1. 0 \in 0 .. n
      BY <1>1
    <3> HIDE DEF n, u
    <3> QED
      BY <1>6, <3>1
  <2>2. ASSUME NEW k \in 0 .. n - 1, k \in I
        PROVE  k + 1 \in I
    <3>1. k + 1 \in 1 .. n /\ (k + 1) - 1 = k /\ k + 1 \in 0 .. n
      BY <1>1
    <3>2. u[k] \in Seq(Batch)
      BY <2>2
    <3> HIDE DEF u, n
    <3>3. u[k + 1] = Accept(u[k], tk[k + 1])
      BY <1>7, <3>1
    <3>4. u[k + 1] \in Seq(Batch)
      BY <1>4, <3>1, <3>2, <3>3
    <3> QED
      BY <3>1, <3>4
  <2> HIDE DEF I
  <2>3. \A k \in 0 .. n : k \in I
    BY <1>1, <2>1, <2>2, UpTo
  <2> QED
    BY <2>3 DEF I
<1>9. u \in [0 .. n -> Seq(Batch)]
  BY <1>8
<1>10. Accepting(u, tk)
  <2> HIDE DEF u
  <2> QED
    BY <1>7 DEF Accepting
<1> HIDE DEF u
<1> QED
  BY <1>2, <1>6, <1>9, <1>10

LEMMA GrownOn ==
  ASSUME NEW r \in Seq(Batch), NEW s \in Seq(Batch), NEW q \in Seq(Batch),
         Grown(r, s), Grown(s, q)
  PROVE  Grown(r, q)
<1> SUFFICES ASSUME NEW b \in ToSet(r)
             PROVE  \E d \in ToSet(q) : Members(b) \subseteq Members(d) /\ b.touched <= d.touched
  BY DEF Grown
<1>1. PICK c \in ToSet(s) : Members(b) \subseteq Members(c) /\ b.touched <= c.touched
  BY DEF Grown
<1>2. PICK d \in ToSet(q) : Members(c) \subseteq Members(d) /\ c.touched <= d.touched
  BY DEF Grown
<1>3. b \in Batch /\ c \in Batch /\ d \in Batch
  BY SeqFacts
<1>4. b.touched \in Nat /\ c.touched \in Nat /\ d.touched \in Nat
  BY <1>3 DEF Batch
<1>5. b.touched <= d.touched
  BY <1>1, <1>2, <1>4
<1> QED
  BY <1>1, <1>2, <1>5

(* A flush: the entries tk are what es has after its first f.              *)
LEMMA FlushKeeps ==
  ASSUME NEW es \in Seq(Entry), NEW o, Sound(o, es), now \in Nat,
         NEW f \in Nat, EntriesOf(o) \subseteq 1 .. f,
         NEW tk \in Seq(Entry), Len(es) = f + Len(tk),
         \A k \in 1 .. Len(tk) : tk[k].n = f + k /\ tk[k].at = now /\ es[f + k] = tk[k]
  PROVE  LET q == FoldLeft(Accept, o, tk)
         IN  /\ Sound(q, es)
             /\ EntriesOf(q) = EntriesOf(o) \cup (f + 1 .. f + Len(tk))
             /\ Grown(o, q)
<1> DEFINE n == Len(tk)
<1>1. /\ n \in Nat /\ o \in Seq(Batch) /\ DOMAIN es = 1 .. Len(es)
      /\ \A k \in 1 .. n : tk[k] \in Entry
  BY SeqFacts DEF Sound
<1>2. PICK u \in [0 .. n -> Seq(Batch)] :
        FoldLeft(Accept, o, tk) = u[n] /\ u[0] = o /\ Accepting(u, tk)
  BY <1>1, AcceptUnfolds
<1> DEFINE I == {k \in 0 .. n : /\ Sound(u[k], es)
                                /\ EntriesOf(u[k]) = EntriesOf(o) \cup (f + 1 .. f + k)
                                /\ Grown(o, u[k])}
<1>3. 0 \in I
  <2>1. 0 \in 0 .. n /\ f + 1 .. f + 0 = {}
    BY <1>1
  <2>2. Grown(o, o)
    <3>1. \A b \in ToSet(o) : b.touched <= b.touched
      <4> TAKE b \in ToSet(o)
      <4>1. b \in Batch
        BY <1>1, SeqFacts
      <4>2. b.touched \in Nat
        BY <4>1 DEF Batch
      <4> QED
        BY <4>2
    <3> QED
      BY <3>1 DEF Grown
  <2>3. /\ Sound(u[0], es) /\ Grown(o, u[0])
        /\ EntriesOf(u[0]) = EntriesOf(o) \cup (f + 1 .. f + 0)
    BY <1>2, <2>1, <2>2
  <2> HIDE DEF n
  <2> QED
    BY <2>1, <2>3
<1>4. ASSUME NEW k \in 0 .. n - 1, k \in I
      PROVE  k + 1 \in I
  <2>1. k + 1 \in 1 .. n /\ (k + 1) - 1 = k /\ k + 1 \in 0 .. n /\ k \in 0 .. n
    BY <1>1
  <2> DEFINE e == tk[k + 1]
  <2>2. Sound(u[k], es) /\ EntriesOf(u[k]) = EntriesOf(o) \cup (f + 1 .. f + k) /\ Grown(o, u[k])
    BY <1>4
  <2>3. u[k + 1] = Accept(u[k], e)
    BY <1>2, <2>1 DEF Accepting
  <2>4. e \in Entry /\ e.n = f + (k + 1) /\ e.at = now /\ es[f + (k + 1)] = e
    BY <1>1, <2>1
  <2>5. f + (k + 1) \in 1 .. Len(es) /\ f + (k + 1) \notin 1 .. f
          /\ f + (k + 1) \notin f + 1 .. f + k
    BY <1>1, <2>1
  <2> HIDE DEF e
  <2>6. /\ e.n \in DOMAIN es /\ es[e.n].kind = e.kind /\ es[e.n].at = now
        /\ e.n \notin EntriesOf(u[k])
    BY <1>1, <2>2, <2>4, <2>5
  <2>7. /\ Sound(u[k + 1], es) /\ Grown(u[k], u[k + 1])
        /\ EntriesOf(u[k + 1]) = EntriesOf(u[k]) \cup {e.n}
    BY <2>2, <2>3, <2>4, <2>6, AcceptKeeps
  <2>8. Grown(o, u[k + 1])
    BY <1>1, <2>2, <2>7, GrownOn DEF Sound
  <2>9. EntriesOf(u[k + 1]) = EntriesOf(o) \cup (f + 1 .. f + (k + 1))
    <3>1. (f + 1 .. f + k) \cup {f + (k + 1)} = f + 1 .. f + (k + 1)
      <4>1. PICK m \in Nat : m = f + k
        BY <1>1, <2>1
      <4>2. f + (k + 1) = m + 1 /\ f <= m
        BY <1>1, <2>1, <4>1
      <4>3. (f + 1 .. m) \cup {m + 1} = f + 1 .. m + 1
        <5>1. \A x \in f + 1 .. m + 1 : x \in f + 1 .. m \/ x = m + 1
          OBVIOUS
        <5>2. m + 1 \in f + 1 .. m + 1 /\ \A x \in f + 1 .. m : x \in f + 1 .. m + 1
          BY <4>2
        <5> QED
          BY <5>1, <5>2
      <4> QED
        BY <4>1, <4>2, <4>3
    <3> QED
      BY <2>2, <2>4, <2>7, <3>1
  <2> HIDE DEF n
  <2> QED
    BY <2>1, <2>7, <2>8, <2>9
<1> HIDE DEF I
<1>5. n \in I
  <2>1. \A k \in 0 .. n : k \in I
    BY <1>1, <1>3, <1>4, UpTo
  <2> QED
    BY <1>1, <2>1
<1> QED
  BY <1>2, <1>5 DEF I

(* What is open after a flush brings tk, before the ceiling.               *)
Opened(o, tk) == FoldLeft(Accept, o, tk)

(* The entries tk are the ones of es after the first f, arriving now.      *)
Arriving(tk, f, es) ==
  /\ Len(es) = f + Len(tk)
  /\ \A k \in 1 .. Len(tk) : tk[k].n = f + k /\ tk[k].at = now /\ es[f + k] = tk[k]

(* o was as it should be, and has entries before the f-th only.            *)
Before(o, f, es) == Sound(o, es) /\ EntriesOf(o) \subseteq 1 .. f

After(o, q, f, tk, es) ==
  /\ Sound(q, es)
  /\ EntriesOf(q) = EntriesOf(o) \cup (f + 1 .. f + Len(tk))
  /\ Grown(o, q)

LEMMA OpenedKeeps ==
  ASSUME now \in Nat, NEW es \in Seq(Entry), NEW tk \in Seq(Entry), NEW f \in Nat,
         NEW o, Before(o, f, es), Arriving(tk, f, es)
  PROVE  After(o, Opened(o, tk), f, tk, es)
<1>1. /\ Sound(o, es) /\ EntriesOf(o) \subseteq 1 .. f /\ Len(es) = f + Len(tk)
      /\ \A k \in 1 .. Len(tk) : tk[k].n = f + k /\ tk[k].at = now /\ es[f + k] = tk[k]
  BY DEF Before, Arriving
<1> QED
  BY <1>1, FlushKeeps DEF Opened, After

-----------------------------------------------------------------------------
(* Encoding.                                                               *)

Distinct(s) == \A i, j \in 1 .. Len(s) : i < j => s[i] # s[j]

(* Records of a section have no entry in common.                           *)
Apart(section) ==
  \A i, j \in 1 .. Len(section) : i < j => section[i] \cap section[j] = {}

LEMMA ConcatFacts ==
  ASSUME NEW X, NEW s \in Seq(X), NEW t \in Seq(X)
  PROVE  /\ s \o t \in Seq(X)
         /\ Len(s \o t) = Len(s) + Len(t)
         /\ \A i \in 1 .. Len(s) : (s \o t)[i] = s[i]
         /\ \A i \in 1 .. Len(t) : (s \o t)[Len(s) + i] = t[i]
         /\ \A i \in 1 .. Len(s) + Len(t) :
              i \in 1 .. Len(s) \/ \E k \in 1 .. Len(t) : i = Len(s) + k
         /\ ToSet(s \o t) = ToSet(s) \cup ToSet(t)
<1> DEFINE r == s \o t
<1>1. /\ Len(s) \in Nat /\ Len(t) \in Nat
      /\ ToSet(s) = {s[i] : i \in 1 .. Len(s)} /\ ToSet(t) = {t[i] : i \in 1 .. Len(t)}
  BY SeqFacts
<1>2. /\ r \in Seq(X) /\ Len(r) = Len(s) + Len(t)
      /\ \A i \in 1 .. Len(s) + Len(t) : r[i] = IF i <= Len(s) THEN s[i] ELSE t[i - Len(s)]
  BY ConcatProperties
<1> HIDE DEF r
<1>3. \A i \in 1 .. Len(s) : i \in 1 .. Len(s) + Len(t) /\ r[i] = s[i]
  BY <1>1, <1>2
<1>4. \A i \in 1 .. Len(t) : Len(s) + i \in 1 .. Len(s) + Len(t) /\ r[Len(s) + i] = t[i]
  <2> TAKE i \in 1 .. Len(t)
  <2>1. /\ Len(s) + i \in 1 .. Len(s) + Len(t) /\ ~(Len(s) + i <= Len(s))
        /\ (Len(s) + i) - Len(s) = i
    BY <1>1
  <2> QED
    BY <1>2, <2>1
<1>5. \A i \in 1 .. Len(s) + Len(t) :
        i \in 1 .. Len(s) \/ \E k \in 1 .. Len(t) : i = Len(s) + k
  <2> TAKE i \in 1 .. Len(s) + Len(t)
  <2>1. CASE i <= Len(s)
    BY <1>1, <2>1
  <2>2. CASE ~(i <= Len(s))
    <3>1. i - Len(s) \in 1 .. Len(t) /\ i = Len(s) + (i - Len(s))
      BY <1>1, <2>2
    <3> QED
      BY <3>1
  <2> QED
    BY <2>1, <2>2
<1>6. ToSet(r) = {r[i] : i \in 1 .. Len(s) + Len(t)}
  BY <1>2, SeqFacts
<1>7. ToSet(r) = ToSet(s) \cup ToSet(t)
  <2>1. ASSUME NEW x \in ToSet(r)
        PROVE  x \in ToSet(s) \cup ToSet(t)
    <3>1. PICK i \in 1 .. Len(s) + Len(t) : x = r[i]
      BY <1>6, <2>1
    <3>2. CASE i \in 1 .. Len(s)
      BY <1>1, <1>3, <3>1, <3>2
    <3>3. CASE \E k \in 1 .. Len(t) : i = Len(s) + k
      BY <1>1, <1>4, <3>1, <3>3
    <3> QED
      BY <1>5, <3>2, <3>3
  <2>2. ASSUME NEW x \in ToSet(s)
        PROVE  x \in ToSet(r)
    BY <1>1, <1>3, <1>6, <2>2
  <2>3. ASSUME NEW x \in ToSet(t)
        PROVE  x \in ToSet(r)
    BY <1>1, <1>4, <1>6, <2>3
  <2> QED
    BY <2>1, <2>2, <2>3
<1> QED
  BY <1>2, <1>3, <1>4, <1>5, <1>7 DEF r

LEMMA DistinctConcat ==
  ASSUME NEW X, NEW s \in Seq(X), NEW t \in Seq(X), Distinct(s), Distinct(t),
         ToSet(s) \cap ToSet(t) = {}
  PROVE  Distinct(s \o t)
<1> DEFINE r == s \o t
<1>1. /\ Len(s) \in Nat /\ Len(t) \in Nat
      /\ ToSet(s) = {s[i] : i \in 1 .. Len(s)} /\ ToSet(t) = {t[i] : i \in 1 .. Len(t)}
  BY SeqFacts
<1>2. /\ Len(r) = Len(s) + Len(t)
      /\ \A i \in 1 .. Len(s) : r[i] = s[i]
      /\ \A i \in 1 .. Len(t) : r[Len(s) + i] = t[i]
      /\ \A i \in 1 .. Len(s) + Len(t) :
           i \in 1 .. Len(s) \/ \E k \in 1 .. Len(t) : i = Len(s) + k
  BY ConcatFacts
<1> HIDE DEF r
<1> SUFFICES ASSUME NEW i \in 1 .. Len(r), NEW j \in 1 .. Len(r), i < j
             PROVE  r[i] # r[j]
  BY DEF Distinct, r
<1>3. CASE j \in 1 .. Len(s)
  <2>1. i \in 1 .. Len(s)
    BY <1>1, <1>3
  <2> QED
    BY <1>2, <1>3, <2>1 DEF Distinct
<1>4. CASE i \in 1 .. Len(s) /\ \E l \in 1 .. Len(t) : j = Len(s) + l
  <2>1. r[i] \in ToSet(s) /\ r[j] \in ToSet(t)
    BY <1>1, <1>2, <1>4
  <2> QED
    BY <2>1
<1>5. ASSUME NEW k \in 1 .. Len(t), NEW l \in 1 .. Len(t),
             i = Len(s) + k, j = Len(s) + l
      PROVE  r[i] # r[j]
  <2>1. k < l
    BY <1>1, <1>5
  <2> QED
    BY <1>2, <1>5, <2>1 DEF Distinct
<1> QED
  BY <1>2, <1>3, <1>4, <1>5

(* The logs after each batch.                                              *)
LogsOf(b) == Where(b.kids, IsKind("log"))
Logging(u, B) == \A k \in 1 .. Len(B) : u[k] = u[k - 1] \o LogsOf(B[k])

LEMMA LogsUnfold ==
  ASSUME NEW B \in Seq(Batch)
  PROVE  \E u \in [0 .. Len(B) -> Seq(Nat)] :
           Logs(B) = u[Len(B)] /\ u[0] = <<>> /\ Logging(u, B)
<1> DEFINE n == Len(B)
           Eq(h) == h = [s \in SUBSET (1 .. n) |->
                           IF s = {} THEN <<>> ELSE h[s \ {Max(s)}] \o LogsOf(B[Max(s)])]
           it == CHOOSE h : Eq(h)
           op == [x \in Seq(Nat) \X (1 .. n) |-> x[1] \o LogsOf(B[x[2]])]
<1>1. n \in Nat /\ DOMAIN B = 1 .. n /\ \A k \in 1 .. n : B[k] \in Batch
  BY SeqFacts
<1>2. Logs(B) = it[1 .. n]
  <2>1. Logs(B) =
          (CHOOSE h : h = [s \in SUBSET (DOMAIN B) |->
             IF s = {} THEN <<>>
             ELSE h[s \ {Max(s)}] \o Where(B[Max(s)].kids, IsKind("log"))])[DOMAIN B]
    BY DEF Logs, FoldLeft, MapThenFoldSet
  <2> QED
    BY <1>1, <2>1 DEF LogsOf
<1>3. \A s \in SUBSET (1 .. n) : s # {} => Max(s) \in 1 .. n
  <2> TAKE s \in SUBSET (1 .. n)
  <2>1. s \in SUBSET (0 .. n)
    BY <1>1
  <2> QED
    BY <1>1, <2>1, MaxOf
<1>4. \A q \in Seq(Nat), k \in 1 .. n : q \o LogsOf(B[k]) \in Seq(Nat)
  <2> TAKE q \in Seq(Nat), k \in 1 .. n
  <2>1. B[k].kids \in Seq(Nat)
    BY <1>1 DEF Batch
  <2>2. LogsOf(B[k]) \in Seq(Nat)
    BY <2>1, WhereKeeps DEF LogsOf
  <2> QED
    BY <2>2, ConcatFacts
<1>5. Eq(it)
  <2>1. op \in [Seq(Nat) \X (1 .. n) -> Seq(Nat)]
    BY <1>4
  <2>2. PICK h \in [SUBSET (1 .. n) -> Seq(Nat)] : Unfolds(h, n, <<>>, op)
    <3>1. <<>> \in Seq(Nat)
      OBVIOUS
    <3> HIDE DEF op, n
    <3> QED
      BY <1>1, <2>1, <3>1, Folding
  <2>3. ASSUME NEW s \in SUBSET (1 .. n), s # {}
        PROVE  op[<<h[s \ {Max(s)}], Max(s)>>] = h[s \ {Max(s)}] \o LogsOf(B[Max(s)])
    <3>1. Max(s) \in 1 .. n /\ h[s \ {Max(s)}] \in Seq(Nat)
      BY <1>3, <2>2, <2>3
    <3> QED
      BY <3>1
  <2>4. \A s \in SUBSET (1 .. n) :
          h[s] = IF s = {} THEN <<>> ELSE h[s \ {Max(s)}] \o LogsOf(B[Max(s)])
    <3> HIDE DEF op, n
    <3> QED
      BY <2>2, <2>3 DEF Unfolds
  <2>5. Eq(h)
    <3> HIDE DEF n
    <3> QED
      BY <2>2, <2>4
  <2> HIDE DEF Eq
  <2> QED
    BY <2>5
<1> HIDE DEF it
<1> DEFINE u == [k \in 0 .. n |-> it[1 .. k]]
<1>6. u[0] = <<>> /\ u[n] = it[1 .. n]
  <2>1. 1 .. 0 = {} /\ {} \in SUBSET (1 .. n) /\ 0 \in 0 .. n /\ n \in 0 .. n
    BY <1>1
  <2>2. it[{}] = <<>>
    <3> HIDE DEF n
    <3> QED
      BY <1>5, <2>1
  <2> HIDE DEF n
  <2> QED
    BY <2>1, <2>2
<1>7. ASSUME NEW k \in 1 .. n
      PROVE  u[k] = u[k - 1] \o LogsOf(B[k])
  <2>1. Max(1 .. k) = k /\ (1 .. k) \ {k} = 1 .. k - 1 /\ 1 .. k # {}
    <3>1. k \in Nat \ {0}
      BY <1>1
    <3> QED
      BY <3>1, Prefix
  <2>2. 1 .. k \in SUBSET (1 .. n) /\ k - 1 \in 0 .. n /\ k \in 0 .. n
    BY <1>1
  <2>3. it[1 .. k] = it[1 .. k - 1] \o LogsOf(B[k])
    <3> HIDE DEF n
    <3> QED
      BY <1>5, <2>1, <2>2
  <2> HIDE DEF n
  <2> QED
    BY <2>2, <2>3
<1>8. \A k \in 0 .. n : u[k] \in Seq(Nat)
  <2> DEFINE I == {k \in 0 .. n : u[k] \in Seq(Nat)}
  <2>1. 0 \in I
    <3>1. 0 \in 0 .. n /\ <<>> \in Seq(Nat)
      BY <1>1
    <3> HIDE DEF n, u
    <3> QED
      BY <1>6, <3>1
  <2>2. ASSUME NEW k \in 0 .. n - 1, k \in I
        PROVE  k + 1 \in I
    <3>1. k + 1 \in 1 .. n /\ (k + 1) - 1 = k /\ k + 1 \in 0 .. n
      BY <1>1
    <3>2. u[k] \in Seq(Nat)
      BY <2>2
    <3> HIDE DEF u, n
    <3>3. u[k + 1] = u[k] \o LogsOf(B[k + 1])
      BY <1>7, <3>1
    <3>4. u[k + 1] \in Seq(Nat)
      BY <1>4, <3>1, <3>2, <3>3
    <3> QED
      BY <3>1, <3>4
  <2> HIDE DEF I
  <2>3. \A k \in 0 .. n : k \in I
    BY <1>1, <2>1, <2>2, UpTo
  <2> QED
    BY <2>3 DEF I
<1>9. u \in [0 .. n -> Seq(Nat)]
  BY <1>8
<1>10. Logging(u, B)
  <2> HIDE DEF u
  <2> QED
    BY <1>7 DEF Logging
<1> HIDE DEF u
<1> QED
  BY <1>2, <1>6, <1>9, <1>10

(* No log travels twice.                                                   *)
LEMMA LogsKeep ==
  ASSUME NEW B \in Seq(Batch), Orderly(B, entries)
  PROVE  /\ Logs(B) \in Seq(Nat)
         /\ Distinct(Logs(B))
         /\ ToSet(Logs(B)) \subseteq EntriesOf(B) \cap IsKind("log")
<1> DEFINE n == Len(B)
<1>1. n \in Nat /\ \A k \in 1 .. n : B[k] \in Batch /\ B[k] \in ToSet(B)
  BY SeqFacts
<1>2. PICK u \in [0 .. n -> Seq(Nat)] : Logs(B) = u[n] /\ u[0] = <<>> /\ Logging(u, B)
  BY LogsUnfold
<1> DEFINE I == {k \in 0 .. n :
                  /\ Distinct(u[k])
                  /\ \A x \in ToSet(u[k]) : /\ x \in IsKind("log")
                                            /\ \E i \in 1 .. k : x \in Members(B[i])}
<1>3. 0 \in I
  <2>1. Distinct(<<>>) /\ ToSet(<<>>) = {}
    BY DEF Distinct, ToSet
  <2>2. 0 \in 0 .. n
    BY <1>1
  <2> HIDE DEF n
  <2> QED
    BY <1>2, <2>1, <2>2
<1>4. ASSUME NEW k \in 0 .. n - 1, k \in I
      PROVE  k + 1 \in I
  <2> DEFINE t == LogsOf(B[k + 1])
  <2>1. k + 1 \in 1 .. n /\ (k + 1) - 1 = k /\ k + 1 \in 0 .. n /\ k \in 0 .. n
    BY <1>1
  <2>2. u[k + 1] = u[k] \o t
    BY <1>2, <2>1 DEF Logging
  <2>3. B[k + 1].kids \in Seq(Nat) /\ Whole(B[k + 1], entries)
    BY <1>1, <2>1 DEF Batch, Orderly
  <2>4. t \in Seq(Nat) /\ ToSet(t) = ToSet(B[k + 1].kids) \cap IsKind("log")
          /\ InOrderOf(t, B[k + 1].kids)
    BY <2>3, WhereKeeps DEF LogsOf
  <2> HIDE DEF t
  <2>5. Distinct(t)
    <3> SUFFICES ASSUME NEW i \in 1 .. Len(t), NEW j \in 1 .. Len(t), i < j
                 PROVE  t[i] # t[j]
      BY DEF Distinct
    <3>1. PICK a, b \in 1 .. Len(B[k + 1].kids) :
            a < b /\ t[i] = B[k + 1].kids[a] /\ t[j] = B[k + 1].kids[b]
      BY <2>4 DEF InOrderOf
    <3> QED
      BY <2>3, <3>1 DEF Whole
  <2>6. \A x \in ToSet(t) : x \in IsKind("log") /\ x \in Members(B[k + 1])
    BY <2>4 DEF Members
  <2>7. ToSet(u[k]) \cap ToSet(t) = {}
    <3> SUFFICES ASSUME NEW x \in ToSet(u[k]), x \in ToSet(t)
                 PROVE  FALSE
      OBVIOUS
    <3>1. PICK i \in 1 .. k : x \in Members(B[i])
      BY <1>4
    <3>2. i \in 1 .. Len(B) /\ k + 1 \in 1 .. Len(B) /\ i < k + 1
      BY <1>1, <2>1
    <3>3. Members(B[i]) \cap Members(B[k + 1]) = {}
      BY <3>2 DEF Orderly
    <3> QED
      BY <2>6, <3>1, <3>3
  <2>8. u[k] \in Seq(Nat) /\ Distinct(u[k])
    BY <1>2, <1>4, <2>1
  <2>9. Distinct(u[k + 1]) /\ ToSet(u[k + 1]) = ToSet(u[k]) \cup ToSet(t)
    BY <2>2, <2>4, <2>5, <2>7, <2>8, DistinctConcat, ConcatFacts
  <2>10. ASSUME NEW x \in ToSet(u[k + 1])
         PROVE  x \in IsKind("log") /\ \E i \in 1 .. k + 1 : x \in Members(B[i])
    <3>1. CASE x \in ToSet(t)
      <4>1. k + 1 \in 1 .. k + 1
        BY <2>1, <1>1
      <4> QED
        BY <2>6, <3>1, <4>1
    <3>2. CASE x \in ToSet(u[k])
      <4>1. x \in IsKind("log")
        BY <1>4, <3>2
      <4>2. PICK i \in 1 .. k : x \in Members(B[i])
        BY <1>4, <3>2
      <4>3. i \in 1 .. k + 1
        BY <2>1, <1>1
      <4> QED
        BY <4>1, <4>2, <4>3
    <3> QED
      BY <2>9, <2>10, <3>1, <3>2
  <2> HIDE DEF n
  <2> QED
    BY <2>1, <2>9, <2>10
<1> HIDE DEF I
<1>5. n \in I
  <2>1. \A k \in 0 .. n : k \in I
    BY <1>1, <1>3, <1>4, UpTo
  <2> QED
    BY <1>1, <2>1
<1>6. n \in 0 .. n
  BY <1>1
<1> QED
  BY <1>1, <1>2, <1>5, <1>6 DEF I, EntriesOf

LEMMA Positive ==
  /\ {Grace, MaxOpen, MaxRecords, MaxLogs, CapFactor, MaxRetries} \subseteq Nat \ {0}
  /\ RuntimeInterval \in Nat \ {0} /\ MaxTime \in Nat /\ JobBatches \subseteq Batches
BY ObserveAssumption

LEMMA ApartInOrder ==
  ASSUME NEW r, NEW s, InOrderOf(r, s), Apart(s)
  PROVE  Apart(r)
<1> SUFFICES ASSUME NEW i \in 1 .. Len(r), NEW j \in 1 .. Len(r), i < j
             PROVE  r[i] \cap r[j] = {}
  BY DEF Apart
<1>1. PICK k, l \in 1 .. Len(s) : k < l /\ r[i] = s[k] /\ r[j] = s[l]
  BY DEF InOrderOf
<1> QED
  BY <1>1 DEF Apart

LEMMA CappedKeeps ==
  ASSUME NEW X, NEW section \in Seq(X), NEW size \in Nat \ {0}
  PROVE  /\ Capped(section, size) \in Seq(X)
         /\ Len(Capped(section, size)) <= Len(section)
         /\ ToSet(Capped(section, size)) \subseteq ToSet(section)
         /\ Apart(section) => Apart(Capped(section, size))
<1> DEFINE m == IF Len(section) < CapFactor * size THEN Len(section) ELSE CapFactor * size
<1>1. Len(section) \in Nat /\ ToSet(section) = {section[i] : i \in 1 .. Len(section)}
  BY SeqFacts
<1>2. CapFactor * size \in Nat
  <2>1. CapFactor \in Nat
    BY Positive
  <2> QED
    BY <2>1
<1>3. m \in 0 .. Len(section)
  BY <1>1, <1>2
<1>4. Capped(section, size) = SubSeq(section, 1, m)
  BY DEF Capped
<1> HIDE DEF m
<1>5. 1 \in Nat \ {0} /\ 1 <= m + 1
  BY <1>1, <1>3
<1>6. /\ SubSeq(section, 1, m) \in Seq(X) /\ Len(SubSeq(section, 1, m)) = m + 1 - 1
      /\ ToSet(SubSeq(section, 1, m)) = {section[i] : i \in 1 .. m}
      /\ InOrderOf(SubSeq(section, 1, m), section)
  <2>1. \A a \in Nat \ {0} : a <= m + 1 =>
          /\ SubSeq(section, a, m) \in Seq(X) /\ Len(SubSeq(section, a, m)) = m + 1 - a
          /\ ToSet(SubSeq(section, a, m)) = {section[i] : i \in a .. m}
          /\ InOrderOf(SubSeq(section, a, m), section)
    BY <1>3, SubSeqKeeps
  <2> QED
    BY <1>5, <2>1
<1>7. Len(Capped(section, size)) <= Len(section)
  BY <1>1, <1>3, <1>4, <1>6
<1>8. \A i \in 1 .. m : i \in 1 .. Len(section)
  BY <1>1, <1>3
<1> QED
  BY <1>1, <1>4, <1>6, <1>7, <1>8, ApartInOrder

(* A record carries entries of one batch, none of them a log.              *)
LEMMA RecordsKeep ==
  ASSUME NEW B \in Seq(Batch), Orderly(B, entries), NEW ids
  PROVE  /\ Records(B, ids) \in Seq(SUBSET Nat)
         /\ Apart(Records(B, ids))
         /\ \A r \in ToSet(Records(B, ids)) :
              /\ \E b \in ToSet(B) : b.id \in ids /\ r \subseteq Members(b)
              /\ r \cap IsKind("log") = {}
<1> DEFINE S == {b \in ToSet(B) : b.root # {} /\ b.id \in ids}
           rooted == Where(B, S)
           q == Records(B, ids)
<1>1. /\ rooted \in Seq(Batch) /\ ToSet(rooted) = ToSet(B) \cap S
      /\ InOrderOf(rooted, B)
  <2> HIDE DEF S
  <2> QED
    BY WhereKeeps
<1>2. ToSet(rooted) \subseteq ToSet(B)
  BY <1>1
<1>3. Orderly(rooted, entries)
  <2> HIDE DEF rooted
  <2> QED
    BY <1>1, <1>2, InOrderKeeps
<1>4. q = [i \in DOMAIN rooted |->
             rooted[i].root \cup (Members(rooted[i]) \cap IsKind("error"))]
  BY DEF Records
<1>5. \A b \in ToSet(rooted) : b \in ToSet(B) /\ b.id \in ids
  BY <1>1
<1> HIDE DEF rooted, S, q
<1>6. /\ Len(rooted) \in Nat /\ DOMAIN rooted = 1 .. Len(rooted)
      /\ \A i \in 1 .. Len(rooted) : rooted[i] \in Batch /\ rooted[i] \in ToSet(rooted)
  BY <1>1, SeqFacts
<1>7. \A i \in 1 .. Len(rooted) :
        /\ q[i] \subseteq Members(rooted[i])
        /\ q[i] \in SUBSET Nat
        /\ q[i] \cap IsKind("log") = {}
  <2> TAKE i \in 1 .. Len(rooted)
  <2> DEFINE b == rooted[i]
  <2>1. q[i] = b.root \cup (Members(b) \cap IsKind("error"))
    BY <1>4, <1>6
  <2>2. b \in Batch /\ Whole(b, entries)
    BY <1>3, <1>6 DEF Orderly
  <2> HIDE DEF b
  <2>3. b.root \subseteq Members(b)
    BY DEF Members
  <2>4. Members(b) \subseteq Nat
    <3>1. b.root \subseteq Nat /\ b.kids \in Seq(Nat)
      BY <2>2 DEF Batch
    <3>2. ToSet(b.kids) \subseteq Nat
      BY <3>1, SeqFacts
    <3> QED
      BY <3>1, <3>2 DEF Members
  <2>5. b.root \cap IsKind("log") = {}
    BY <2>2 DEF Whole, IsKind
  <2>6. IsKind("error") \cap IsKind("log") = {}
    BY DEF IsKind
  <2>7. q[i] \subseteq Members(b) /\ q[i] \in SUBSET Nat /\ q[i] \cap IsKind("log") = {}
    BY <2>1, <2>3, <2>4, <2>5, <2>6
  <2> QED
    BY <2>7 DEF b
<1>8. q \in Seq(SUBSET Nat) /\ Len(q) = Len(rooted)
  <2>1. q \in [1 .. Len(rooted) -> SUBSET Nat]
    BY <1>4, <1>6, <1>7
  <2> QED
    BY <1>6, <2>1
<1>9. Apart(q)
  <2> SUFFICES ASSUME NEW i \in 1 .. Len(rooted), NEW j \in 1 .. Len(rooted), i < j
               PROVE  q[i] \cap q[j] = {}
    BY <1>8 DEF Apart
  <2>1. Members(rooted[i]) \cap Members(rooted[j]) = {}
    BY <1>3 DEF Orderly
  <2> QED
    BY <1>7, <2>1
<1>10. ASSUME NEW r \in ToSet(q)
       PROVE  /\ \E b \in ToSet(B) : b.id \in ids /\ r \subseteq Members(b)
              /\ r \cap IsKind("log") = {}
  <2>1. PICK i \in 1 .. Len(rooted) : r = q[i]
    BY <1>8, SeqFacts
  <2>2. rooted[i] \in ToSet(B) /\ rooted[i].id \in ids
    BY <1>5, <1>6
  <2> QED
    BY <1>7, <2>1, <2>2
<1> QED
  BY <1>8, <1>9, <1>10 DEF q

(* What is collected: sections of records that share no entry, all of      *)
(* batches that were not sampled away.                                     *)
Section(s) == s \in Seq(SUBSET Nat) /\ Apart(s)
Carries(s) == UNION ToSet(s)

Collected(w, B) ==
  /\ Section(w.snapshots) /\ Section(w.jobs) /\ Section(w.logs)
  /\ Carries(w.snapshots) \cap Carries(w.jobs) = {}
  /\ Carries(w.snapshots) \cap Carries(w.logs) = {}
  /\ Carries(w.jobs) \cap Carries(w.logs) = {}
  /\ Outgoing(w) \subseteq EntriesOf(B)
  /\ Outgoing(w) \cap w.sampled = {}

LEMMA CollectKeeps ==
  ASSUME NEW B \in Seq(Batch), Orderly(B, entries)
  PROVE  Collected(Collect(B), B)
<1> DEFINE E == {b \in ToSet(B) : Exported(b)}
           kept == Where(B, E)
           logs == Logs(kept)
           single == [i \in DOMAIN logs |-> {logs[i]}]
           snaps == Records(kept, Batches \ JobBatches)
           jobs == Records(kept, JobBatches)
           w == Collect(B)
<1>1. /\ kept \in Seq(Batch) /\ ToSet(kept) = ToSet(B) \cap E /\ InOrderOf(kept, B)
  <2> HIDE DEF E
  <2> QED
    BY WhereKeeps
<1>2. ToSet(kept) \subseteq ToSet(B)
  BY <1>1
<1>3. Orderly(kept, entries)
  <2> HIDE DEF kept
  <2> QED
    BY <1>1, <1>2, InOrderKeeps
<1>4. /\ w.snapshots = Capped(snaps, MaxRecords)
      /\ w.jobs = Capped(jobs, MaxRecords)
      /\ w.logs = Capped(single, MaxLogs)
      /\ w.sampled = UNION {Members(b) : b \in ToSet(B) \ ToSet(kept)}
  BY DEF Collect
<1> HIDE DEF kept, E, w
<1>5. /\ logs \in Seq(Nat) /\ Distinct(logs) /\ ToSet(logs) \subseteq EntriesOf(kept) \cap IsKind("log")
  BY <1>1, <1>3, LogsKeep
<1>6. \A ids : /\ Records(kept, ids) \in Seq(SUBSET Nat) /\ Apart(Records(kept, ids))
               /\ \A r \in ToSet(Records(kept, ids)) :
                    /\ \E b \in ToSet(kept) : b.id \in ids /\ r \subseteq Members(b)
                    /\ r \cap IsKind("log") = {}
  BY <1>1, <1>3, RecordsKeep
<1> HIDE DEF logs
<1>7. Section(single) /\ Carries(single) \subseteq ToSet(logs)
  <2>1. /\ Len(logs) \in Nat /\ DOMAIN logs = 1 .. Len(logs)
        /\ \A i \in 1 .. Len(logs) : logs[i] \in Nat /\ logs[i] \in ToSet(logs)
    BY <1>5, SeqFacts
  <2>2. single \in Seq(SUBSET Nat) /\ Len(single) = Len(logs)
          /\ \A i \in 1 .. Len(logs) : single[i] = {logs[i]}
    <3>1. single \in [1 .. Len(logs) -> SUBSET Nat] /\ \A i \in 1 .. Len(logs) : single[i] = {logs[i]}
      BY <2>1
    <3> HIDE DEF single
    <3> QED
      BY <2>1, <3>1
  <2> HIDE DEF single
  <2>3. Apart(single)
    BY <1>5, <2>2 DEF Apart, Distinct
  <2>4. \A r \in ToSet(single) : r \subseteq ToSet(logs)
    <3> TAKE r \in ToSet(single)
    <3>1. PICK i \in 1 .. Len(single) : r = single[i]
      BY <2>2, SeqFacts
    <3> QED
      BY <2>1, <2>2, <3>1
  <2> QED
    BY <2>2, <2>3, <2>4 DEF Section, Carries
<1> HIDE DEF single
<1>8. MaxRecords \in Nat \ {0} /\ MaxLogs \in Nat \ {0}
  BY Positive
<1>9. Section(w.snapshots) /\ ToSet(w.snapshots) \subseteq ToSet(snaps)
  <2>1. snaps \in Seq(SUBSET Nat) /\ Apart(snaps)
    BY <1>6
  <2> HIDE DEF snaps
  <2> QED
    BY <1>4, <1>8, <2>1, CappedKeeps DEF Section
<1>10. Section(w.jobs) /\ ToSet(w.jobs) \subseteq ToSet(jobs)
  <2>1. jobs \in Seq(SUBSET Nat) /\ Apart(jobs)
    BY <1>6
  <2> HIDE DEF jobs
  <2> QED
    BY <1>4, <1>8, <2>1, CappedKeeps DEF Section
<1>11. Section(w.logs) /\ ToSet(w.logs) \subseteq ToSet(single)
  BY <1>4, <1>7, <1>8, CappedKeeps DEF Section
<1>12. \A r \in ToSet(w.snapshots) :
         /\ \E b \in ToSet(kept) : b.id \in Batches \ JobBatches /\ r \subseteq Members(b)
         /\ r \cap IsKind("log") = {}
  BY <1>6, <1>9
<1>13. \A r \in ToSet(w.jobs) :
         /\ \E b \in ToSet(kept) : b.id \in JobBatches /\ r \subseteq Members(b)
         /\ r \cap IsKind("log") = {}
  BY <1>6, <1>10
<1>14. Carries(w.logs) \subseteq EntriesOf(kept) \cap IsKind("log")
  BY <1>5, <1>7, <1>11 DEF Carries
<1>15. Carries(w.snapshots) \cap Carries(w.jobs) = {}
  <2> SUFFICES ASSUME NEW r \in ToSet(w.snapshots), NEW t \in ToSet(w.jobs)
               PROVE  r \cap t = {}
    BY DEF Carries
  <2>1. PICK b \in ToSet(kept) : b.id \in Batches \ JobBatches /\ r \subseteq Members(b)
    BY <1>12
  <2>2. PICK c \in ToSet(kept) : c.id \in JobBatches /\ t \subseteq Members(c)
    BY <1>13
  <2>3. Members(b) \cap Members(c) = {}
    <3>1. b # c
      BY <2>1, <2>2
    <3> QED
      BY <1>1, <1>3, <3>1, OrderlyApart
  <2> QED
    BY <2>1, <2>2, <2>3
<1>16. /\ Carries(w.snapshots) \cap Carries(w.logs) = {}
       /\ Carries(w.jobs) \cap Carries(w.logs) = {}
  BY <1>12, <1>13, <1>14 DEF Carries
<1>17. Outgoing(w) = Carries(w.snapshots) \cup Carries(w.jobs) \cup Carries(w.logs)
  BY DEF Outgoing, Carries
<1>18. Outgoing(w) \subseteq EntriesOf(kept)
  <2>1. \A r \in ToSet(w.snapshots) \cup ToSet(w.jobs) : r \subseteq EntriesOf(kept)
    <3>1. \A b \in ToSet(kept) : Members(b) \subseteq EntriesOf(kept)
      BY DEF EntriesOf
    <3> QED
      BY <1>12, <1>13, <3>1
  <2>2. Carries(w.snapshots) \subseteq EntriesOf(kept) /\ Carries(w.jobs) \subseteq EntriesOf(kept)
    BY <2>1 DEF Carries
  <2> QED
    BY <1>14, <1>17, <2>2
<1>19. EntriesOf(kept) \subseteq EntriesOf(B)
  BY <1>2 DEF EntriesOf
<1>20. EntriesOf(kept) \cap w.sampled = {}
  <2> SUFFICES ASSUME NEW b \in ToSet(kept), NEW c \in ToSet(B) \ ToSet(kept)
               PROVE  Members(b) \cap Members(c) = {}
    BY <1>4 DEF EntriesOf
  <2> QED
    BY <1>2, OrderlyApart
<1>21. Collected(w, B)
  BY <1>9, <1>10, <1>11, <1>15, <1>16, <1>18, <1>19, <1>20 DEF Collected
<1> QED
  BY <1>21 DEF w

-----------------------------------------------------------------------------
(* Payloads.                                                               *)

LEMMA SliceFacts ==
  ASSUME NEW s, Section(s), NEW size \in Nat \ {0}
  PROVE  /\ Requests(s, size) \in Nat
         /\ \A i \in Int : Slice(s, size, i) \subseteq Carries(s) \cap Nat
         /\ \A i, j \in Int : i # j => Slice(s, size, i) \cap Slice(s, size, j) = {}
         /\ \A n \in Carries(s) : \E i \in 1 .. Requests(s, size) : n \in Slice(s, size, i)
<1>1. /\ s \in Seq(SUBSET Nat) /\ Apart(s) /\ Len(s) \in Nat /\ DOMAIN s = 1 .. Len(s)
      /\ \A k \in 1 .. Len(s) : s[k] \in SUBSET Nat
      /\ ToSet(s) = {s[k] : k \in 1 .. Len(s)}
  BY SeqFacts DEF Section
<1>2. Requests(s, size) = (Len(s) + size - 1) \div size
  BY DEF Requests
<1>3. Requests(s, size) \in Nat
  <2>1. Len(s) + size - 1 \in Nat
    BY <1>1
  <2> QED
    BY <1>2, <2>1, Division
<1>4. \A i \in Int : \A n \in Slice(s, size, i) :
        \E k \in 1 .. Len(s) : n \in s[k] /\ (k - 1) \div size = i - 1
  BY <1>1 DEF Slice
<1>5. ASSUME NEW i \in Int
      PROVE  Slice(s, size, i) \subseteq Carries(s) \cap Nat
  BY <1>1, <1>4 DEF Carries
<1>6. ASSUME NEW i \in Int, NEW j \in Int, i # j
      PROVE  Slice(s, size, i) \cap Slice(s, size, j) = {}
  <2> SUFFICES ASSUME NEW n \in Slice(s, size, i), n \in Slice(s, size, j)
               PROVE  FALSE
    OBVIOUS
  <2>1. PICK k \in 1 .. Len(s) : n \in s[k] /\ (k - 1) \div size = i - 1
    BY <1>4
  <2>2. PICK l \in 1 .. Len(s) : n \in s[l] /\ (l - 1) \div size = j - 1
    BY <1>4
  <2>3. k # l
    <3>1. i - 1 # j - 1
      BY <1>6
    <3> QED
      BY <2>1, <2>2, <3>1
  <2>4. k < l \/ l < k
    BY <2>3
  <2> QED
    BY <1>1, <2>1, <2>2, <2>4 DEF Apart
<1>7. ASSUME NEW n \in Carries(s)
      PROVE  \E i \in 1 .. Requests(s, size) : n \in Slice(s, size, i)
  <2>1. PICK k \in 1 .. Len(s) : n \in s[k]
    BY <1>1 DEF Carries
  <2>2. PICK i \in 1 .. Requests(s, size) : i = (k - 1) \div size + 1
    BY <1>1, <1>2, RequestOf
  <2>3. (k - 1) \div size = i - 1
    <3>1. k - 1 \in Nat
      OBVIOUS
    <3>2. (k - 1) \div size \in Nat
      BY <3>1, Division
    <3> QED
      BY <2>2, <3>2
  <2>4. n \in Slice(s, size, i)
    BY <1>1, <2>1, <2>3 DEF Slice
  <2> QED
    BY <2>4
<1> QED
  BY <1>3, <1>5, <1>6, <1>7

Payload == [carries : SUBSET Nat, iv : Nat]

(* The payloads carry what was collected, each entry once, and the first   *)
(* one the metrics.                                                        *)
Built(p, w) ==
  /\ p \in Seq(Payload)
  /\ \A i, j \in 1 .. Len(p) : i < j => p[i].carries \cap p[j].carries = {}
  /\ Carried(p) = Outgoing(w)
  /\ \A i \in 1 .. Len(p) : p[i].iv = IF i = 1 THEN sinceCollect ELSE 0

CarryOf(w, i) ==
  UNION {Slice(w.snapshots, MaxRecords, i), Slice(w.jobs, MaxRecords, i), Slice(w.logs, MaxLogs, i)}

LEMMA BuildKeeps ==
  ASSUME NEW w, NEW B, Collected(w, B), NEW beat \in BOOLEAN, sinceCollect \in Nat
  PROVE  Built(Build(w, beat), w)
<1> DEFINE a == Requests(w.snapshots, MaxRecords)
           b == Requests(w.jobs, MaxRecords)
           c == Requests(w.logs, MaxLogs)
           needed == Max({a, b, c})
           metrics == IF needed > 0 \/ beat THEN sinceCollect ELSE 0
           count == IF needed = 0 /\ beat THEN 1 ELSE needed
           p == Build(w, beat)
<1>1. p = [i \in 1 .. count |->
             [carries |-> CarryOf(w, i), iv |-> IF i = 1 THEN metrics ELSE 0]]
  BY DEF Build, CarryOf
<1>2. /\ Section(w.snapshots) /\ Section(w.jobs) /\ Section(w.logs)
      /\ MaxRecords \in Nat \ {0} /\ MaxLogs \in Nat \ {0}
  BY Positive DEF Collected
<1>3. a \in Nat /\ b \in Nat /\ c \in Nat
  BY <1>2, SliceFacts
<1>4. needed \in Nat /\ a <= needed /\ b <= needed /\ c <= needed
  <2> HIDE DEF a, b, c
  <2>1. {a, b, c} \in SUBSET (0 .. a + b + c) /\ {a, b, c} # {} /\ a + b + c \in Nat
    BY <1>3
  <2>2. needed \in {a, b, c} /\ \A y \in {a, b, c} : needed >= y
    BY <2>1, MaxOf
  <2> HIDE DEF needed
  <2> QED
    BY <1>3, <2>2
<1> HIDE DEF needed
<1>5. /\ count \in Nat /\ metrics \in Nat
      /\ a <= count /\ b <= count /\ c <= count
      /\ count # 0 => metrics = sinceCollect
  <2> HIDE DEF a, b, c
  <2> QED
    BY <1>3, <1>4
<1> HIDE DEF count, metrics
<1>6. \A i \in Int : CarryOf(w, i) \in SUBSET Nat
  <2> TAKE i \in Int
  <2>1. /\ Slice(w.snapshots, MaxRecords, i) \subseteq Nat
        /\ Slice(w.jobs, MaxRecords, i) \subseteq Nat
        /\ Slice(w.logs, MaxLogs, i) \subseteq Nat
    BY <1>2, SliceFacts
  <2> QED
    BY <2>1 DEF CarryOf
<1>7. \A i, j \in Int : i # j => CarryOf(w, i) \cap CarryOf(w, j) = {}
  <2> SUFFICES ASSUME NEW i \in Int, NEW j \in Int, i # j
               PROVE  CarryOf(w, i) \cap CarryOf(w, j) = {}
    OBVIOUS
  <2>1. /\ Slice(w.snapshots, MaxRecords, i) \cap Slice(w.snapshots, MaxRecords, j) = {}
        /\ Slice(w.jobs, MaxRecords, i) \cap Slice(w.jobs, MaxRecords, j) = {}
        /\ Slice(w.logs, MaxLogs, i) \cap Slice(w.logs, MaxLogs, j) = {}
    BY <1>2, SliceFacts
  <2>2. \A k \in {i, j} : /\ Slice(w.snapshots, MaxRecords, k) \subseteq Carries(w.snapshots)
                          /\ Slice(w.jobs, MaxRecords, k) \subseteq Carries(w.jobs)
                          /\ Slice(w.logs, MaxLogs, k) \subseteq Carries(w.logs)
    <3> TAKE k \in {i, j}
    <3>1. k \in Int
      OBVIOUS
    <3> QED
      BY <1>2, <3>1, SliceFacts
  <2>3. /\ Carries(w.snapshots) \cap Carries(w.jobs) = {}
        /\ Carries(w.snapshots) \cap Carries(w.logs) = {}
        /\ Carries(w.jobs) \cap Carries(w.logs) = {}
    BY DEF Collected
  <2>4. \A n : n \in CarryOf(w, i) <=> \/ n \in Slice(w.snapshots, MaxRecords, i)
                                  \/ n \in Slice(w.jobs, MaxRecords, i)
                                  \/ n \in Slice(w.logs, MaxLogs, i)
    BY DEF CarryOf
  <2>5. \A n : n \in CarryOf(w, j) <=> \/ n \in Slice(w.snapshots, MaxRecords, j)
                                  \/ n \in Slice(w.jobs, MaxRecords, j)
                                  \/ n \in Slice(w.logs, MaxLogs, j)
    BY DEF CarryOf
  <2> QED
    BY <2>1, <2>2, <2>3, <2>4, <2>5
<1>8. ASSUME NEW n \in Outgoing(w)
      PROVE  \E i \in 1 .. count : n \in CarryOf(w, i)
  <2>1. \/ n \in Carries(w.snapshots)
        \/ n \in Carries(w.jobs)
        \/ n \in Carries(w.logs)
    BY <1>8 DEF Outgoing, Carries
  <2>2. CASE n \in Carries(w.snapshots)
    <3>1. PICK i \in 1 .. a : n \in Slice(w.snapshots, MaxRecords, i)
      BY <1>2, <2>2, SliceFacts
    <3>2. i \in 1 .. count
      <4> HIDE DEF a
      <4> QED
        BY <1>3, <1>5
    <3> QED
      BY <3>1, <3>2 DEF CarryOf
  <2>3. CASE n \in Carries(w.jobs)
    <3>1. PICK i \in 1 .. b : n \in Slice(w.jobs, MaxRecords, i)
      BY <1>2, <2>3, SliceFacts
    <3>2. i \in 1 .. count
      <4> HIDE DEF b
      <4> QED
        BY <1>3, <1>5
    <3> QED
      BY <3>1, <3>2 DEF CarryOf
  <2>4. CASE n \in Carries(w.logs)
    <3>1. PICK i \in 1 .. c : n \in Slice(w.logs, MaxLogs, i)
      BY <1>2, <2>4, SliceFacts
    <3>2. i \in 1 .. count
      <4> HIDE DEF c
      <4> QED
        BY <1>3, <1>5
    <3> QED
      BY <3>1, <3>2 DEF CarryOf
  <2> QED
    BY <2>1, <2>2, <2>3, <2>4
<1>9. \A i \in Int : CarryOf(w, i) \subseteq Outgoing(w)
  <2> TAKE i \in Int
  <2>1. /\ Slice(w.snapshots, MaxRecords, i) \subseteq Carries(w.snapshots)
        /\ Slice(w.jobs, MaxRecords, i) \subseteq Carries(w.jobs)
        /\ Slice(w.logs, MaxLogs, i) \subseteq Carries(w.logs)
    BY <1>2, SliceFacts
  <2>2. Outgoing(w) = Carries(w.snapshots) \cup Carries(w.jobs) \cup Carries(w.logs)
    BY DEF Outgoing, Carries
  <2> QED
    BY <2>1, <2>2 DEF CarryOf
<1> HIDE DEF a, b, c
<1>10. \A i \in 1 .. count : i \in Int
  BY <1>5
<1>11. \A i \in 1 .. count : /\ p[i].carries = CarryOf(w, i)
                             /\ p[i].iv = IF i = 1 THEN sinceCollect ELSE 0
                             /\ p[i] \in Payload
  <2> TAKE i \in 1 .. count
  <2>1. p[i] = [carries |-> CarryOf(w, i), iv |-> IF i = 1 THEN metrics ELSE 0]
    BY <1>1
  <2>2. count # 0
    BY <1>5
  <2>3. CarryOf(w, i) \in SUBSET Nat /\ metrics = sinceCollect
    BY <1>5, <1>6, <1>10, <2>2
  <2> QED
    BY <2>1, <2>3 DEF Payload
<1>12. p \in Seq(Payload) /\ Len(p) = count /\ DOMAIN p = 1 .. count
  <2>1. DOMAIN p = 1 .. count /\ p \in [1 .. count -> Payload]
    BY <1>1, <1>11
  <2> HIDE DEF p
  <2> QED
    BY <1>5, <2>1
<1> HIDE DEF p
<1>13. ASSUME NEW i \in 1 .. Len(p), NEW j \in 1 .. Len(p), i < j
       PROVE  p[i].carries \cap p[j].carries = {}
  <2>1. CarryOf(w, i) \cap CarryOf(w, j) = {}
    <3>1. i \in Int /\ j \in Int /\ i # j
      BY <1>13
    <3> QED
      BY <1>7, <3>1
  <2> QED
    BY <1>11, <1>12, <2>1
<1>14. Carried(p) = Outgoing(w)
  <2>1. ToSet(p) = {p[i] : i \in 1 .. count}
    BY <1>12, SeqFacts
  <2>2. Carried(p) = UNION {p[i].carries : i \in 1 .. count}
    BY <2>1 DEF Carried
  <2> QED
    BY <1>8, <1>9, <1>10, <1>11, <2>2
<1>15. Built(p, w)
  BY <1>11, <1>12, <1>13, <1>14 DEF Built
<1> QED
  BY <1>15 DEF p

-----------------------------------------------------------------------------
(* The sum of the interval increases of some payloads, one at a time.      *)
LEMMA SumUnfolds ==
  ASSUME NEW p, NEW n \in Nat, DOMAIN p = 1 .. n, \A i \in 1 .. n : p[i].iv \in Nat
  PROVE  \E sum \in [0 .. n -> Int] :
           /\ FoldLeft(LAMBDA s, x : s + x.iv, 0, p) = sum[n]
           /\ sum[0] = 0
           /\ \A k \in 1 .. n : sum[k] = sum[k - 1] + p[k].iv
<1> DEFINE Eq(h) == h = [s \in SUBSET (1 .. n) |->
                           IF s = {} THEN 0 ELSE h[s \ {Max(s)}] + p[Max(s)].iv]
           summed == CHOOSE h : Eq(h)
           op == [x \in Nat \X (1 .. n) |-> x[1] + p[x[2]].iv]
<1>1. FoldLeft(LAMBDA s, x : s + x.iv, 0, p) = summed[1 .. n]
  BY DEF FoldLeft, MapThenFoldSet
<1>2. Eq(summed)
  <2>1. op \in [Nat \X (1 .. n) -> Nat]
    OBVIOUS
  <2>2. PICK h \in [SUBSET (1 .. n) -> Nat] : Unfolds(h, n, 0, op)
    <3>1. 0 \in Nat
      OBVIOUS
    <3> HIDE DEF op
    <3> QED
      BY <2>1, <3>1, Folding
  <2>3. ASSUME NEW s \in SUBSET (1 .. n), s # {}
        PROVE  op[<<h[s \ {Max(s)}], Max(s)>>] = h[s \ {Max(s)}] + p[Max(s)].iv
    <3>1. s \in SUBSET (0 .. n)
      OBVIOUS
    <3>2. Max(s) \in 1 .. n
      BY <2>3, <3>1, MaxOf
    <3>3. h[s \ {Max(s)}] \in Nat
      BY <2>2
    <3> QED
      BY <3>2, <3>3
  <2>4. \A s \in SUBSET (1 .. n) :
          h[s] = IF s = {} THEN 0 ELSE h[s \ {Max(s)}] + p[Max(s)].iv
    BY <2>2, <2>3 DEF Unfolds
  <2>5. Eq(h)
    BY <2>2, <2>4
  <2> HIDE DEF Eq
  <2> QED
    BY <2>5
<1> HIDE DEF summed
<1> DEFINE sum == [k \in 0 .. n |-> summed[1 .. k]]
<1>3. sum[0] = 0 /\ sum[n] = summed[1 .. n]
  <2>1. 1 .. 0 = {} /\ {} \in SUBSET (1 .. n)
    OBVIOUS
  <2>2. summed[{}] = 0
    BY <1>2, <2>1
  <2> QED
    BY <2>1, <2>2
<1>4. ASSUME NEW k \in 1 .. n
      PROVE  sum[k] = sum[k - 1] + p[k].iv
  <2>1. Max(1 .. k) = k /\ (1 .. k) \ {k} = 1 .. k - 1 /\ 1 .. k # {}
    <3>1. k \in Nat \ {0}
      OBVIOUS
    <3> QED
      BY <3>1, Prefix
  <2>2. 1 .. k \in SUBSET (1 .. n) /\ k - 1 \in 0 .. n /\ k \in 0 .. n
    OBVIOUS
  <2>3. summed[1 .. k] = summed[1 .. k - 1] + p[k].iv
    BY <1>2, <2>1, <2>2
  <2> QED
    BY <2>2, <2>3
<1>5. \A k \in 0 .. n : sum[k] \in Int
  <2> DEFINE I == {k \in 0 .. n : sum[k] \in Int}
  <2>1. 0 \in I
    BY <1>3
  <2>2. ASSUME NEW k \in 0 .. n - 1, k \in I
        PROVE  k + 1 \in I
    <3>1. k + 1 \in 1 .. n /\ (k + 1) - 1 = k
      OBVIOUS
    <3>2. sum[k + 1] = sum[k] + p[k + 1].iv
      BY <1>4, <3>1
    <3> HIDE DEF sum
    <3> QED
      BY <2>2, <3>1, <3>2
  <2> HIDE DEF I
  <2>3. \A k \in 0 .. n : k \in I
    BY <2>1, <2>2, UpTo
  <2> QED
    BY <2>3 DEF I
<1> QED
  <2>1. sum \in [0 .. n -> Int]
    BY <1>5
  <2> HIDE DEF sum
  <2> QED
    BY <1>1, <1>3, <1>4, <2>1

(* The interval increases of the payloads of a dispatch add up to what was *)
(* observed since the last one that had any.                               *)
LEMMA SumOfBuilt ==
  ASSUME NEW p, NEW w, Built(p, w), sinceCollect \in Nat
  PROVE  FoldLeft(LAMBDA s, x : s + x.iv, 0, p) = IF p = <<>> THEN 0 ELSE sinceCollect
<1> DEFINE n == Len(p)
<1>1. /\ n \in Nat /\ DOMAIN p = 1 .. n
      /\ \A i \in 1 .. n : p[i].iv = IF i = 1 THEN sinceCollect ELSE 0
      /\ p = <<>> <=> n = 0
  <2>1. p \in Seq(Payload)
    BY DEF Built
  <2>2. n \in Nat /\ DOMAIN p = 1 .. n
    BY <2>1, SeqFacts
  <2>3. p = <<>> <=> n = 0
    BY <2>1, EmptySeq
  <2> QED
    BY <2>2, <2>3 DEF Built
<1> HIDE DEF n
<1>2. \A i \in 1 .. n : p[i].iv \in Nat
  BY <1>1
<1>3. PICK sum \in [0 .. n -> Int] :
        /\ FoldLeft(LAMBDA s, x : s + x.iv, 0, p) = sum[n]
        /\ sum[0] = 0
        /\ \A k \in 1 .. n : sum[k] = sum[k - 1] + p[k].iv
  BY <1>1, <1>2, SumUnfolds
<1> DEFINE F == FoldLeft(LAMBDA s, x : s + x.iv, 0, p)
<1>31. F = sum[n]
  BY <1>3
<1> HIDE DEF F
<1>32. sum[0] = 0 /\ \A k \in 1 .. n : sum[k] = sum[k - 1] + p[k].iv
  BY <1>3, Zenon
<1> DEFINE I == {k \in 0 .. n : sum[k] = IF k = 0 THEN 0 ELSE sinceCollect}
<1>4. 0 \in I
  BY <1>1, <1>32
<1>5. \A k \in 0 .. n - 1 : k \in I => k + 1 \in I
  <2> SUFFICES ASSUME NEW k \in 0 .. n - 1, k \in I
               PROVE  k + 1 \in I
    OBVIOUS
  <2>1. k + 1 \in 1 .. n /\ k + 1 \in 0 .. n /\ k + 1 - 1 = k
    BY <1>1
  <2>2. sum[k + 1] = sum[k] + p[k + 1].iv
    BY <1>32, <2>1
  <2>3. p[k + 1].iv = IF k = 0 THEN sinceCollect ELSE 0
    BY <1>1, <2>1
  <2>4. sum[k] = IF k = 0 THEN 0 ELSE sinceCollect
    OBVIOUS
  <2> QED
    BY <2>1, <2>2, <2>3, <2>4
<1>6. n \in I
  <2> HIDE DEF I
  <2>1. \A k \in 0 .. n : k \in I
    BY <1>1, <1>4, <1>5, UpTo
  <2> QED
    BY <1>1, <2>1
<1>7. F = IF p = <<>> THEN 0 ELSE sinceCollect
  BY <1>1, <1>31, <1>6
<1> QED
  BY <1>7 DEF F

-----------------------------------------------------------------------------
(* The inductive invariant.                                                *)

Fates == {"held", "outgoing", "sent", "refused", "sampledOut", "overCap", "unencodable", "vanished"}

Typed ==
  /\ now \in 0 .. MaxTime
  /\ open \in Seq(Batch) /\ Len(open) <= MaxOpen
  /\ evicted \in Seq(Batch)
  /\ sending \in BOOLEAN /\ closed \in BOOLEAN /\ disabled \in BOOLEAN
  /\ closing \in {"no", "sending", "done"}
  /\ queue \in [Dispatchers -> Seq(Payload)]
  /\ attempt \in [Dispatchers -> 0 .. MaxRetries]
  /\ pausing \in [Dispatchers -> BOOLEAN]
  /\ lastRuntimeAt \in Int
  /\ entries \in Seq(Entry)
  /\ fate \in Seq(Fates) /\ Len(fate) = Len(entries)

(* The assembler: whole batches, which share no entry.                     *)
Assembled ==
  /\ Sound(open, entries)
  /\ Orderly(evicted, entries)
  /\ EntriesOf(open) \cap EntriesOf(evicted) = {}

(* No two payloads of p carry an entry of es twice.                        *)
Shares(p, es) ==
  /\ \A i, j \in 1 .. Len(p) : i < j => p[i].carries \cap p[j].carries = {}
  /\ Carried(p) \subseteq DOMAIN es

(* The dispatches: one at a time has payloads, and then sending is set; it *)
(* backs off only before an attempt it has left.                           *)
Dispatching ==
  /\ \A d \in Dispatchers : /\ attempt[d] > 0 <=> queue[d] # <<>>
                            /\ pausing[d] => attempt[d] > 0 /\ attempt[d] < MaxRetries
                            /\ queue[d] # <<>> => sending
                            /\ Shares(queue[d], entries)
  /\ \A d, e \in Dispatchers : d # e => queue[d] = <<>> \/ queue[e] = <<>>

(* Where an entry is, its fate tells.                                      *)
Told(f, held, out, cl) ==
  \A n \in DOMAIN f : /\ f[n] = "held" <=> n \in held
                      /\ f[n] = "outgoing" <=> n \in out
                      /\ f[n] = "vanished" => cl

InQueues(q) == Carried(q["timer"]) \cup Carried(q["close"])

Placed == Told(fate, EntriesOf(open) \cup EntriesOf(evicted), InQueues(queue), closed)

Counted ==
  /\ total \in Nat /\ sinceCollect \in Nat /\ reported \in Nat
  /\ MetricsOnce

IInv == Typed /\ Assembled /\ Dispatching /\ Placed /\ Counted

LEMMA EmptyOnes ==
  /\ \A X : <<>> \in Seq(X)
  /\ Len(<<>>) = 0 /\ DOMAIN <<>> = {} /\ ToSet(<<>>) = {}
  /\ EntriesOf(<<>>) = {} /\ Carried(<<>>) = {}
  /\ \A es : Orderly(<<>>, es) /\ Sound(<<>>, es) /\ Shares(<<>>, es)
<1>1. (\A X : <<>> \in Seq(X)) /\ Len(<<>>) = 0 /\ DOMAIN <<>> = {}
  OBVIOUS
<1>2. ToSet(<<>>) = {}
  BY DEF ToSet
<1>3. EntriesOf(<<>>) = {} /\ Carried(<<>>) = {}
  BY <1>2 DEF EntriesOf, Carried
<1>4. \A es : Orderly(<<>>, es) /\ Sorted(<<>>) /\ Shares(<<>>, es)
  BY <1>1, <1>2, <1>3 DEF Orderly, Sorted, Shares
<1> QED
  BY <1>1, <1>2, <1>3, <1>4 DEF Sound

LEMMA InitIInv == Init => IInv
<1> SUFFICES ASSUME Init
             PROVE  IInv
  OBVIOUS
<1> USE DEF Init
<1>1. MaxTime \in Nat /\ MaxRetries \in Nat /\ MaxOpen \in Nat /\ RuntimeInterval \in Nat
  BY Positive
<1>2. Typed
  <2>1. /\ now \in 0 .. MaxTime /\ lastRuntimeAt \in Int
        /\ attempt \in [Dispatchers -> 0 .. MaxRetries] /\ pausing \in [Dispatchers -> BOOLEAN]
        /\ Len(open) <= MaxOpen
    BY <1>1, EmptyOnes
  <2>2. /\ open \in Seq(Batch) /\ evicted \in Seq(Batch) /\ entries \in Seq(Entry)
        /\ queue \in [Dispatchers -> Seq(Payload)] /\ fate \in Seq(Fates)
        /\ Len(fate) = Len(entries)
    BY EmptyOnes
  <2> QED
    BY <2>1, <2>2 DEF Typed
<1>3. Assembled
  BY EmptyOnes DEF Assembled
<1>4. Dispatching
  BY EmptyOnes DEF Dispatching
<1>5. Placed
  BY EmptyOnes DEF Placed, Told
<1>6. Counted
  BY DEF Counted, MetricsOnce
<1> QED
  BY <1>2, <1>3, <1>4, <1>5, <1>6 DEF IInv

(* A batch stays whole when further entries arrive.                        *)
LEMMA StaysOrderly ==
  ASSUME NEW s \in Seq(Batch), NEW es \in Seq(Entry), NEW more \in Seq(Entry), Orderly(s, es)
  PROVE  Orderly(s, es \o more)
<1>1. /\ DOMAIN es \subseteq DOMAIN (es \o more)
      /\ \A n \in DOMAIN es : (es \o more)[n] = es[n]
  <2> DEFINE t == es \o more
  <2>1. /\ DOMAIN es = 1 .. Len(es) /\ Len(es) \in Nat /\ Len(more) \in Nat
    BY SeqFacts
  <2>2. /\ t \in Seq(Entry) /\ Len(t) = Len(es) + Len(more)
        /\ \A i \in 1 .. Len(es) : t[i] = es[i]
    BY ConcatFacts
  <2> HIDE DEF t
  <2>3. DOMAIN t = 1 .. Len(t)
    BY <2>2, SeqFacts
  <2>4. DOMAIN es \subseteq DOMAIN t /\ \A n \in DOMAIN es : t[n] = es[n]
    BY <2>1, <2>2, <2>3
  <2> QED
    BY <2>4 DEF t
<1> DEFINE t == es \o more
<1> HIDE DEF t
<1>2. /\ DOMAIN es \subseteq DOMAIN t
      /\ \A n \in DOMAIN es : t[n] = es[n]
  BY <1>1 DEF t
<1>3. \A b \in ToSet(s) : Whole(b, es) => Whole(b, t)
  <2> SUFFICES ASSUME NEW b, Whole(b, es)
               PROVE  Whole(b, t)
    OBVIOUS
  <2>1. b.root \subseteq Members(b) /\ Members(b) \subseteq DOMAIN es
    BY DEF Members, Whole
  <2>2. \A n \in Members(b) : t[n] = es[n]
    BY <1>2, <2>1
  <2> QED
    BY <1>2, <2>1, <2>2 DEF Whole
<1>4. Orderly(s, t)
  BY <1>3 DEF Orderly
<1> QED
  BY <1>4 DEF t

LEMMA OrderlyConcat ==
  ASSUME NEW s \in Seq(Batch), NEW t \in Seq(Batch), NEW es, Orderly(s, es), Orderly(t, es),
         EntriesOf(s) \cap EntriesOf(t) = {}
  PROVE  /\ s \o t \in Seq(Batch)
         /\ Orderly(s \o t, es)
         /\ EntriesOf(s \o t) = EntriesOf(s) \cup EntriesOf(t)
<1> DEFINE r == s \o t
<1>1. Len(s) \in Nat /\ Len(t) \in Nat
  BY SeqFacts
<1>2. /\ r \in Seq(Batch) /\ Len(r) = Len(s) + Len(t)
      /\ \A i \in 1 .. Len(s) : r[i] = s[i]
      /\ \A i \in 1 .. Len(t) : r[Len(s) + i] = t[i]
      /\ \A i \in 1 .. Len(s) + Len(t) :
           i \in 1 .. Len(s) \/ \E k \in 1 .. Len(t) : i = Len(s) + k
      /\ ToSet(r) = ToSet(s) \cup ToSet(t)
  BY ConcatFacts
<1> HIDE DEF r
<1>3. /\ \A i \in 1 .. Len(s) : Members(s[i]) \subseteq EntriesOf(s)
      /\ \A i \in 1 .. Len(t) : Members(t[i]) \subseteq EntriesOf(t)
  <2>1. /\ \A i \in 1 .. Len(s) : s[i] \in ToSet(s)
        /\ \A i \in 1 .. Len(t) : t[i] \in ToSet(t)
    BY SeqFacts
  <2> QED
    BY <2>1 DEF EntriesOf
<1>4. ASSUME NEW i \in 1 .. Len(r), NEW j \in 1 .. Len(r), i < j
      PROVE  Members(r[i]) \cap Members(r[j]) = {}
  <2>1. CASE j \in 1 .. Len(s)
    <3>1. i \in 1 .. Len(s)
      BY <1>1, <1>4, <2>1
    <3>2. r[i] = s[i] /\ r[j] = s[j]
      BY <1>2, <2>1, <3>1
    <3> QED
      BY <1>4, <2>1, <3>1, <3>2 DEF Orderly
  <2>2. CASE j \notin 1 .. Len(s)
    <3>1. PICK l \in 1 .. Len(t) : j = Len(s) + l
      BY <1>2, <2>2
    <3>2. r[j] = t[l]
      BY <1>2, <3>1
    <3>3. CASE i \in 1 .. Len(s)
      <4>1. r[i] = s[i]
        BY <1>2, <3>3
      <4> QED
        BY <1>3, <3>2, <3>3, <4>1
    <3>4. CASE i \notin 1 .. Len(s)
      <4>1. PICK k \in 1 .. Len(t) : i = Len(s) + k
        BY <1>2, <3>4
      <4>2. r[i] = t[k] /\ k < l
        BY <1>1, <1>2, <1>4, <3>1, <4>1
      <4> QED
        BY <3>2, <4>2 DEF Orderly
    <3> QED
      BY <3>3, <3>4
  <2> QED
    BY <2>1, <2>2
<1>5. \A b \in ToSet(r) : Whole(b, es)
  BY <1>2 DEF Orderly
<1>6. EntriesOf(r) = EntriesOf(s) \cup EntriesOf(t)
  BY <1>2 DEF EntriesOf
<1>7. Orderly(r, es)
  BY <1>4, <1>5 DEF Orderly
<1> QED
  BY <1>2, <1>6, <1>7 DEF r

(* What the assembler holds has arrived.                                   *)
LEMMA HeldArrived ==
  ASSUME NEW s, NEW es, Orderly(s, es)
  PROVE  EntriesOf(s) \subseteq DOMAIN es
BY DEF EntriesOf, Orderly, Whole

-----------------------------------------------------------------------------
(* Posting.                                                                *)

(* A queue loses its first payload.                                        *)
LEMMA TailShares ==
  ASSUME NEW q \in Seq(Payload), q # <<>>, NEW es, Shares(q, es)
  PROVE  /\ Tail(q) \in Seq(Payload)
         /\ Shares(Tail(q), es)
         /\ Head(q).carries \subseteq Carried(q)
         /\ Carried(Tail(q)) = Carried(q) \ Head(q).carries
<1> DEFINE n == Len(q)
           r == Tail(q)
<1>1. n \in Nat /\ n # 0 /\ ToSet(q) = {q[i] : i \in 1 .. n}
  BY SeqFacts, EmptySeq
<1>2. /\ r \in Seq(Payload) /\ Len(r) = n - 1 /\ \A i \in 1 .. n - 1 : r[i] = q[i + 1]
      /\ Head(q) = q[1]
  BY HeadTailProperties
<1> HIDE DEF n, r
<1>3. ToSet(r) = {q[i] : i \in 2 .. n}
  <2>1. ToSet(r) = {r[i] : i \in 1 .. n - 1}
    BY <1>2, SeqFacts
  <2>2. \A i \in 2 .. n : i - 1 \in 1 .. n - 1 /\ i = i - 1 + 1
    BY <1>1
  <2>3. \A i \in 1 .. n - 1 : i + 1 \in 2 .. n
    BY <1>1
  <2>4. \A i \in 2 .. n : r[i - 1] = q[i]
    BY <1>2, <2>2
  <2>5. {r[i] : i \in 1 .. n - 1} \subseteq {q[i] : i \in 2 .. n}
    BY <1>2, <2>3
  <2>6. {q[i] : i \in 2 .. n} \subseteq {r[i] : i \in 1 .. n - 1}
    BY <2>2, <2>4
  <2> QED
    BY <2>1, <2>5, <2>6
<1>4. /\ Carried(q) = UNION {q[i].carries : i \in 1 .. n}
      /\ Carried(r) = UNION {q[i].carries : i \in 2 .. n}
  <2>1. Carried(q) = UNION {q[i].carries : i \in 1 .. n}
    BY <1>1 DEF Carried
  <2>2. Carried(r) = UNION {q[i].carries : i \in 2 .. n}
    BY <1>3 DEF Carried
  <2> QED
    BY <2>1, <2>2
<1>5. \A i, j \in 1 .. n : i < j => q[i].carries \cap q[j].carries = {}
  BY DEF Shares, n
<1>6. 1 \in 1 .. n /\ \A i \in 1 .. n : i = 1 \/ i \in 2 .. n
  BY <1>1
<1>7. \A i \in 2 .. n : i \in 1 .. n /\ q[1].carries \cap q[i].carries = {}
  BY <1>1, <1>5, <1>6
<1>8. q[1].carries \subseteq Carried(q) /\ Carried(r) = Carried(q) \ q[1].carries
  BY <1>4, <1>6, <1>7
<1>9. Shares(r, es)
  <2>1. \A i, j \in 1 .. Len(r) : i < j => r[i].carries \cap r[j].carries = {}
    <3> SUFFICES ASSUME NEW i \in 1 .. Len(r), NEW j \in 1 .. Len(r), i < j
                 PROVE  r[i].carries \cap r[j].carries = {}
      OBVIOUS
    <3>1. /\ i \in 1 .. n - 1 /\ j \in 1 .. n - 1
          /\ i + 1 \in 1 .. n /\ j + 1 \in 1 .. n /\ i + 1 < j + 1
      BY <1>1, <1>2
    <3>2. q[i + 1].carries \cap q[j + 1].carries = {}
      BY <1>5, <3>1
    <3> QED
      BY <1>2, <3>1, <3>2
  <2> QED
    BY <1>8, <2>1 DEF Shares
<1> QED
  BY <1>2, <1>8, <1>9 DEF r

(* A dispatch goes on with less: what it lets go of has its fate.          *)
LEMMA Moving ==
  ASSUME IInv, NEW d \in Dispatchers, Posting(d), NEW rest \in Seq(Payload),
         Shares(rest, entries), NEW S, S \subseteq Carried(queue[d]),
         Carried(rest) = Carried(queue[d]) \ S,
         NEW how \in {"sent", "refused"}, fate' = Settle(fate, S, how), GoOn(d, rest),
         disabled' \in BOOLEAN,
         UNCHANGED <<now, assemblerVars, closed, pausing, metricVars, entries>>
  PROVE  IInv'
<1> USE DEF IInv
<1>1. /\ open' = open /\ evicted' = evicted /\ now' = now /\ closed' = closed
      /\ pausing' = pausing /\ entries' = entries /\ total' = total
      /\ sinceCollect' = sinceCollect /\ lastRuntimeAt' = lastRuntimeAt /\ reported' = reported
  BY DEF assemblerVars, metricVars
<1>2. /\ queue' = [queue EXCEPT ![d] = rest]
      /\ attempt' = [attempt EXCEPT ![d] = IF rest = <<>> THEN 0 ELSE 1]
      /\ sending' = (sending /\ rest # <<>>)
      /\ closing' = IF d = "close" /\ rest = <<>> THEN "done" ELSE closing
  BY DEF GoOn
<1>3. queue[d] # <<>> /\ sending /\ ~pausing[d]
  <2>1. attempt[d] \in Nat
    BY Positive DEF Typed
  <2> QED
    BY <2>1 DEF Posting, Dispatching
<1>4. \A e \in Dispatchers : e # d => queue[e] = <<>>
  BY <1>3 DEF Dispatching
<1>5. /\ queue'[d] = rest /\ attempt'[d] = IF rest = <<>> THEN 0 ELSE 1
      /\ \A e \in Dispatchers : e # d => queue'[e] = <<>> /\ attempt'[e] = attempt[e]
  BY <1>2, <1>4 DEF Typed
<1>6. Len(fate') = Len(fate) /\ fate' \in Seq(Fates) /\ DOMAIN fate' = DOMAIN fate
      /\ \A n \in DOMAIN fate : fate'[n] = IF n \in S THEN how ELSE fate[n]
  <2>1. fate \in Seq(Fates) /\ fate' = [n \in DOMAIN fate |-> IF n \in S THEN how ELSE fate[n]]
    BY DEF Typed, Settle
  <2>2. Len(fate) \in Nat /\ DOMAIN fate = 1 .. Len(fate) /\ \A n \in 1 .. Len(fate) : fate[n] \in Fates
    BY <2>1, SeqFacts
  <2>3. fate' \in [1 .. Len(fate) -> Fates] /\ DOMAIN fate' = 1 .. Len(fate)
    <3>1. how \in Fates
      BY DEF Fates
    <3>2. \A n \in 1 .. Len(fate) : (IF n \in S THEN how ELSE fate[n]) \in Fates
      BY <2>2, <3>1
    <3> QED
      BY <2>1, <2>2, <3>2
  <2>4. fate' \in Seq(Fates) /\ Len(fate') = Len(fate)
    BY <2>2, <2>3
  <2> QED
    BY <2>1, <2>2, <2>3, <2>4
<1>7. Typed'
  <2>1. attempt' \in [Dispatchers -> 0 .. MaxRetries]
    <3>1. 0 \in 0 .. MaxRetries /\ 1 \in 0 .. MaxRetries
      BY Positive
    <3> QED
      BY <1>2, <3>1 DEF Typed
  <2>2. queue' \in [Dispatchers -> Seq(Payload)]
    BY <1>2 DEF Typed
  <2>3. sending' \in BOOLEAN /\ closing' \in {"no", "sending", "done"}
    BY <1>2 DEF Typed
  <2> QED
    BY <1>1, <1>6, <2>1, <2>2, <2>3 DEF Typed
<1>8. Assembled'
  BY <1>1 DEF Assembled, Sound
<1>9. Dispatching'
  <2>1. ASSUME NEW e \in Dispatchers
        PROVE  /\ attempt'[e] > 0 <=> queue'[e] # <<>>
               /\ pausing'[e] => attempt'[e] > 0 /\ attempt'[e] < MaxRetries
               /\ queue'[e] # <<>> => sending'
               /\ Shares(queue'[e], entries')
    <3>1. CASE e = d
      <4>1. ~pausing'[e]
        BY <1>1, <1>3, <3>1
      <4>2. Shares(queue'[e], entries') /\ queue'[e] = rest
        BY <1>1, <1>5, <3>1
      <4>3. attempt'[e] > 0 <=> queue'[e] # <<>>
        BY <1>5, <3>1
      <4>4. queue'[e] # <<>> => sending'
        BY <1>2, <1>3, <4>2
      <4> QED
        BY <4>1, <4>2, <4>3, <4>4
    <3>2. CASE e # d
      <4>1. queue[e] = <<>> /\ queue'[e] = <<>> /\ attempt'[e] = attempt[e] /\ pausing'[e] = pausing[e]
        BY <1>1, <1>4, <1>5, <3>2
      <4> QED
        BY <1>1, <4>1 DEF Dispatching
    <3> QED
      BY <3>1, <3>2
  <2>2. \A e, f \in Dispatchers : e # f => queue'[e] = <<>> \/ queue'[f] = <<>>
    BY <1>5
  <2> QED
    BY <2>1, <2>2 DEF Dispatching
<1>10. Placed'
  <2>1. InQueues(queue) = Carried(queue[d]) /\ InQueues(queue') = Carried(rest)
    BY <1>4, <1>5, EmptyOnes DEF InQueues, Dispatchers
  <2>2. Told(fate, EntriesOf(open) \cup EntriesOf(evicted), Carried(queue[d]), closed)
    BY <2>1 DEF Placed
  <2> DEFINE H == EntriesOf(open) \cup EntriesOf(evicted)
  <2> HIDE DEF H
  <2>3. Told(fate, H, Carried(queue[d]), closed)
    BY <2>2 DEF H
  <2>4. Told(fate', H, Carried(rest), closed)
    BY <1>6, <2>3 DEF Told
  <2> QED
    BY <1>1, <2>1, <2>4 DEF Placed, H
<1>11. Counted'
  BY <1>1 DEF Counted, MetricsOnce
<1> QED
  BY <1>7, <1>8, <1>9, <1>10, <1>11

(* All of a queue goes.                                                    *)
LEMMA DroppingAll ==
  ASSUME IInv, NEW d \in Dispatchers, Posting(d),
         fate' = Settle(fate, Carried(queue[d]), "refused"), GoOn(d, <<>>),
         disabled' \in BOOLEAN,
         UNCHANGED <<now, assemblerVars, closed, pausing, metricVars, entries>>
  PROVE  IInv'
<1>1. /\ <<>> \in Seq(Payload) /\ Shares(<<>>, entries)
      /\ Carried(<<>>) = Carried(queue[d]) \ Carried(queue[d])
  BY EmptyOnes
<1> QED
  BY <1>1, Moving

(* Its head goes.                                                          *)
LEMMA MovingOn ==
  ASSUME IInv, NEW d \in Dispatchers, Posting(d), NEW how \in {"sent", "refused"},
         fate' = Settle(fate, Head(queue[d]).carries, how), GoOn(d, Tail(queue[d])),
         disabled' \in BOOLEAN,
         UNCHANGED <<now, assemblerVars, closed, pausing, metricVars, entries>>
  PROVE  IInv'
<1>1. /\ queue[d] \in Seq(Payload) /\ Shares(queue[d], entries) /\ queue[d] # <<>>
  BY DEF IInv, Typed, Dispatching, Posting
<1>2. /\ Tail(queue[d]) \in Seq(Payload) /\ Shares(Tail(queue[d]), entries)
      /\ Head(queue[d]).carries \subseteq Carried(queue[d])
      /\ Carried(Tail(queue[d])) = Carried(queue[d]) \ Head(queue[d]).carries
  BY <1>1, TailShares
<1> QED
  BY <1>2, Moving

LEMMA PostIInv ==
  ASSUME IInv, NEW d \in Dispatchers, Post(d)
  PROVE  IInv'
<1>1. CASE Accepted(d)
  <2>1. disabled' \in BOOLEAN
    BY <1>1 DEF Accepted, IInv, Typed
  <2> QED
    BY <1>1, <2>1, MovingOn DEF Accepted
<1>2. CASE Rejected(d)
  <2>1. disabled' \in BOOLEAN
    BY <1>2 DEF Rejected, IInv, Typed
  <2> QED
    BY <1>2, <2>1, MovingOn DEF Rejected
<1>3. CASE Unauthorised(d)
  BY <1>3, DroppingAll DEF Unauthorised
<1>4. CASE Suppressed(d)
  <2>1. disabled' \in BOOLEAN
    BY <1>4 DEF Suppressed, IInv, Typed
  <2> QED
    BY <1>4, <2>1, DroppingAll DEF Suppressed
<1>5. CASE Unanswered(d) /\ LastAttempt(d)
  <2>1. disabled' \in BOOLEAN
    BY <1>5 DEF Unanswered, IInv, Typed
  <2> QED
    BY <1>5, <2>1, MovingOn DEF Unanswered
<1>6. CASE Unanswered(d) /\ ~LastAttempt(d)
  <2>1. /\ pausing' = [pausing EXCEPT ![d] = TRUE]
        /\ UNCHANGED <<now, open, evicted, sending, closed, disabled, closing, queue, attempt,
                       total, sinceCollect, lastRuntimeAt, reported, entries, fate>>
    BY <1>6 DEF Unanswered, assemblerVars, metricVars
  <2>2. attempt[d] > 0 /\ attempt[d] < MaxRetries
    <3>1. attempt[d] \in 0 .. MaxRetries /\ MaxRetries \in Nat
      BY Positive DEF IInv, Typed
    <3> QED
      BY <1>6, <3>1 DEF Unanswered, LastAttempt, Posting
  <2>3. Typed'
    BY <2>1 DEF IInv, Typed
  <2>4. Dispatching'
    BY <2>1, <2>2 DEF IInv, Dispatching, Typed
  <2>5. Assembled' /\ Placed' /\ Counted'
    BY <2>1 DEF IInv, Assembled, Placed, Counted, Sound, MetricsOnce
  <2> QED
    BY <2>3, <2>4, <2>5 DEF IInv
<1>7. CASE Retry(d)
  <2>1. /\ pausing[d] /\ pausing' = [pausing EXCEPT ![d] = FALSE]
        /\ attempt' = [attempt EXCEPT ![d] = @ + 1]
        /\ UNCHANGED <<now, open, evicted, sending, closed, disabled, closing, queue,
                       total, sinceCollect, lastRuntimeAt, reported, entries, fate>>
    BY <1>7 DEF Retry, assemblerVars, metricVars
  <2>2. /\ attempt[d] \in 0 .. MaxRetries /\ MaxRetries \in Nat
        /\ attempt[d] > 0 /\ attempt[d] < MaxRetries
    BY <2>1, Positive DEF IInv, Typed, Dispatching
  <2>3. Typed'
    <3>1. attempt' \in [Dispatchers -> 0 .. MaxRetries]
      <4>1. attempt[d] + 1 \in 0 .. MaxRetries
        BY <2>2
      <4> QED
        BY <2>1, <4>1 DEF IInv, Typed
    <3> QED
      BY <2>1, <3>1 DEF IInv, Typed
  <2>4. Dispatching'
    <3>1. /\ ~pausing'[d] /\ attempt'[d] > 0 /\ queue[d] # <<>>
          /\ \A e \in Dispatchers : e # d => pausing'[e] = pausing[e] /\ attempt'[e] = attempt[e]
      BY <2>1, <2>2 DEF IInv, Typed, Dispatching
    <3> QED
      BY <2>1, <3>1 DEF IInv, Dispatching
  <2>5. Assembled' /\ Placed' /\ Counted'
    BY <2>1 DEF IInv, Assembled, Placed, Counted, Sound, MetricsOnce
  <2> QED
    BY <2>3, <2>4, <2>5 DEF IInv
<1> QED
  BY <1>1, <1>2, <1>3, <1>4, <1>5, <1>6, <1>7 DEF Post

-----------------------------------------------------------------------------
(* The clock and the metrics.                                              *)

LEMMA TimePassesIInv ==
  ASSUME IInv, TimePasses
  PROVE  IInv'
<1>1. /\ now' = now + 1 /\ now < MaxTime
      /\ UNCHANGED <<open, evicted, sending, closed, disabled, closing, queue, attempt, pausing,
                     total, sinceCollect, lastRuntimeAt, reported, entries, fate>>
  BY DEF TimePasses, assemblerVars, postVars, metricVars
<1>2. now \in 0 .. MaxTime /\ MaxTime \in Nat /\ now' \in 0 .. MaxTime /\ now' >= now
  BY <1>1, Positive DEF IInv, Typed
<1>3. Typed'
  BY <1>1, <1>2 DEF IInv, Typed
<1>4. Assembled'
  <2>1. ToSet(open) \subseteq Batch /\ \A b \in ToSet(open) : b.touched <= now
    BY SeqFacts DEF IInv, Typed, Assembled, Sound
  <2>2. \A b \in ToSet(open) : b.touched \in Nat
    BY <2>1 DEF Batch
  <2>3. \A b \in ToSet(open) : b.touched <= now'
    BY <1>2, <2>1, <2>2
  <2> QED
    BY <1>1, <2>3 DEF IInv, Assembled, Sound
<1>5. Dispatching' /\ Placed' /\ Counted'
  BY <1>1 DEF IInv, Dispatching, Placed, Counted, MetricsOnce
<1> QED
  BY <1>3, <1>4, <1>5 DEF IInv

LEMMA ObserveRecordIInv ==
  ASSUME IInv, ObserveRecord
  PROVE  IInv'
<1>1. /\ total' = total + 1 /\ sinceCollect' = sinceCollect + 1
      /\ UNCHANGED <<now, open, evicted, sending, closed, disabled, closing, queue, attempt, pausing,
                     lastRuntimeAt, reported, entries, fate>>
  BY DEF ObserveRecord, assemblerVars, postVars
<1>2. Typed' /\ Assembled' /\ Dispatching' /\ Placed'
  BY <1>1 DEF IInv, Typed, Assembled, Sound, Dispatching, Placed
<1>3. Counted'
  BY <1>1 DEF IInv, Counted, MetricsOnce
<1> QED
  BY <1>2, <1>3 DEF IInv

-----------------------------------------------------------------------------
(* A flush of the recorder.                                                *)

(* What the ceiling does with the batches q that are open after a flush.   *)
Excess(q) == IF Len(q) > MaxOpen THEN Len(q) - MaxOpen ELSE 0
Kept(q) == SubSeq(q, Excess(q) + 1, Len(q))
Shed(q) == SubSeq(q, 1, Excess(q))

LEMMA CeilingKeeps ==
  ASSUME NEW q, NEW es, Sound(q, es)
  PROVE  /\ Sound(Kept(q), es) /\ Len(Kept(q)) <= MaxOpen
         /\ Shed(q) \in Seq(Batch) /\ Orderly(Shed(q), es)
         /\ EntriesOf(Kept(q)) \cap EntriesOf(Shed(q)) = {}
         /\ EntriesOf(Kept(q)) \cup EntriesOf(Shed(q)) = EntriesOf(q)
         /\ Shed(q) # <<>> => Len(Kept(q)) = MaxOpen
         /\ \A b \in ToSet(Shed(q)), c \in ToSet(Kept(q)) : b.touched <= c.touched
         /\ ToSet(q) = ToSet(Kept(q)) \cup ToSet(Shed(q))
<1> DEFINE n == Len(q)
           x == Excess(q)
           kept == Kept(q)
           shed == Shed(q)
<1>1. /\ q \in Seq(Batch) /\ Orderly(q, es) /\ Sorted(q) /\ \A b \in ToSet(q) : b.touched <= now
  BY DEF Sound
<1>2. n \in Nat /\ ToSet(q) = {q[i] : i \in 1 .. n}
  BY <1>1, SeqFacts
<1>3. x \in 0 .. n /\ MaxOpen \in Nat \ {0} /\ n - x <= MaxOpen /\ (x # 0 => n - x = MaxOpen)
  <2>1. MaxOpen \in Nat \ {0}
    BY Positive
  <2> QED
    BY <1>2, <2>1 DEF Excess
<1>4. \A a \in Nat \ {0}, b \in 0 .. n : a <= b + 1 =>
        /\ SubSeq(q, a, b) \in Seq(Batch) /\ Len(SubSeq(q, a, b)) = b + 1 - a
        /\ ToSet(SubSeq(q, a, b)) = {q[i] : i \in a .. b}
        /\ InOrderOf(SubSeq(q, a, b), q)
  BY <1>1, SubSeqKeeps
<1> HIDE DEF n, x
<1>5. /\ kept \in Seq(Batch) /\ Len(kept) = n + 1 - (x + 1)
      /\ ToSet(kept) = {q[i] : i \in x + 1 .. n}
      /\ InOrderOf(kept, q)
  <2>1. x + 1 \in Nat \ {0} /\ n \in 0 .. n /\ x + 1 <= n + 1
    BY <1>2, <1>3
  <2>2. kept = SubSeq(q, x + 1, n)
    BY DEF Kept, x, n
  <2> QED
    BY <1>4, <2>1, <2>2
<1>6. /\ shed \in Seq(Batch) /\ Len(shed) = x + 1 - 1
      /\ ToSet(shed) = {q[i] : i \in 1 .. x}
      /\ InOrderOf(shed, q)
  <2>1. 1 \in Nat \ {0} /\ 1 <= x + 1
    BY <1>3
  <2>2. shed = SubSeq(q, 1, x)
    BY DEF Shed, x
  <2> QED
    BY <1>3, <1>4, <2>1, <2>2
<1> HIDE DEF kept, shed
<1>7. /\ \A i \in x + 1 .. n : i \in 1 .. n
      /\ \A i \in 1 .. x : i \in 1 .. n
      /\ \A i \in 1 .. n : i \in 1 .. x \/ i \in x + 1 .. n
      /\ \A i \in 1 .. x, j \in x + 1 .. n : i < j
  BY <1>2, <1>3
<1>8. ToSet(kept) \subseteq ToSet(q) /\ ToSet(shed) \subseteq ToSet(q)
  BY <1>2, <1>5, <1>6, <1>7
<1>9. Orderly(kept, es) /\ Sorted(kept)
  BY <1>1, <1>5, <1>8, InOrderKeeps
<1>10. Orderly(shed, es)
  BY <1>1, <1>6, <1>8, InOrderKeeps
<1>11. \A b \in ToSet(shed), c \in ToSet(kept) :
         b.touched <= c.touched /\ Members(b) \cap Members(c) = {}
  <2> TAKE b \in ToSet(shed), c \in ToSet(kept)
  <2>1. PICK i \in 1 .. x : b = q[i]
    BY <1>6
  <2>2. PICK j \in x + 1 .. n : c = q[j]
    BY <1>5
  <2>3. i \in 1 .. Len(q) /\ j \in 1 .. Len(q) /\ i < j
    BY <1>7 DEF n
  <2> QED
    BY <1>1, <2>1, <2>2, <2>3 DEF Sorted, Orderly
<1>12. EntriesOf(kept) \cap EntriesOf(shed) = {}
  BY <1>11 DEF EntriesOf
<1>13. ToSet(q) = ToSet(kept) \cup ToSet(shed)
  BY <1>2, <1>5, <1>6, <1>7
<1>14. EntriesOf(kept) \cup EntriesOf(shed) = EntriesOf(q)
  BY <1>13 DEF EntriesOf
<1>15. shed # <<>> => Len(kept) = MaxOpen
  <2>1. shed # <<>> => Len(shed) # 0
    BY <1>6, EmptySeq
  <2> QED
    BY <1>2, <1>3, <1>5, <1>6, <2>1
<1>16. Sound(kept, es) /\ Len(kept) <= MaxOpen
  <2>1. Len(kept) <= MaxOpen
    BY <1>2, <1>3, <1>5
  <2> QED
    BY <1>1, <1>5, <1>8, <1>9, <2>1 DEF Sound
<1> QED
  BY <1>6, <1>10, <1>11, <1>12, <1>13, <1>14, <1>15, <1>16 DEF kept, shed

(* The flush brings the entries tk, and the assembler has the batches q    *)
(* before the ceiling.                                                     *)
Brings(tk, q) ==
  /\ tk \in Seq(Entry)
  /\ entries' = entries \o tk
  /\ fate' = fate \o [i \in 1 .. Len(tk) |-> "held"]
  /\ Sound(q, entries')
  /\ EntriesOf(q) = EntriesOf(open) \cup (Len(entries) + 1 .. Len(entries) + Len(tk))
  /\ Grown(open, q)
  /\ open' = Kept(q)
  /\ evicted' = evicted \o Shed(q)

(* Which element is where in a concatenation.                              *)
Concatenates(r, s, t) ==
  /\ Len(r) = Len(s) + Len(t)
  /\ \A i \in 1 .. Len(s) : r[i] = s[i]
  /\ \A k \in 1 .. Len(t) : r[Len(s) + k] = t[k]

LEMMA ConcatIs ==
  ASSUME NEW X, NEW s \in Seq(X), NEW t \in Seq(X)
  PROVE  s \o t \in Seq(X) /\ Concatenates(s \o t, s, t)
BY ConcatFacts DEF Concatenates

LEMMA FlushFacts ==
  ASSUME IInv, ObserveFlush
  PROVE  \E tk, q : Brings(tk, q)
<1> DEFINE f == Len(entries)
           tk(s) == [i \in DOMAIN s |->
                       [n |-> f + i, batch |-> s[i].batch, kind |-> s[i].kind, at |-> now]]
<1>1. PICK s \in Flushes :
        LET taken  == [i \in DOMAIN s |->
                        [n |-> f + i, batch |-> s[i].batch, kind |-> s[i].kind, at |-> now]]
            opened == FoldLeft(Accept, open, taken)
            excess == IF Len(opened) > MaxOpen THEN Len(opened) - MaxOpen ELSE 0
        IN  /\ entries' = entries \o taken
            /\ fate' = fate \o [i \in DOMAIN s |-> "held"]
            /\ open' = SubSeq(opened, excess + 1, Len(opened))
            /\ evicted' = evicted \o SubSeq(opened, 1, excess)
  BY DEF ObserveFlush
<1>2. PICK t : t = tk(s)
  OBVIOUS
<1>3. PICK q : q = Opened(open, t)
  OBVIOUS
<1>4. /\ entries' = entries \o t /\ fate' = fate \o [i \in DOMAIN s |-> "held"]
      /\ open' = Kept(q) /\ evicted' = evicted \o Shed(q)
  BY <1>1, <1>2, <1>3 DEF Kept, Shed, Excess, Opened
<1>5. s \in Seq([batch : Batches, kind : Kinds])
  BY ObserveAssumption
<1>6. Len(s) \in Nat /\ DOMAIN s = 1 .. Len(s) /\ \A i \in 1 .. Len(s) : s[i] \in [batch : Batches, kind : Kinds]
  BY <1>5, SeqFacts
<1>7. f \in Nat /\ now \in Nat /\ entries \in Seq(Entry) /\ open \in Seq(Batch) /\ DOMAIN entries = 1 .. f
  <2>1. MaxTime \in Nat
    BY Positive
  <2> QED
    BY <2>1, SeqFacts DEF IInv, Typed
<1> HIDE DEF f
<1>8. \A i \in 1 .. Len(s) : /\ t[i].n = f + i /\ t[i].at = now
                             /\ t[i] \in Entry
  BY <1>2, <1>6, <1>7 DEF Entry
<1>9. t \in Seq(Entry) /\ Len(t) = Len(s)
  <2>1. t \in [1 .. Len(s) -> Entry]
    BY <1>2, <1>6, <1>8
  <2> QED
    BY <1>6, <2>1
<1>10. PICK es : es = entries \o t
  OBVIOUS
<1>11. /\ es \in Seq(Entry) /\ Len(es) = f + Len(t)
       /\ \A k \in 1 .. Len(t) : es[f + k] = t[k]
  <2>1. /\ entries \o t \in Seq(Entry) /\ Len(entries \o t) = Len(entries) + Len(t)
        /\ \A k \in 1 .. Len(t) : (entries \o t)[Len(entries) + k] = t[k]
    <3>1. entries \in Seq(Entry) /\ t \in Seq(Entry)
      BY <1>7, <1>9
    <3> QED
      BY <3>1, ConcatIs DEF Concatenates
  <2> QED
    BY <1>10, <2>1 DEF f
<1>12. Sound(open, es)
  BY <1>7, <1>9, <1>10, StaysOrderly DEF IInv, Assembled, Sound
<1>13. EntriesOf(open) \subseteq 1 .. f
  BY <1>7, HeldArrived DEF IInv, Assembled, Sound
<1>14. /\ Sound(q, es) /\ Grown(open, q)
       /\ EntriesOf(q) = EntriesOf(open) \cup (f + 1 .. f + Len(t))
  <2>1. \A k \in 1 .. Len(t) : t[k].n = f + k /\ t[k].at = now /\ es[f + k] = t[k]
    BY <1>8, <1>9, <1>11
  <2>2. f \in Nat /\ now \in Nat /\ t \in Seq(Entry) /\ es \in Seq(Entry) /\ Len(es) = f + Len(t)
    BY <1>7, <1>9, <1>11
  <2>3. Before(open, f, es) /\ Arriving(t, f, es)
    BY <1>12, <1>13, <2>1, <2>2 DEF Before, Arriving
  <2>4. After(open, Opened(open, t), f, t, es)
    BY <2>2, <2>3, OpenedKeeps
  <2> QED
    BY <1>3, <2>4 DEF After
<1>15. fate' = fate \o [i \in 1 .. Len(t) |-> "held"]
  BY <1>4, <1>6, <1>9
<1>16. Brings(t, q)
  BY <1>4, <1>9, <1>10, <1>14, <1>15 DEF Brings, f
<1> QED
  BY <1>16

LEMMA ObserveFlushIInv ==
  ASSUME IInv, ObserveFlush
  PROVE  IInv'
<1>1. PICK tk, q : Brings(tk, q)
  BY FlushFacts
<1>2. /\ tk \in Seq(Entry) /\ entries' = entries \o tk
      /\ fate' = fate \o [i \in 1 .. Len(tk) |-> "held"]
      /\ Sound(q, entries')
      /\ EntriesOf(q) = EntriesOf(open) \cup (Len(entries) + 1 .. Len(entries) + Len(tk))
      /\ open' = Kept(q) /\ evicted' = evicted \o Shed(q)
  BY <1>1 DEF Brings
<1>3. UNCHANGED <<now, sending, closed, disabled, closing, queue, attempt, pausing,
                  total, sinceCollect, lastRuntimeAt, reported>>
  BY DEF ObserveFlush, postVars, metricVars
<1>4. /\ entries \in Seq(Entry) /\ fate \in Seq(Fates) /\ Len(fate) = Len(entries)
      /\ evicted \in Seq(Batch) /\ open \in Seq(Batch)
      /\ Sound(open, entries) /\ Orderly(open, entries) /\ Orderly(evicted, entries)
      /\ EntriesOf(open) \cap EntriesOf(evicted) = {}
  BY DEF IInv, Typed, Assembled, Sound
<1>5. PICK f : f = Len(entries)
  OBVIOUS
<1>6. PICK m : m = Len(tk)
  OBVIOUS
<1>7. f \in Nat /\ m \in Nat /\ DOMAIN entries = 1 .. f /\ DOMAIN fate = 1 .. f
  BY <1>2, <1>4, <1>5, <1>6, SeqFacts
<1>8. /\ entries' \in Seq(Entry) /\ Len(entries') = f + m
      /\ DOMAIN entries' = 1 .. f + m
  <2>1. entries' \in Seq(Entry) /\ Len(entries') = f + m
    BY <1>2, <1>4, <1>5, <1>6, ConcatFacts
  <2> QED
    BY <2>1, SeqFacts
<1>9. /\ fate' \in Seq(Fates) /\ Len(fate') = f + m /\ DOMAIN fate' = 1 .. f + m
      /\ \A n \in 1 .. f : fate'[n] = fate[n]
      /\ \A n \in f + 1 .. f + m : fate'[n] = "held"
  <2>1. PICK g : g = [i \in 1 .. m |-> "held"]
    OBVIOUS
  <2>2. g \in Seq(Fates) /\ Len(g) = m /\ \A i \in 1 .. m : g[i] = "held"
    <3>1. g \in [1 .. m -> Fates] /\ \A i \in 1 .. m : g[i] = "held"
      BY <2>1 DEF Fates
    <3>2. DOMAIN g = 1 .. m
      BY <2>1
    <3> QED
      BY <1>7, <3>1, <3>2
  <2>3. fate' = fate \o g
    BY <1>2, <1>6, <2>1
  <2>4. /\ fate' \in Seq(Fates) /\ Len(fate') = f + m
        /\ \A n \in 1 .. f : fate'[n] = fate[n]
        /\ \A i \in 1 .. m : fate'[f + i] = g[i]
    <3>1. /\ fate \o g \in Seq(Fates) /\ Len(fate \o g) = Len(fate) + Len(g)
          /\ \A n \in 1 .. Len(fate) : (fate \o g)[n] = fate[n]
          /\ \A i \in 1 .. Len(g) : (fate \o g)[Len(fate) + i] = g[i]
      <4>1. fate \in Seq(Fates) /\ g \in Seq(Fates)
        BY <1>4, <2>2
      <4> QED
        BY <4>1, ConcatIs DEF Concatenates
    <3> QED
      BY <1>4, <1>5, <2>2, <2>3, <3>1
  <2>5. DOMAIN fate' = 1 .. f + m
    BY <2>4, SeqFacts
  <2>6. \A n \in f + 1 .. f + m : n - f \in 1 .. m /\ n = f + (n - f)
    BY <1>7
  <2>7. \A n \in f + 1 .. f + m : fate'[n] = "held"
    BY <2>2, <2>4, <2>6
  <2> QED
    BY <2>4, <2>5, <2>7
<1>10. /\ Sound(Kept(q), entries') /\ Len(Kept(q)) <= MaxOpen
       /\ Shed(q) \in Seq(Batch) /\ Orderly(Shed(q), entries')
       /\ EntriesOf(Kept(q)) \cap EntriesOf(Shed(q)) = {}
       /\ EntriesOf(Kept(q)) \cup EntriesOf(Shed(q)) = EntriesOf(q)
  BY <1>2, CeilingKeeps
<1>11. Orderly(evicted, entries')
  BY <1>2, <1>4, StaysOrderly
<1>12. EntriesOf(evicted) \subseteq 1 .. f /\ EntriesOf(open) \subseteq 1 .. f
  BY <1>4, <1>7, HeldArrived
<1>13. EntriesOf(evicted) \cap EntriesOf(q) = {}
  <2>1. (f + 1 .. f + m) \cap (1 .. f) = {}
    BY <1>7
  <2> QED
    BY <1>2, <1>4, <1>5, <1>6, <1>12, <2>1
<1>14. EntriesOf(evicted) \cap EntriesOf(Shed(q)) = {}
  BY <1>10, <1>13
<1>15. /\ evicted' \in Seq(Batch) /\ Orderly(evicted', entries')
       /\ EntriesOf(evicted') = EntriesOf(evicted) \cup EntriesOf(Shed(q))
  BY <1>2, <1>4, <1>10, <1>11, <1>14, OrderlyConcat
<1>16. open' \in Seq(Batch) /\ Len(open') <= MaxOpen
  BY <1>2, <1>10 DEF Sound
<1>17. Typed'
  BY <1>3, <1>8, <1>9, <1>15, <1>16 DEF IInv, Typed
<1>18. Assembled'
  <2>1. EntriesOf(open') \cap EntriesOf(evicted') = {}
    BY <1>2, <1>10, <1>13, <1>15
  <2>2. Sound(open', entries')
    BY <1>2, <1>10
  <2> QED
    BY <1>3, <1>15, <2>1, <2>2 DEF Assembled, Sound
<1>19. Dispatching'
  <2>1. \A p : Shares(p, entries) => Shares(p, entries')
    <3>1. DOMAIN entries \subseteq DOMAIN entries'
      BY <1>7, <1>8
    <3> QED
      BY <3>1 DEF Shares
  <2> QED
    BY <1>3, <2>1 DEF IInv, Dispatching
<1>20. Placed'
  <2>1. EntriesOf(open') \cup EntriesOf(evicted') =
          EntriesOf(open) \cup EntriesOf(evicted) \cup (f + 1 .. f + m)
    BY <1>2, <1>5, <1>6, <1>10, <1>15
  <2>2. InQueues(queue) \subseteq 1 .. f
    BY <1>7 DEF IInv, Dispatching, Shares, InQueues, Dispatchers
  <2> DEFINE H == EntriesOf(open) \cup EntriesOf(evicted)
             O == InQueues(queue)
  <2>3. Told(fate, H, O, closed) /\ O \subseteq 1 .. f
    BY <2>2 DEF IInv, Placed
  <2> HIDE DEF H, O
  <2>4. ASSUME NEW n \in 1 .. f + m
        PROVE  /\ fate'[n] = "held" <=> n \in H \cup (f + 1 .. f + m)
               /\ fate'[n] = "outgoing" <=> n \in O
               /\ fate'[n] = "vanished" => closed
    <3>1. CASE n \in 1 .. f
      <4>1. fate'[n] = fate[n] /\ n \notin f + 1 .. f + m
        BY <1>7, <1>9, <3>1
      <4> QED
        BY <1>7, <2>3, <3>1, <4>1 DEF Told
    <3>2. CASE n \notin 1 .. f
      <4>1. n \in f + 1 .. f + m
        BY <1>7, <3>2
      <4>2. fate'[n] = "held" /\ n \notin O
        BY <1>9, <2>3, <3>2, <4>1
      <4> QED
        BY <4>1, <4>2
    <3> QED
      BY <3>1, <3>2
  <2>5. Told(fate', H \cup (f + 1 .. f + m), O, closed)
    BY <1>9, <2>4 DEF Told
  <2> QED
    BY <1>3, <2>1, <2>5 DEF Placed, H, O
<1>21. Counted'
  BY <1>3 DEF IInv, Counted, MetricsOnce
<1> QED
  BY <1>17, <1>18, <1>19, <1>20, <1>21 DEF IInv

-----------------------------------------------------------------------------
(* A dispatch begins.                                                      *)

(* The dispatcher d has the payloads p of the batches B.                   *)
Launches(d, B, p) ==
  /\ p \in Seq(Payload) /\ Shares(p, entries) /\ Carried(p) \subseteq EntriesOf(B)
  /\ queue' = [queue EXCEPT ![d] = p]
  /\ attempt' = [attempt EXCEPT ![d] = IF p = <<>> THEN 0 ELSE 1]
  /\ sending' = (sending \/ p # <<>>)
  /\ pausing' = pausing
  /\ fate' \in Seq(Fates) /\ Len(fate') = Len(fate) /\ DOMAIN fate' = DOMAIN fate
  /\ \A n \in DOMAIN fate :
       IF n \in EntriesOf(B)
       THEN (fate'[n] = "outgoing" <=> n \in Carried(p)) /\ fate'[n] \notin {"held", "vanished"}
       ELSE fate'[n] = fate[n]
  /\ lastRuntimeAt' \in Int
  /\ Counted'

LEMMA FateOfIs ==
  ASSUME NEW n, NEW w, NEW B, Collected(w, B)
  PROVE  /\ FateOf(n, w) \in Fates
         /\ FateOf(n, w) = "outgoing" <=> n \in Outgoing(w)
         /\ FateOf(n, w) \notin {"held", "vanished"}
<1>1. n \in w.sampled => n \notin Outgoing(w)
  BY DEF Collected
<1>2. CASE n \in Outgoing(w)
  <2>1. FateOf(n, w) = "outgoing"
    BY <1>1, <1>2 DEF FateOf
  <2> QED
    BY <1>2, <2>1 DEF Fates
<1>3. CASE n \notin Outgoing(w)
  <2>1. FateOf(n, w) \in {"sampledOut", "overCap", "unencodable"}
    BY <1>3 DEF FateOf
  <2> QED
    BY <1>3, <2>1 DEF Fates
<1> QED
  BY <1>2, <1>3

LEMMA StartFacts ==
  ASSUME IInv, NEW d \in Dispatchers, NEW B \in Seq(Batch), Orderly(B, entries), Start(d, B)
  PROVE  \E p : Launches(d, B, p)
<1>1. PICK beat \in {FALSE, now - lastRuntimeAt >= RuntimeInterval}, w \in {Collect(B)} :
        \E payloads \in {Build(w, beat)}, taken \in {UNION {Members(b) : b \in ToSet(B)}} :
          /\ fate' = [n \in DOMAIN fate |-> IF n \in taken THEN FateOf(n, w) ELSE fate[n]]
          /\ queue' = [queue EXCEPT ![d] = payloads]
          /\ attempt' = [attempt EXCEPT ![d] = IF payloads = <<>> THEN 0 ELSE 1]
          /\ sending' = (sending \/ payloads # <<>>)
          /\ reported' = reported + FoldLeft(LAMBDA s, p : s + p.iv, 0, payloads)
          /\ sinceCollect' = IF payloads = <<>> THEN sinceCollect ELSE 0
          /\ lastRuntimeAt' = IF beat THEN now ELSE lastRuntimeAt
          /\ UNCHANGED <<pausing, total>>
  BY DEF Start
<1>2. PICK p : p = Build(w, beat)
  OBVIOUS
<1>3. PICK sum : sum = FoldLeft(LAMBDA s, x : s + x.iv, 0, p)
  OBVIOUS
<1>4. /\ fate' = [n \in DOMAIN fate |-> IF n \in EntriesOf(B) THEN FateOf(n, w) ELSE fate[n]]
      /\ queue' = [queue EXCEPT ![d] = p]
      /\ attempt' = [attempt EXCEPT ![d] = IF p = <<>> THEN 0 ELSE 1]
      /\ sending' = (sending \/ p # <<>>)
      /\ reported' = reported + sum
      /\ sinceCollect' = IF p = <<>> THEN sinceCollect ELSE 0
      /\ lastRuntimeAt' = IF beat THEN now ELSE lastRuntimeAt
      /\ pausing' = pausing /\ total' = total
  BY <1>1, <1>2, <1>3, Zenon DEF EntriesOf
<1>5. now \in Int /\ lastRuntimeAt \in Int /\ RuntimeInterval \in Int
  BY Positive DEF IInv, Typed
<1>6. beat \in BOOLEAN /\ w = Collect(B)
  <2>1. (now - lastRuntimeAt >= RuntimeInterval) \in BOOLEAN
    BY <1>5
  <2>2. beat = FALSE \/ beat = (now - lastRuntimeAt >= RuntimeInterval)
    BY Zenon
  <2>3. beat \in BOOLEAN
    BY <2>1, <2>2, Zenon
  <2> QED
    BY <2>3
<1>7. Collected(w, B)
  BY <1>6, CollectKeeps
<1>8. sinceCollect \in Nat /\ total \in Nat /\ reported \in Nat /\ total = reported + sinceCollect
  BY DEF IInv, Counted, MetricsOnce
<1>9. Built(p, w)
  BY <1>2, <1>6, <1>7, <1>8, BuildKeeps
<1>10. sum = IF p = <<>> THEN 0 ELSE sinceCollect
  BY <1>3, <1>8, <1>9, SumOfBuilt
<1>11. /\ p \in Seq(Payload) /\ Carried(p) = Outgoing(w) /\ Outgoing(w) \subseteq EntriesOf(B)
       /\ \A i, j \in 1 .. Len(p) : i < j => p[i].carries \cap p[j].carries = {}
  BY <1>7, <1>9 DEF Built, Collected
<1>12. EntriesOf(B) \subseteq DOMAIN entries
  BY HeldArrived
<1>13. Shares(p, entries)
  BY <1>11, <1>12 DEF Shares
<1>14. \A n : /\ FateOf(n, w) \in Fates
              /\ FateOf(n, w) = "outgoing" <=> n \in Outgoing(w)
              /\ FateOf(n, w) \notin {"held", "vanished"}
  BY <1>7, FateOfIs
<1>15. /\ fate' \in Seq(Fates) /\ Len(fate') = Len(fate) /\ DOMAIN fate' = DOMAIN fate
       /\ \A n \in DOMAIN fate :
            fate'[n] = IF n \in EntriesOf(B) THEN FateOf(n, w) ELSE fate[n]
  <2>1. fate \in Seq(Fates)
    BY DEF IInv, Typed
  <2>2. Len(fate) \in Nat /\ DOMAIN fate = 1 .. Len(fate) /\ \A n \in 1 .. Len(fate) : fate[n] \in Fates
    BY <2>1, SeqFacts
  <2>3. \A n \in 1 .. Len(fate) : (IF n \in EntriesOf(B) THEN FateOf(n, w) ELSE fate[n]) \in Fates
    BY <1>14, <2>2
  <2>4. fate' \in [1 .. Len(fate) -> Fates] /\ DOMAIN fate' = 1 .. Len(fate)
    BY <1>4, <2>2, <2>3
  <2>5. fate' \in Seq(Fates) /\ Len(fate') = Len(fate)
    BY <2>2, <2>4
  <2> QED
    BY <1>4, <2>2, <2>4, <2>5
<1>16. ASSUME NEW n \in DOMAIN fate
       PROVE  IF n \in EntriesOf(B)
              THEN (fate'[n] = "outgoing" <=> n \in Carried(p)) /\ fate'[n] \notin {"held", "vanished"}
              ELSE fate'[n] = fate[n]
  <2>1. fate'[n] = IF n \in EntriesOf(B) THEN FateOf(n, w) ELSE fate[n]
    BY <1>15
  <2> QED
    BY <1>11, <1>14, <2>1
<1>17. Counted'
  BY <1>4, <1>8, <1>10 DEF Counted, MetricsOnce
<1>18. lastRuntimeAt' \in Int
  BY <1>4, <1>5
<1>19. Launches(d, B, p)
  BY <1>4, <1>11, <1>13, <1>15, <1>16, <1>17, <1>18 DEF Launches
<1> QED
  BY <1>19

(* The assembler has let go of the batches B.                              *)
LEMMA Dispatched ==
  ASSUME IInv, ~sending, NEW d \in Dispatchers, NEW B, NEW p, Launches(d, B, p),
         UNCHANGED <<now, disabled, entries>>,
         closed' \in BOOLEAN, closed => closed', closing' \in {"no", "sending", "done"},
         open' \in Seq(Batch), Len(open') <= MaxOpen, evicted' \in Seq(Batch), Assembled',
         EntriesOf(open') \cup EntriesOf(evicted') =
           (EntriesOf(open) \cup EntriesOf(evicted)) \ EntriesOf(B)
  PROVE  IInv'
<1>1. /\ p \in Seq(Payload) /\ Shares(p, entries) /\ Carried(p) \subseteq EntriesOf(B)
      /\ queue' = [queue EXCEPT ![d] = p]
      /\ attempt' = [attempt EXCEPT ![d] = IF p = <<>> THEN 0 ELSE 1]
      /\ sending' = (sending \/ p # <<>>) /\ pausing' = pausing
      /\ fate' \in Seq(Fates) /\ Len(fate') = Len(fate) /\ DOMAIN fate' = DOMAIN fate
      /\ lastRuntimeAt' \in Int /\ Counted'
  BY DEF Launches
<1>2. \A n \in DOMAIN fate :
        IF n \in EntriesOf(B)
        THEN (fate'[n] = "outgoing" <=> n \in Carried(p)) /\ fate'[n] \notin {"held", "vanished"}
        ELSE fate'[n] = fate[n]
  BY DEF Launches
<1>3. \A e \in Dispatchers : queue[e] = <<>> /\ ~pausing[e] /\ attempt[e] = 0
  <2> TAKE e \in Dispatchers
  <2>1. queue[e] = <<>> /\ ~(attempt[e] > 0) /\ ~pausing[e]
    BY DEF IInv, Dispatching
  <2>2. attempt[e] \in Nat
    BY Positive DEF IInv, Typed
  <2> QED
    BY <2>1, <2>2
<1>4. /\ queue'[d] = p /\ attempt'[d] = IF p = <<>> THEN 0 ELSE 1
      /\ \A e \in Dispatchers : e # d => queue'[e] = <<>> /\ attempt'[e] = 0
  BY <1>1, <1>3 DEF IInv, Typed
<1>5. Typed'
  <2>1. queue' \in [Dispatchers -> Seq(Payload)] /\ sending' \in BOOLEAN
    BY <1>1 DEF IInv, Typed
  <2>2. attempt' \in [Dispatchers -> 0 .. MaxRetries]
    <3>1. 0 \in 0 .. MaxRetries /\ 1 \in 0 .. MaxRetries
      BY Positive
    <3> QED
      BY <1>1, <3>1 DEF IInv, Typed
  <2> QED
    BY <1>1, <2>1, <2>2 DEF IInv, Typed
<1>6. Dispatching'
  <2>1. ASSUME NEW e \in Dispatchers
        PROVE  /\ attempt'[e] > 0 <=> queue'[e] # <<>>
               /\ pausing'[e] => attempt'[e] > 0 /\ attempt'[e] < MaxRetries
               /\ queue'[e] # <<>> => sending'
               /\ Shares(queue'[e], entries')
    <3>1. ~pausing'[e]
      BY <1>1, <1>3
    <3>2. CASE e = d
      <4>1. attempt'[e] > 0 <=> queue'[e] # <<>>
        BY <1>4, <3>2
      <4>2. (queue'[e] # <<>> => sending') /\ Shares(queue'[e], entries')
        BY <1>1, <1>4, <3>2
      <4> QED
        BY <3>1, <4>1, <4>2
    <3>3. CASE e # d
      <4>1. queue'[e] = <<>> /\ attempt'[e] = 0
        BY <1>4, <3>3
      <4> QED
        BY <3>1, <4>1, EmptyOnes
    <3> QED
      BY <3>2, <3>3
  <2>2. \A e, f \in Dispatchers : e # f => queue'[e] = <<>> \/ queue'[f] = <<>>
    BY <1>4
  <2> QED
    BY <2>1, <2>2 DEF Dispatching
<1>7. Placed'
  <2>1. InQueues(queue) = {}
    BY <1>3, EmptyOnes DEF InQueues, Dispatchers
  <2>2. InQueues(queue') = Carried(p)
    BY <1>4, EmptyOnes DEF InQueues, Dispatchers
  <2> DEFINE H == EntriesOf(open) \cup EntriesOf(evicted)
  <2>3. Told(fate, H, {}, closed)
    BY <2>1 DEF IInv, Placed
  <2> HIDE DEF H
  <2>4. Told(fate', H \ EntriesOf(B), Carried(p), closed')
    <3> SUFFICES ASSUME NEW n \in DOMAIN fate
                 PROVE  /\ fate'[n] = "held" <=> n \in H \ EntriesOf(B)
                        /\ fate'[n] = "outgoing" <=> n \in Carried(p)
                        /\ fate'[n] = "vanished" => closed'
      BY <1>1 DEF Told
    <3>1. CASE n \in EntriesOf(B)
      BY <1>2, <3>1
    <3>2. CASE n \notin EntriesOf(B)
      <4>1. fate'[n] = fate[n] /\ n \notin Carried(p)
        BY <1>1, <1>2, <3>2
      <4> QED
        BY <2>3, <3>2, <4>1 DEF Told
    <3> QED
      BY <3>1, <3>2
  <2> QED
    BY <2>2, <2>4 DEF Placed, H
<1> QED
  BY <1>1, <1>5, <1>6, <1>7 DEF IInv

(* The timer takes what was shed and what is ripe.                         *)
LEMMA DrainFacts ==
  ASSUME IInv
  PROVE  LET rest == Where(open, ToSet(open) \ RipeOnes)
             B == evicted \o Where(open, RipeOnes)
         IN  /\ B \in Seq(Batch) /\ Orderly(B, entries)
             /\ rest \in Seq(Batch) /\ Sound(rest, entries) /\ Len(rest) <= MaxOpen
             /\ ToSet(rest) = ToSet(open) \ RipeOnes
             /\ EntriesOf(rest) = (EntriesOf(open) \cup EntriesOf(evicted)) \ EntriesOf(B)
<1> DEFINE rest == Where(open, ToSet(open) \ RipeOnes)
           ripe == Where(open, RipeOnes)
           B == evicted \o ripe
<1>1. /\ open \in Seq(Batch) /\ evicted \in Seq(Batch) /\ Len(open) <= MaxOpen
      /\ Orderly(open, entries) /\ Sorted(open) /\ (\A b \in ToSet(open) : b.touched <= now)
      /\ Orderly(evicted, entries) /\ EntriesOf(open) \cap EntriesOf(evicted) = {}
  BY DEF IInv, Typed, Assembled, Sound
<1>2. RipeOnes \subseteq ToSet(open)
  BY DEF RipeOnes
<1>3. \A S : /\ Where(open, S) \in Seq(Batch) /\ Len(Where(open, S)) <= Len(open)
             /\ ToSet(Where(open, S)) = ToSet(open) \cap S
             /\ InOrderOf(Where(open, S), open)
  BY <1>1, WhereKeeps
<1>4. /\ rest \in Seq(Batch) /\ Len(rest) <= Len(open) /\ ToSet(rest) = ToSet(open) \ RipeOnes
      /\ InOrderOf(rest, open)
  BY <1>3
<1>5. /\ ripe \in Seq(Batch) /\ ToSet(ripe) = RipeOnes /\ InOrderOf(ripe, open)
  BY <1>2, <1>3
<1> HIDE DEF rest, ripe
<1>6. Orderly(rest, entries) /\ Sorted(rest) /\ Orderly(ripe, entries)
  BY <1>1, <1>2, <1>4, <1>5, InOrderKeeps
<1>7. Sound(rest, entries) /\ Len(rest) <= MaxOpen
  <2>1. Len(rest) \in Nat /\ Len(open) \in Nat /\ MaxOpen \in Nat
    BY <1>1, <1>4, SeqFacts, Positive
  <2> QED
    BY <1>1, <1>4, <1>6, <2>1 DEF Sound
<1>8. EntriesOf(open) = EntriesOf(rest) \cup EntriesOf(ripe)
  BY <1>2, <1>4, <1>5 DEF EntriesOf
<1>9. EntriesOf(rest) \cap EntriesOf(ripe) = {}
  <2>1. \A b \in ToSet(rest), c \in ToSet(ripe) : Members(b) \cap Members(c) = {}
    BY <1>1, <1>2, <1>4, <1>5, OrderlyApart
  <2> QED
    BY <2>1 DEF EntriesOf
<1>10. /\ B \in Seq(Batch) /\ Orderly(B, entries)
       /\ EntriesOf(B) = EntriesOf(evicted) \cup EntriesOf(ripe)
  BY <1>1, <1>5, <1>6, <1>8, OrderlyConcat
<1> HIDE DEF B
<1>11. EntriesOf(rest) = (EntriesOf(open) \cup EntriesOf(evicted)) \ EntriesOf(B)
  BY <1>1, <1>8, <1>9, <1>10
<1> QED
  BY <1>4, <1>7, <1>10, <1>11 DEF rest, ripe, B

LEMMA TickIInv ==
  ASSUME IInv, Tick
  PROVE  IInv'
<1>1. /\ ~sending /\ open' = Where(open, ToSet(open) \ RipeOnes) /\ evicted' = <<>>
      /\ Start("timer", evicted \o Where(open, RipeOnes))
      /\ UNCHANGED <<now, closed, disabled, closing, entries>>
  BY DEF Tick, Drain
<1>2. PICK B : B = evicted \o Where(open, RipeOnes)
  OBVIOUS
<1>3. /\ B \in Seq(Batch) /\ Orderly(B, entries)
      /\ open' \in Seq(Batch) /\ Sound(open', entries) /\ Len(open') <= MaxOpen
      /\ EntriesOf(open') = (EntriesOf(open) \cup EntriesOf(evicted)) \ EntriesOf(B)
  BY <1>1, <1>2, DrainFacts
<1>4. PICK p : Launches("timer", B, p)
  <2>1. Start("timer", B)
    BY <1>1, <1>2
  <2> QED
    BY <1>3, <2>1, StartFacts DEF Dispatchers
<1>5. Assembled'
  BY <1>1, <1>3, EmptyOnes DEF Assembled, Sound
<1>6. /\ EntriesOf(open') \cup EntriesOf(evicted') =
            (EntriesOf(open) \cup EntriesOf(evicted)) \ EntriesOf(B)
      /\ evicted' \in Seq(Batch)
  BY <1>1, <1>3, EmptyOnes
<1>7. /\ closed' \in BOOLEAN /\ (closed => closed') /\ closing' \in {"no", "sending", "done"}
  BY <1>1 DEF IInv, Typed
<1> QED
  BY <1>1, <1>3, <1>4, <1>5, <1>6, <1>7, Dispatched DEF Dispatchers

LEMMA CloseIInv ==
  ASSUME IInv, Close
  PROVE  IInv'
<1>1. /\ closed' = TRUE /\ open' = <<>> /\ evicted' = <<>>
      /\ UNCHANGED <<now, disabled, entries>>
  BY DEF Close
<1>2. PICK B : B = evicted \o open
  OBVIOUS
<1>3. /\ B \in Seq(Batch) /\ Orderly(B, entries)
      /\ EntriesOf(B) = EntriesOf(evicted) \cup EntriesOf(open)
  <2>1. /\ open \in Seq(Batch) /\ evicted \in Seq(Batch)
        /\ Orderly(open, entries) /\ Orderly(evicted, entries)
        /\ EntriesOf(evicted) \cap EntriesOf(open) = {}
    BY DEF IInv, Typed, Assembled, Sound
  <2> QED
    BY <1>2, <2>1, OrderlyConcat
<1>4. Assembled' /\ open' \in Seq(Batch) /\ evicted' \in Seq(Batch) /\ Len(open') <= MaxOpen
  <2>1. 0 <= MaxOpen
    BY Positive
  <2> QED
    BY <1>1, <2>1, EmptyOnes DEF Assembled, Sound
<1>5. EntriesOf(open') \cup EntriesOf(evicted') =
        (EntriesOf(open) \cup EntriesOf(evicted)) \ EntriesOf(B)
  BY <1>1, <1>3, EmptyOnes
<1>6. CASE ~sending
  <2>1. /\ Start("close", B)
        /\ closing' \in {"no", "sending", "done"}
    BY <1>2, <1>6 DEF Close, MayDispatch
  <2>2. PICK p : Launches("close", B, p)
    BY <1>3, <2>1, StartFacts DEF Dispatchers
  <2>3. closed' \in BOOLEAN /\ (closed => closed')
    BY <1>1
  <2> QED
    BY <1>1, <1>4, <1>5, <1>6, <2>1, <2>2, <2>3, Dispatched DEF Dispatchers
<1>7. CASE sending
  <2>1. /\ fate' = Settle(fate, UNION {Members(b) : b \in ToSet(B)}, "vanished")
        /\ closing' = "done"
        /\ UNCHANGED <<sending, queue, attempt, pausing, total, sinceCollect, lastRuntimeAt, reported>>
    BY <1>2, <1>7 DEF Close, MayDispatch, postVars, metricVars
  <2>2. fate' = [n \in DOMAIN fate |-> IF n \in EntriesOf(B) THEN "vanished" ELSE fate[n]]
    BY <2>1 DEF Settle, EntriesOf
  <2>3. /\ fate' \in Seq(Fates) /\ Len(fate') = Len(fate) /\ DOMAIN fate' = DOMAIN fate
        /\ \A n \in DOMAIN fate :
             fate'[n] = IF n \in EntriesOf(B) THEN "vanished" ELSE fate[n]
    <3>1. fate \in Seq(Fates)
      BY DEF IInv, Typed
    <3>2. Len(fate) \in Nat /\ DOMAIN fate = 1 .. Len(fate) /\ \A n \in 1 .. Len(fate) : fate[n] \in Fates
      BY <3>1, SeqFacts
    <3>3. \A n \in 1 .. Len(fate) : (IF n \in EntriesOf(B) THEN "vanished" ELSE fate[n]) \in Fates
      BY <3>2 DEF Fates
    <3>4. fate' \in [1 .. Len(fate) -> Fates] /\ DOMAIN fate' = 1 .. Len(fate)
      BY <2>2, <3>2, <3>3
    <3>5. fate' \in Seq(Fates) /\ Len(fate') = Len(fate)
      BY <3>2, <3>4
    <3> QED
      BY <2>2, <3>2, <3>4, <3>5
  <2>4. Typed'
    BY <1>1, <1>4, <2>1, <2>3 DEF IInv, Typed
  <2>5. Dispatching'
    BY <1>1, <2>1 DEF IInv, Dispatching
  <2>6. Placed'
    <3> DEFINE H == EntriesOf(open) \cup EntriesOf(evicted)
               O == InQueues(queue)
    <3>1. Told(fate, H, O, closed) /\ EntriesOf(B) = H
      BY <1>3 DEF IInv, Placed
    <3>2. EntriesOf(open') \cup EntriesOf(evicted') = {}
      BY <1>1, EmptyOnes
    <3> HIDE DEF H, O
    <3>3. Told(fate', {}, O, TRUE)
      <4> SUFFICES ASSUME NEW n \in DOMAIN fate
                   PROVE  fate'[n] # "held" /\ (fate'[n] = "outgoing" <=> n \in O)
        BY <2>3 DEF Told
      <4>1. fate[n] = "held" <=> n \in H
        BY <3>1 DEF Told
      <4>2. fate[n] = "outgoing" <=> n \in O
        BY <3>1 DEF Told
      <4>3. fate'[n] = IF n \in H THEN "vanished" ELSE fate[n]
        BY <2>3, <3>1
      <4> QED
        BY <4>1, <4>2, <4>3
    <3> QED
      BY <1>1, <2>1, <3>2, <3>3 DEF Placed, O
  <2>7. Counted'
    BY <2>1 DEF IInv, Counted, MetricsOnce
  <2> QED
    BY <1>4, <2>4, <2>5, <2>6, <2>7 DEF IInv
<1>8. sending \in BOOLEAN
  BY DEF IInv, Typed
<1> QED
  BY <1>6, <1>7, <1>8

LEMMA StepIInv == IInv /\ [Next]_vars => IInv'
<1> SUFFICES ASSUME IInv, [Next]_vars
             PROVE  IInv'
  OBVIOUS
<1>1. CASE UNCHANGED vars
  BY <1>1 DEF vars, assemblerVars, postVars, metricVars, IInv, Typed, Assembled, Sound,
              Dispatching, Placed, Counted, MetricsOnce
<1>2. CASE Next
  <2>1. CASE TimePasses
    BY <2>1, TimePassesIInv
  <2>2. CASE ObserveFlush
    BY <2>2, ObserveFlushIInv
  <2>3. CASE ObserveRecord
    BY <2>3, ObserveRecordIInv
  <2>4. CASE Tick
    BY <2>4, TickIInv
  <2>5. CASE Close
    BY <2>5, CloseIInv
  <2>6. CASE \E d \in Dispatchers : Post(d)
    BY <2>6, PostIInv
  <2> QED
    BY <1>2, <2>1, <2>2, <2>3, <2>4, <2>5, <2>6 DEF Next
<1> QED
  BY <1>1, <1>2

LEMMA Invariance == Spec => []IInv
BY InitIInv, StepIInv, PTL DEF Spec

-----------------------------------------------------------------------------
(* What the invariant gives.                                               *)

(* MetricsOnce: the interval increases put on payloads add up to what was  *)
(* observed, less what the next payload carries (buildPayloads,            *)
(* dueCustomMetrics).                                                      *)
THEOREM MetricsAreReportedOnce == Spec => []MetricsOnce
<1>1. IInv => MetricsOnce
  BY DEF IInv, Counted
<1> QED
  BY <1>1, Invariance, PTL

(* Where n is, among sets that have no element in common.                  *)
Indices(I, C, n) == {i \in I : n \in C[i]}
AllOf(I, C) == UNION {C[i] : i \in I}
ApartOn(I, C) == \A i \in I : \A j \in I : i # j => C[i] \cap C[j] = {}

LEMMA OneAt ==
  ASSUME NEW I, NEW C, ApartOn(I, C), NEW n
  PROVE  Cardinality(Indices(I, C, n)) = IF n \in AllOf(I, C) THEN 1 ELSE 0
<1> USE DEF Indices, AllOf, ApartOn
<1> DEFINE S == {i \in I : n \in C[i]}
<1>1. CASE n \in UNION {C[i] : i \in I}
  <2>1. PICK i \in I : n \in C[i]
    BY <1>1
  <2>2. S = {i}
    BY <2>1
  <2>3. Cardinality(S) = 1
    BY <2>2, FS_Singleton
  <2> QED
    BY <1>1, <2>3
<1>2. CASE n \notin UNION {C[i] : i \in I}
  <2>1. S = {}
    BY <1>2
  <2>2. Cardinality(S) = 0
    BY <2>1, FS_EmptySet
  <2> QED
    BY <1>2, <2>2
<1> QED
  BY <1>1, <1>2

LEMMA OneBatch ==
  ASSUME NEW s \in Seq(Batch), NEW es, Orderly(s, es), NEW n
  PROVE  Cardinality({i \in DOMAIN s : n \in Members(s[i])}) = IF n \in EntriesOf(s) THEN 1 ELSE 0
<1> DEFINE I == 1 .. Len(s)
           C == [i \in I |-> Members(s[i])]
<1>1. Len(s) \in Nat /\ DOMAIN s = I /\ ToSet(s) = {s[i] : i \in I}
  BY SeqFacts
<1>2. \A i \in I : C[i] = Members(s[i])
  OBVIOUS
<1>3. ApartOn(I, C)
  <2> SUFFICES ASSUME NEW i \in I, NEW j \in I, i # j
               PROVE  Members(s[i]) \cap Members(s[j]) = {}
    BY DEF ApartOn
  <2>1. i < j \/ j < i
    BY <1>1
  <2> QED
    BY <2>1 DEF Orderly
<1>4. {i \in DOMAIN s : n \in Members(s[i])} = Indices(I, C, n)
  BY <1>1, <1>2 DEF Indices
<1>5. EntriesOf(s) = AllOf(I, C)
  BY <1>1, <1>2 DEF EntriesOf, AllOf
<1> HIDE DEF C, I
<1>6. Cardinality(Indices(I, C, n)) = IF n \in AllOf(I, C) THEN 1 ELSE 0
  BY <1>3, OneAt
<1> QED
  BY <1>4, <1>5, <1>6

LEMMA OnePayload ==
  ASSUME NEW p \in Seq(Payload), NEW es, Shares(p, es), NEW n
  PROVE  Cardinality({i \in DOMAIN p : n \in p[i].carries}) = IF n \in Carried(p) THEN 1 ELSE 0
<1> DEFINE I == 1 .. Len(p)
           C == [i \in I |-> p[i].carries]
<1>1. Len(p) \in Nat /\ DOMAIN p = I /\ ToSet(p) = {p[i] : i \in I}
  BY SeqFacts
<1>2. \A i \in I : C[i] = p[i].carries
  OBVIOUS
<1>3. ApartOn(I, C)
  <2> SUFFICES ASSUME NEW i \in I, NEW j \in I, i # j
               PROVE  p[i].carries \cap p[j].carries = {}
    BY DEF ApartOn
  <2>1. i < j \/ j < i
    BY <1>1
  <2> QED
    BY <2>1 DEF Shares
<1>4. {i \in DOMAIN p : n \in p[i].carries} = Indices(I, C, n)
  BY <1>1, <1>2 DEF Indices
<1>5. Carried(p) = AllOf(I, C)
  BY <1>1, <1>2 DEF Carried, AllOf
<1> HIDE DEF C, I
<1>6. Cardinality(Indices(I, C, n)) = IF n \in AllOf(I, C) THEN 1 ELSE 0
  BY <1>3, OneAt
<1> QED
  BY <1>4, <1>5, <1>6

(* InOnePlace: an accepted entry is in one batch, or in one payload, or    *)
(* gone for a reason, whatever flushes, drains, evictions, retries and the *)
(* close overlap; and the state has its type.                              *)
THEOREM EntriesInOnePlace == Spec => []InOnePlace
<1>1. ASSUME IInv
      PROVE  InOnePlace
  <2> USE <1>1 DEF IInv
  <2>1. TypeOK
    <3>1. \A d \in Dispatchers : attempt[d] > 0 <=> queue[d] # <<>>
      BY DEF Dispatching
    <3>2. {sending, closed, disabled} \subseteq BOOLEAN
      BY DEF Typed
    <3> QED
      BY <3>1, <3>2 DEF Typed, TypeOK
  <2>2. PICK held : held = open \o evicted
    OBVIOUS
  <2>3. PICK out : out = queue["timer"] \o queue["close"]
    OBVIOUS
  <2>4. /\ held \in Seq(Batch) /\ Orderly(held, entries)
        /\ EntriesOf(held) = EntriesOf(open) \cup EntriesOf(evicted)
    <3>1. /\ open \in Seq(Batch) /\ evicted \in Seq(Batch)
          /\ Orderly(open, entries) /\ Orderly(evicted, entries)
          /\ EntriesOf(open) \cap EntriesOf(evicted) = {}
      BY DEF Typed, Assembled, Sound
    <3> QED
      BY <2>2, <3>1, OrderlyConcat
  <2>5. out \in Seq(Payload) /\ Shares(out, entries) /\ Carried(out) = InQueues(queue)
    <3>1. \A d \in Dispatchers : queue[d] \in Seq(Payload) /\ Shares(queue[d], entries)
      BY DEF Typed, Dispatching
    <3>2. queue["timer"] = <<>> \/ queue["close"] = <<>>
      BY DEF Dispatching, Dispatchers
    <3>3. \A q \in Seq(Payload) : q \o <<>> = q /\ <<>> \o q = q
      BY ConcatEmptySeq
    <3>4. CASE queue["timer"] = <<>>
      <4>1. out = queue["close"]
        BY <2>3, <3>1, <3>3, <3>4 DEF Dispatchers
      <4> QED
        BY <3>1, <3>4, <4>1, EmptyOnes DEF InQueues, Dispatchers
    <3>5. CASE queue["close"] = <<>>
      <4>1. out = queue["timer"]
        BY <2>3, <3>1, <3>3, <3>5 DEF Dispatchers
      <4> QED
        BY <3>1, <3>5, <4>1, EmptyOnes DEF InQueues, Dispatchers
    <3> QED
      BY <3>2, <3>4, <3>5
  <2>6. DOMAIN fate = DOMAIN entries
    BY SeqFacts DEF Typed
  <2>7. ASSUME NEW n \in DOMAIN entries
        PROVE  LET batches  == {i \in DOMAIN held : n \in Members(held[i])}
                   payloads == {i \in DOMAIN out : n \in out[i].carries}
               IN  /\ Cardinality(batches) = IF fate[n] = "held" THEN 1 ELSE 0
                   /\ Cardinality(payloads) = IF fate[n] = "outgoing" THEN 1 ELSE 0
                   /\ fate[n] = "vanished" => closed
    <3>1. Cardinality({i \in DOMAIN held : n \in Members(held[i])}) =
            IF n \in EntriesOf(held) THEN 1 ELSE 0
      BY <2>4, OneBatch
    <3>2. Cardinality({i \in DOMAIN out : n \in out[i].carries}) =
            IF n \in Carried(out) THEN 1 ELSE 0
      BY <2>5, OnePayload
    <3>3. /\ fate[n] = "held" <=> n \in EntriesOf(held)
          /\ fate[n] = "outgoing" <=> n \in Carried(out)
          /\ fate[n] = "vanished" => closed
      BY <2>4, <2>5, <2>6, <2>7 DEF Placed, Told
    <3> QED
      BY <3>1, <3>2, <3>3
  <2> QED
    BY <2>1, <2>2, <2>3, <2>7 DEF InOnePlace
<1> QED
  BY <1>1, Invariance, PTL

-----------------------------------------------------------------------------
(* Batches leave when they are ripe, or shed.                              *)

Newest(b) == Max({entries[n].at : n \in Members(b)})
Gone(b) == \A n \in Members(b) : \A j \in DOMAIN open' : n \notin Members(open'[j])

LEMMA NewestIs ==
  ASSUME NEW b \in Batch, Whole(b, entries), entries \in Seq(Entry)
  PROVE  Newest(b) = b.touched /\ Members(b) # {}
<1> DEFINE S == {entries[n].at : n \in Members(b)}
<1>1. /\ Members(b) # {} /\ Members(b) \subseteq DOMAIN entries
      /\ \A n \in Members(b) : entries[n].at <= b.touched
      /\ \E n \in Members(b) : entries[n].at = b.touched
  BY DEF Whole
<1>2. \A n \in Members(b) : entries[n].at \in Nat
  <2>1. \A n \in DOMAIN entries : entries[n] \in Entry
    BY SeqFacts
  <2> QED
    BY <1>1, <2>1 DEF Entry
<1>3. b.touched \in Nat
  BY DEF Batch
<1>4. S \in SUBSET (0 .. b.touched) /\ S # {} /\ b.touched \in S
  BY <1>1, <1>2, <1>3
<1> HIDE DEF S
<1>5. Max(S) \in S /\ \A y \in S : Max(S) >= y
  BY <1>3, <1>4, MaxOf
<1>6. Max(S) \in 0 .. b.touched /\ Max(S) >= b.touched
  BY <1>4, <1>5
<1>7. Max(S) = b.touched
  BY <1>3, <1>6
<1> QED
  BY <1>1, <1>7 DEF Newest, S

(* A batch that is gone without close() was ripe, or shed for others that  *)
(* have been touched since.                                                *)
Excused(b) ==
  \/ closed'
  \/ now - Newest(b) >= Grace
  \/ /\ Len(open') = MaxOpen
     /\ \A j \in DOMAIN open' : \E n \in Members(open'[j]) : entries'[n].at >= Newest(b)

LEMMA StillOpen ==
  ASSUME NEW o, NEW b, NEW c, DOMAIN o = 1 .. Len(o), ToSet(o) = {o[i] : i \in 1 .. Len(o)},
         c \in ToSet(o), Members(b) \subseteq Members(c), Members(b) # {}
  PROVE  ~ \A n \in Members(b) : \A j \in DOMAIN o : n \notin Members(o[j])
<1>1. PICK i \in 1 .. Len(o) : c = o[i]
  OBVIOUS
<1>2. PICK n \in Members(b) : TRUE
  OBVIOUS
<1> QED
  BY <1>1, <1>2

LEMMA LeavesExcused ==
  ASSUME IInv, IInv', [Next]_vars, open' # open, NEW b \in ToSet(open), Gone(b)
  PROVE  Excused(b)
<1>1. /\ open \in Seq(Batch) /\ Orderly(open, entries) /\ entries \in Seq(Entry)
      /\ open' \in Seq(Batch) /\ Orderly(open', entries') /\ entries' \in Seq(Entry)
  BY DEF IInv, Typed, Assembled, Sound
<1>2. b \in Batch /\ Whole(b, entries) /\ b.touched \in Nat
  <2>1. b \in Batch /\ Whole(b, entries)
    BY <1>1, SeqFacts DEF Orderly
  <2> QED
    BY <2>1 DEF Batch
<1>3. Newest(b) = b.touched /\ Members(b) # {}
  BY <1>1, <1>2, NewestIs
<1>4. DOMAIN open' = 1 .. Len(open') /\ ToSet(open') = {open'[i] : i \in 1 .. Len(open')}
  BY <1>1, SeqFacts
<1>5. \A c \in ToSet(open') : ~(Members(b) \subseteq Members(c))
  BY <1>3, <1>4, StillOpen DEF Gone
<1>6. CASE Tick
  <2>1. open' = Where(open, ToSet(open) \ RipeOnes)
    BY <1>6 DEF Tick, Drain
  <2>2. ToSet(open') = ToSet(open) \ RipeOnes
    BY <2>1, DrainFacts
  <2>3. b \in RipeOnes
    BY <1>5, <2>2
  <2> QED
    BY <1>3, <2>3 DEF RipeOnes, Ripe, Excused
<1>7. CASE ObserveFlush
  <2>1. PICK tk, q : Brings(tk, q)
    BY <1>7, FlushFacts
  <2>2. Sound(q, entries') /\ Grown(open, q) /\ open' = Kept(q) /\ q \in Seq(Batch)
    BY <2>1 DEF Brings, Sound
  <2>3. PICK c \in ToSet(q) : Members(b) \subseteq Members(c) /\ b.touched <= c.touched
    BY <2>2 DEF Grown
  <2>4. /\ Shed(q) \in Seq(Batch)
        /\ Shed(q) # <<>> => Len(Kept(q)) = MaxOpen
        /\ \A x \in ToSet(Shed(q)), y \in ToSet(Kept(q)) : x.touched <= y.touched
        /\ ToSet(q) = ToSet(Kept(q)) \cup ToSet(Shed(q))
    BY <2>2, CeilingKeeps
  <2>5. c \in ToSet(Shed(q))
    BY <1>5, <2>2, <2>3, <2>4
  <2>6. Shed(q) # <<>>
    BY <2>5, EmptyOnes
  <2>7. Len(open') = MaxOpen
    BY <2>2, <2>4, <2>6
  <2>8. c.touched \in Nat
    <3>1. c \in Batch
      BY <2>2, SeqFacts
    <3> QED
      BY <3>1 DEF Batch
  <2>9. ASSUME NEW j \in DOMAIN open'
        PROVE  \E n \in Members(open'[j]) : entries'[n].at >= Newest(b)
    <3> DEFINE d == open'[j]
    <3>1. d \in ToSet(open') /\ d \in Batch /\ Whole(d, entries')
      BY <1>1, <1>4, SeqFacts DEF Orderly
    <3> HIDE DEF d
    <3>2. d.touched \in Nat /\ c.touched <= d.touched
      BY <2>2, <2>4, <2>5, <3>1 DEF Batch
    <3>3. PICK n \in Members(d) : entries'[n].at = d.touched
      BY <3>1 DEF Whole
    <3>4. entries'[n].at >= Newest(b)
      BY <1>2, <1>3, <2>3, <2>8, <3>2, <3>3
    <3> QED
      BY <3>4 DEF d
  <2> QED
    BY <2>7, <2>9 DEF Excused
<1>8. CASE Close
  BY <1>8 DEF Close, Excused
<1>9. \/ Tick \/ ObserveFlush \/ Close
  <2>1. CASE UNCHANGED vars
    BY <2>1 DEF vars, assemblerVars
  <2>2. CASE TimePasses
    BY <2>2 DEF TimePasses, assemblerVars
  <2>3. CASE ObserveRecord
    BY <2>3 DEF ObserveRecord, assemblerVars
  <2>4. ASSUME NEW d \in Dispatchers, Post(d)
        PROVE  open' = open
    BY <2>4 DEF Post, Accepted, Rejected, Unauthorised, Suppressed, Unanswered, Retry, assemblerVars
  <2> QED
    BY <2>1, <2>2, <2>3, <2>4 DEF Next
<1> QED
  BY <1>6, <1>7, <1>8, <1>9

(* NeverCutInHalf: a batch that leaves the assembler otherwise than for    *)
(* close() or the ceiling had no entry for a grace, and what the ceiling   *)
(* sheds has been waiting longest (drain, enforceCeiling).                 *)
THEOREM BatchesAreNotCutInHalf == Spec => NeverCutInHalf
<1> DEFINE A == \A i \in DOMAIN open :
                  LET b == open[i]
                      newest == Max({entries[n].at : n \in Members(b)})
                  IN  (\A n \in Members(b) : \A j \in DOMAIN open' : n \notin Members(open'[j])) =>
                        \/ closed'
                        \/ now - newest >= Grace
                        \/ /\ Len(open') = MaxOpen
                           /\ \A j \in DOMAIN open' :
                                \E n \in Members(open'[j]) : entries'[n].at >= newest
<1>1. ASSUME IInv, IInv', [Next]_vars
      PROVE  [A]_open
  <2> SUFFICES ASSUME open' # open, NEW i \in DOMAIN open, Gone(open[i])
               PROVE  Excused(open[i])
    BY DEF Gone, Excused, Newest
  <2>1. open \in Seq(Batch)
    BY <1>1 DEF IInv, Typed
  <2>2. open[i] \in ToSet(open)
    BY <2>1, SeqFacts
  <2> QED
    BY <1>1, <2>2, LeavesExcused
<1>2. []IInv /\ [][Next]_vars => [][A]_open
  BY <1>1, PTL
<1> QED
  BY <1>2, Invariance, PTL DEF Spec, NeverCutInHalf

=============================================================================
