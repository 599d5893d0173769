---------------------------- MODULE RedisProofs ------------------------------
(***************************************************************************)
(* The Redis store under retention, for any entries, tags, limit, scan     *)
(* budget, windows and failures.                                           *)
(*                                                                         *)
(* Types, and the limit of a call, hold for any number of pods: a page     *)
(* holds at most what the call may still delete (PageOfIndex, by counting  *)
(* the members behind each of its members).                                *)
(*                                                                         *)
(* The rest is about one pod that prunes at a time, which the prune lock   *)
(* is for; two pods take the tags of an entry off the counts twice, and    *)
(* move each other's offsets.  The counts hold the stored entries and what *)
(* is owed (Book).  The offset of a call counts members it spared, and     *)
(* those are behind every entry it has yet to remove (Ahead).              *)
(***************************************************************************)
EXTENDS RedisStore, FiniteSetTheorems, TLAPS

-----------------------------------------------------------------------------
(* Pages of an index.                                                      *)

Behind(S, e) == {d \in S : d < e}

(* Older members have fewer members behind them, and none has them all.    *)
LEMMA RankIncreases ==
  ASSUME NEW S \in SUBSET Int, IsFiniteSet(S)
  PROVE  \A e \in S :
           /\ IsFiniteSet(Behind(S, e))
           /\ Cardinality(Behind(S, e)) \in 0 .. Cardinality(S) - 1
           /\ \A d \in S : d < e => Cardinality(Behind(S, d)) < Cardinality(Behind(S, e))
<1> TAKE e \in S
<1>1. IsFiniteSet(S) /\ Cardinality(S) \in Nat
  BY FS_CardinalityType
<1>2. ASSUME NEW d \in S
      PROVE  /\ IsFiniteSet(Behind(S, d)) /\ Cardinality(Behind(S, d)) \in Nat
             /\ Cardinality(Behind(S, d) \cup {d}) = Cardinality(Behind(S, d)) + 1
             /\ Behind(S, d) \cup {d} \subseteq S
  <2>1. Behind(S, d) \subseteq S /\ d \notin Behind(S, d)
    BY DEF Behind
  <2>2. IsFiniteSet(Behind(S, d))
    BY <2>1, FS_Subset
  <2>3. Cardinality(Behind(S, d)) \in Nat
    BY <2>2, FS_CardinalityType
  <2>4. Cardinality(Behind(S, d) \cup {d}) = Cardinality(Behind(S, d)) + 1
    BY <2>1, <2>2, FS_AddElement
  <2> QED
    BY <2>1, <2>2, <2>3, <2>4
<1>3. Cardinality(Behind(S, e)) \in 0 .. Cardinality(S) - 1
  <2>1. Cardinality(Behind(S, e) \cup {e}) <= Cardinality(S)
    BY <1>2, FS_Subset
  <2> QED
    BY <1>1, <1>2, <2>1
<1>4. ASSUME NEW d \in S, d < e
      PROVE  Cardinality(Behind(S, d)) < Cardinality(Behind(S, e))
  <2>1. Behind(S, d) \cup {d} \subseteq Behind(S, e)
    <3>1. d \in Int /\ e \in Int /\ \A x \in S : x \in Int
      OBVIOUS
    <3>2. \A x \in S : x < d => x < e
      BY <1>4, <3>1
    <3> QED
      BY <1>4, <3>2 DEF Behind
  <2>2. IsFiniteSet(Behind(S, e)) /\ Cardinality(Behind(S, e)) \in Nat
    BY <1>2
  <2>3. Cardinality(Behind(S, d) \cup {d}) <= Cardinality(Behind(S, e))
    BY <2>1, <2>2, FS_Subset
  <2>4. Cardinality(Behind(S, d)) \in Nat
        /\ Cardinality(Behind(S, d) \cup {d}) = Cardinality(Behind(S, d)) + 1
    BY <1>2
  <2> QED
    BY <2>2, <2>3, <2>4
<1> QED
  BY <1>2, <1>3, <1>4

(* So every number of members is behind one of them, and behind only one.  *)
LEMMA RankIsBijection ==
  ASSUME NEW S \in SUBSET Int, IsFiniteSet(S)
  PROVE  [e \in S |-> Cardinality(Behind(S, e))] \in
           Bijection(S, 0 .. Cardinality(S) - 1)
<1> DEFINE T == 0 .. Cardinality(S) - 1
           rank == [e \in S |-> Cardinality(Behind(S, e))]
<1>1. Cardinality(S) \in Nat /\ IsFiniteSet(T) /\ Cardinality(T) = Cardinality(S)
  <2>1. Cardinality(S) \in Nat
    BY FS_CardinalityType
  <2> QED
    BY <2>1, FS_Interval
<1>2. rank \in [S -> T]
  BY RankIncreases
<1>3. ASSUME NEW d \in S, NEW e \in S, rank[d] = rank[e]
      PROVE  d = e
  <2>1. rank[d] \in Int /\ rank[e] \in Int
    BY <1>2
  <2>2. ~(d < e) /\ ~(e < d)
    BY <1>3, <2>1, RankIncreases
  <2> QED
    BY <2>2
<1>4. rank \in Injection(S, T)
  BY <1>2, <1>3 DEF Injection, IsInjective
<1> HIDE DEF rank, T
<1>5. rank \in Surjection(S, T)
  BY <1>1, <1>4, FS_Injection
<1> QED
  BY <1>4, <1>5 DEF Bijection, rank, T

(* A page has no more members than were asked for, and as many if one that *)
(* is not among the skipped is left out: that one is newer than the page,  *)
(* and still has the skipped behind it.                                    *)
LEMMA PageOfIndex ==
  ASSUME NEW S \in SUBSET Int, IsFiniteSet(S), NEW o \in Nat, NEW n \in Nat
  PROVE  /\ Page(S, o, n) \subseteq S
         /\ IsFiniteSet(Page(S, o, n)) /\ Cardinality(Page(S, o, n)) \in 0 .. n
         /\ \A d \in S \ Page(S, o, n) :
              Cardinality(Behind(S, d)) >= o =>
                /\ Cardinality(Page(S, o, n)) = n
                /\ \A c \in Page(S, o, n) : c < d
                /\ Cardinality(Behind(S, d) \ Page(S, o, n)) >= o
<1> DEFINE pg == Page(S, o, n)
           rank == [e \in S |-> Cardinality(Behind(S, e))]
           T == o .. o + n - 1
           pageRank == [e \in pg |-> rank[e]]
<1>1. pg = {e \in S : rank[e] \in T}
  BY DEF Page, Behind
<1>2. rank \in Bijection(S, 0 .. Cardinality(S) - 1) /\ Cardinality(S) \in Nat
  BY RankIsBijection, FS_CardinalityType
<1>3. \A d, e \in S : d < e => rank[d] < rank[e]
  BY RankIncreases
<1>4. \A e \in S : IsFiniteSet(Behind(S, e)) /\ rank[e] = Cardinality(Behind(S, e))
                    /\ rank[e] \in Nat
  BY <1>2, RankIncreases
<1>5. IsFiniteSet(T) /\ Cardinality(T) = n
  BY FS_Interval
<1> HIDE DEF pg, rank, T
<1>6. pageRank \in Injection(pg, T)
  BY <1>1, <1>2 DEF Bijection, Injection, IsInjective
<1>7. IsFiniteSet(pg) /\ Cardinality(pg) <= n /\ Cardinality(pg) \in Nat
  <2> HIDE DEF pageRank
  <2> QED
    BY <1>5, <1>6, FS_Injection, FS_CardinalityType
<1>8. ASSUME NEW d \in S \ pg, Cardinality(Behind(S, d)) >= o
      PROVE  /\ Cardinality(pg) = n
             /\ \A c \in pg : c < d
             /\ Cardinality(Behind(S, d) \ pg) >= o
  <2>1. rank[d] >= o + n
    BY <1>1, <1>4, <1>8 DEF T
  <2>2. ASSUME NEW c \in pg
        PROVE  c < d
    <3>1. c \in S /\ rank[c] < rank[d] /\ rank[c] \in Nat /\ rank[d] \in Nat
      BY <1>1, <1>4, <2>1 DEF T
    <3>2. c = d \/ d < c \/ c < d
      BY <3>1
    <3> QED
      BY <1>3, <3>1, <3>2
  <2>3. Cardinality(pg) = n
    <3>1. ASSUME NEW k \in T
          PROVE  \E e \in pg : pageRank[e] = k
      <4>1. rank[d] \in 0 .. Cardinality(S) - 1
        BY <1>2 DEF Bijection, Injection
      <4>2. k \in 0 .. Cardinality(S) - 1
        BY <1>2, <2>1, <4>1 DEF T
      <4>3. PICK e \in S : rank[e] = k
        BY <1>2, <4>2 DEF Bijection, Surjection
      <4> QED
        BY <1>1, <4>3
    <3>2. pageRank \in Surjection(pg, T)
      BY <1>6, <3>1 DEF Injection, Surjection
    <3> HIDE DEF pageRank
    <3> QED
      BY <1>5, <1>6, <3>2, FS_Injection
  <2>4. Cardinality(Behind(S, d) \ pg) >= o
    <3>1. Behind(S, d) \cap pg = pg
      BY <1>1, <2>2 DEF Behind
    <3>2. Cardinality(Behind(S, d) \ pg) = Cardinality(Behind(S, d)) - Cardinality(pg)
      BY <1>4, <3>1, FS_Difference, ZenonT(40)
    <3> QED
      BY <1>4, <2>1, <2>3, <3>2
  <2> QED
    BY <2>2, <2>3, <2>4
<1> QED
  BY <1>1, <1>7, <1>8 DEF pg

-----------------------------------------------------------------------------
(* Counts.                                                                 *)

(* The sum of a function of one argument (the community module defines it  *)
(* by a function over the subsets of the domain).                          *)
LEMMA SumOfOne ==
  ASSUME NEW x, NEW g, DOMAIN g = {x}, g[x] \in Nat
  PROVE  SumFunction(g) = g[x]
<1> DEFINE Iter(h) == h = [s \in SUBSET {x} |->
                             IF s = {} THEN 0
                             ELSE g[CHOOSE y \in s : TRUE] + h[s \ {CHOOSE y \in s : TRUE}]]
           total == CHOOSE h : Iter(h)
           sums == [s \in SUBSET {x} |-> IF s = {} THEN 0 ELSE g[x]]
<1>1. SumFunction(g) = total[{x}]
  BY DEF SumFunction, SumFunctionOnSet, FoldFunctionOnSet, MapThenFoldSet
<1>2. \A s \in SUBSET {x} : s = {} \/ s = {x}
  OBVIOUS
<1>3. (CHOOSE y \in {x} : TRUE) = x
  OBVIOUS
<1>4. Iter(sums)
  <2>1. \A s \in SUBSET {x} : sums[s] = IF s = {} THEN 0
          ELSE g[CHOOSE y \in s : TRUE] + sums[s \ {CHOOSE y \in s : TRUE}]
    BY <1>2, <1>3
  <2> QED
    BY <2>1
<1>5. Iter(total)
  <2> HIDE DEF Iter, sums
  <2> QED
    BY <1>4
<1> HIDE DEF total
<1>6. total[{x}] = g[x] + total[{}] /\ total[{}] = 0
  BY <1>3, <1>5
<1> QED
  BY <1>1, <1>6

LEMMA FiniteEntries ==
  ASSUME NEW es \in SUBSET Entries
  PROVE  IsFiniteSet(es) /\ Cardinality(es) \in Nat
<1>1. IsFiniteSet(Entries)
  BY StoreAssumption
<1> QED
  BY <1>1, FS_Subset, FS_CardinalityType

LEMMA CountIsNat ==
  ASSUME NEW es \in SUBSET Entries
  PROVE  \A t : Count(es, t) \in Nat
<1> TAKE t
<1>1. {e \in es : t \in TagsOf[e]} \in SUBSET Entries
  OBVIOUS
<1> QED
  BY <1>1, FiniteEntries DEF Count

LEMMA CountWith ==
  ASSUME NEW es \in SUBSET Entries, NEW e \in Entries, e \notin es, NEW t
  PROVE  Count(es \cup {e}, t) =
           IF t \in TagsOf[e] THEN Count(es, t) + 1 ELSE Count(es, t)
<1> DEFINE tagged == {d \in es : t \in TagsOf[d]}
<1>1. IsFiniteSet(tagged) /\ e \notin tagged
  BY FiniteEntries
<1>2. CASE t \in TagsOf[e]
  <2>1. {d \in es \cup {e} : t \in TagsOf[d]} = tagged \cup {e}
    BY <1>2
  <2> HIDE DEF tagged
  <2>2. Cardinality(tagged \cup {e}) = Cardinality(tagged) + 1
    BY <1>1, FS_AddElement
  <2> QED
    BY <1>2, <2>1, <2>2 DEF Count, tagged
<1>3. CASE t \notin TagsOf[e]
  <2>1. {d \in es \cup {e} : t \in TagsOf[d]} = tagged
    BY <1>3
  <2> QED
    BY <1>3, <2>1 DEF Count
<1> QED
  BY <1>2, <1>3

LEMMA CountWithout ==
  ASSUME NEW es \in SUBSET Entries, NEW gone \in SUBSET es, NEW t
  PROVE  Count(es \ gone, t) = Count(es, t) - Count(gone, t)
<1> DEFINE tagged == {d \in es : t \in TagsOf[d]}
           taken  == {d \in gone : t \in TagsOf[d]}
<1>1. IsFiniteSet(tagged)
  BY FiniteEntries
<1>2. tagged \cap taken = taken /\ {d \in es \ gone : t \in TagsOf[d]} = tagged \ taken
  OBVIOUS
<1> HIDE DEF tagged, taken
<1>3. Cardinality(tagged \ taken) = Cardinality(tagged) - Cardinality(taken)
  BY <1>1, <1>2, FS_Difference
<1> QED
  BY <1>2, <1>3 DEF Count, tagged, taken

-----------------------------------------------------------------------------
(* Types, for any number of pods.                                          *)

(* A page holds no more than the call has left to delete.                  *)
Filled(p) ==
  stage[p] \in {"read", "remove", "count"} => Cardinality(page[p]) <= Want(p)

IInv == TypeOK /\ \A p \in Pods : Filled(p)

LEMMA DoomedOfPage ==
  ASSUME TypeOK, NEW p \in Pods
  PROVE  /\ Doomed(p) \subseteq page[p] /\ page[p] \in SUBSET Entries
         /\ IsFiniteSet(page[p]) /\ Cardinality(page[p]) \in Nat
         /\ Cardinality(Doomed(p)) \in 0 .. Cardinality(page[p])
         /\ Skip(p) \in Nat
         /\ Decrements(p) \in [Tags -> Nat]
<1>1. Doomed(p) \subseteq page[p]
  BY DEF Doomed
<1>2. page[p] \in SUBSET Entries /\ seen[p] \in SUBSET Entries
  BY DEF TypeOK
<1>3. IsFiniteSet(page[p]) /\ Cardinality(page[p]) \in Nat
  BY <1>2, FiniteEntries
<1>4. Cardinality(Doomed(p)) \in 0 .. Cardinality(page[p])
  <2>1. Cardinality(Doomed(p)) <= Cardinality(page[p]) /\ IsFiniteSet(Doomed(p))
    BY <1>1, <1>3, FS_Subset
  <2> QED
    BY <1>3, <2>1, FS_CardinalityType
<1>5. Skip(p) \in Nat
  <2>1. page[p] \ Doomed(p) \in SUBSET Entries
    BY <1>2
  <2> QED
    BY <2>1, FiniteEntries DEF Skip
<1>6. Decrements(p) \in [Tags -> Nat]
  <2>1. seen[p] \cap Doomed(p) \in SUBSET Entries
    BY <1>2
  <2> QED
    BY <2>1, CountIsNat DEF Decrements
<1> QED
  BY <1>1, <1>2, <1>3, <1>4, <1>5, <1>6

LEMMA CandidatesAreEntries ==
  ASSUME TypeOK, NEW s, NEW b
  PROVE  /\ Candidates(s, b) \in SUBSET Int /\ Candidates(s, b) \subseteq stored
         /\ IsFiniteSet(Candidates(s, b))
<1>1. Candidates(s, b) \subseteq stored
  BY DEF Candidates
<1>2. stored \in SUBSET Entries /\ Entries \subseteq Int
  BY StoreAssumption DEF TypeOK
<1> QED
  BY <1>1, <1>2, FiniteEntries

LEMMA PageDoneTyped ==
  ASSUME IInv, NEW p \in Pods, stage[p] \in {"remove", "count"}, PageDone(p)
  PROVE  /\ deleted' \in [Pods -> 0 .. Limit]
         /\ skipped' \in [Pods -> Nat]
         /\ stage' \in [Pods -> Stages]
         /\ stage'[p] \in {"drained", "scan"}
<1>1. /\ deleted \in [Pods -> 0 .. Limit] /\ skipped \in [Pods -> Nat]
      /\ stage \in [Pods -> Stages]
  BY DEF IInv, TypeOK
<1>2. Limit \in Nat /\ deleted[p] \in Nat /\ Cardinality(page[p]) <= Limit - deleted[p]
  BY <1>1, StoreAssumption DEF IInv, Filled, Want
<1>3. Cardinality(Doomed(p)) \in 0 .. Cardinality(page[p]) /\ Skip(p) \in Nat
      /\ Cardinality(page[p]) \in Nat
  BY DoomedOfPage DEF IInv
<1>4. deleted[p] + Cardinality(Doomed(p)) \in 0 .. Limit
  BY <1>2, <1>3
<1>5. skipped[p] + Skip(p) \in Nat
  BY <1>1, <1>3
<1>6. /\ deleted' = [deleted EXCEPT ![p] = deleted[p] + Cardinality(Doomed(p))]
      /\ skipped' = [skipped EXCEPT ![p] = skipped[p] + Skip(p)]
      /\ stage' = [stage EXCEPT
              ![p] = IF Cardinality(page[p]) < Want(p) THEN "drained" ELSE "scan"]
  BY DEF PageDone
<1> QED
  BY <1>1, <1>4, <1>5, <1>6 DEF Stages

LEMMA InitTyped == Init => IInv
<1> SUFFICES ASSUME Init PROVE IInv
  OBVIOUS
<1> USE DEF Init
<1>1. NoTags \in [Tags -> Nat]
  BY DEF NoTags
<1>2. TypeOK
  BY <1>1, StoreAssumption DEF TypeOK, Stages, Scopes
<1>3. \A p \in Pods : Filled(p)
  BY DEF Filled
<1> QED
  BY <1>2, <1>3 DEF IInv

(* Only a step of a pod's own moves its page.                              *)
LEMMA FilledStays ==
  ASSUME IInv, NEW p \in Pods,
         stage'[p] = stage[p] \/ stage'[p] \notin {"read", "remove", "count"},
         page'[p] = page[p], deleted'[p] = deleted[p]
  PROVE  Filled(p)'
  BY DEF IInv, Filled, Want

LEMMA StoreTyped ==
  ASSUME IInv, NEW e \in Entries, NEW times \in {1, 2}, Store(e, times)
  PROVE  IInv'
<1> USE DEF IInv, Store, callVars
<1>1. counts' \in [Tags -> Nat]
  BY DEF TypeOK
<1>2. failures' \in 0 .. MaxFailures
  BY StoreAssumption DEF TypeOK
<1>3. unsaved' \subseteq Entries /\ stored' \subseteq Entries \ unsaved'
  BY DEF TypeOK
<1>4. TypeOK'
  BY <1>1, <1>2, <1>3 DEF TypeOK
<1>5. \A p \in Pods : Filled(p)'
  BY FilledStays
<1> QED
  BY <1>4, <1>5

LEMMA BeginTyped ==
  ASSUME IInv, NEW p \in Pods, NEW s \in Scopes, Begin(p, s)
  PROVE  IInv'
<1> USE DEF IInv, Begin, storeVars
<1>1. due' \in [Pods -> SUBSET Entries]
  <2> DEFINE b == IF s = "own" THEN cutoff - KeptLonger ELSE cutoff
             inScope == {e \in Candidates(s, b) : ~Spared(s, e)}
  <2>1. due' = [due EXCEPT ![p] = inScope]
    OBVIOUS
  <2>2. inScope \in SUBSET Entries
    BY CandidatesAreEntries DEF TypeOK
  <2> HIDE DEF inScope
  <2> QED
    BY <2>1, <2>2 DEF TypeOK
<1>2. before' \in [Pods -> Int]
  BY StoreAssumption DEF TypeOK
<1>3. deleted' \in [Pods -> 0 .. Limit]
  BY StoreAssumption DEF TypeOK
<1>4. skipped' \in [Pods -> Nat] /\ scanned' \in [Pods -> Nat]
  BY DEF TypeOK
<1>5. stage' \in [Pods -> Stages] /\ scope' \in [Pods -> Scopes]
  BY DEF TypeOK, Stages
<1>6. TypeOK'
  BY <1>1, <1>2, <1>3, <1>4, <1>5 DEF TypeOK
<1>7. ASSUME NEW q \in Pods
      PROVE  Filled(q)'
  <2>1. CASE q = p
    BY <2>1, <1>5 DEF TypeOK, Filled
  <2>2. CASE q # p
    BY <2>2, FilledStays DEF TypeOK
  <2> QED
    BY <2>1, <2>2
<1> QED
  BY <1>6, <1>7

LEMMA ReadPageTyped ==
  ASSUME IInv, NEW p \in Pods, ReadPage(p)
  PROVE  IInv'
<1> DEFINE found == Page(Candidates(scope[p], before[p]), skipped[p], Want(p))
<1> USE DEF IInv
<1>1. /\ page \in [Pods -> SUBSET Entries] /\ scanned \in [Pods -> Nat]
      /\ stage \in [Pods -> Stages] /\ deleted[p] \in 0 .. Limit /\ skipped[p] \in Nat
      /\ deleted \in [Pods -> 0 .. Limit] /\ Limit \in Nat /\ Want(p) \in Nat
  BY StoreAssumption DEF TypeOK, Want
<1>2. /\ found \in SUBSET Entries
      /\ Cardinality(found) \in 0 .. Want(p)
  <2>1. Candidates(scope[p], before[p]) \in SUBSET Int
        /\ IsFiniteSet(Candidates(scope[p], before[p]))
        /\ Candidates(scope[p], before[p]) \subseteq Entries
    BY CandidatesAreEntries DEF TypeOK
  <2> QED
    BY <1>1, <2>1, PageOfIndex
<1> HIDE DEF found
<1>3. /\ stage' \in [Pods -> Stages]
      /\ page' \in [Pods -> SUBSET Entries]
      /\ scanned' \in [Pods -> Nat]
  <2>1. scanned[p] + Cardinality(found) \in Nat
    BY <1>1, <1>2
  <2> QED
    BY <1>1, <1>2, <2>1 DEF ReadPage, found, Stages
<1>4. TypeOK'
  BY <1>3 DEF TypeOK, ReadPage, storeVars
<1>5. ASSUME NEW q \in Pods
      PROVE  Filled(q)'
  <2>0. deleted' = deleted
    BY DEF ReadPage
  <2>1. CASE q = p /\ deleted[p] < Limit /\ scanned[p] < Limit * ScanMultiple
    <3>1. page'[p] = found
      BY <1>1, <2>1 DEF ReadPage, found
    <3> QED
      BY <1>2, <2>0, <2>1, <3>1 DEF Filled, Want
  <2>2. CASE q = p /\ ~(deleted[p] < Limit /\ scanned[p] < Limit * ScanMultiple)
    BY <1>1, <2>2 DEF ReadPage, Filled
  <2>3. CASE q # p
    BY <1>1, <2>0, <2>3, FilledStays DEF ReadPage
  <2> QED
    BY <2>1, <2>2, <2>3
<1> QED
  BY <1>4, <1>5

LEMMA ReadEntriesTyped ==
  ASSUME IInv, NEW p \in Pods, ReadEntries(p)
  PROVE  IInv'
<1> USE DEF IInv, ReadEntries, storeVars
<1>1. TypeOK'
  BY DEF TypeOK, Stages
<1>2. \A q \in Pods : Filled(q)'
  BY DEF TypeOK, Filled, Want
<1> QED
  BY <1>1, <1>2

LEMMA RemoveTyped ==
  ASSUME IInv, NEW p \in Pods, Remove(p)
  PROVE  IInv'
<1> USE DEF IInv, Remove
<1>1. owed' \in [Pods -> [Tags -> Nat]]
  BY DoomedOfPage DEF TypeOK
<1>2. /\ deleted' \in [Pods -> 0 .. Limit]
      /\ skipped' \in [Pods -> Nat]
      /\ stage' \in [Pods -> Stages]
  <2>1. CASE Decrements(p) = NoTags
    BY <2>1, PageDoneTyped
  <2>2. CASE Decrements(p) # NoTags
    BY <2>2 DEF TypeOK, Stages
  <2> QED
    BY <2>1, <2>2
<1>3. TypeOK'
  BY <1>1, <1>2 DEF TypeOK
<1>4. ASSUME NEW q \in Pods
      PROVE  Filled(q)'
  <2>1. CASE Decrements(p) = NoTags /\ q = p
    BY <2>1, PageDoneTyped DEF Filled
  <2>2. CASE Decrements(p) = NoTags /\ q # p
    BY <2>2, FilledStays DEF PageDone, TypeOK
  <2>3. CASE Decrements(p) # NoTags
    BY <2>3 DEF TypeOK, Filled, Want
  <2> QED
    BY <2>1, <2>2, <2>3
<1> QED
  BY <1>3, <1>4

LEMMA DecrementedTyped ==
  ASSUME TypeOK, NEW p \in Pods
  PROVE  Decremented(p) \in [Tags -> Nat]
<1>1. counts \in [Tags -> Nat] /\ owed[p] \in [Tags -> Nat]
  BY DEF TypeOK
<1> QED
  BY <1>1 DEF Decremented

LEMMA CountTagsTyped ==
  ASSUME IInv, NEW p \in Pods, CountTags(p)
  PROVE  IInv'
<1> USE DEF IInv, CountTags
<1>1. counts' \in [Tags -> Nat]
  BY DecrementedTyped
<1>2. owed' \in [Pods -> [Tags -> Nat]]
  BY DEF TypeOK, NoTags
<1>3. TypeOK'
  BY <1>1, <1>2, PageDoneTyped DEF TypeOK
<1>4. ASSUME NEW q \in Pods
      PROVE  Filled(q)'
  <2>1. CASE q = p
    BY <2>1, PageDoneTyped DEF Filled
  <2>2. CASE q # p
    BY <2>2, FilledStays DEF PageDone, TypeOK
  <2> QED
    BY <2>1, <2>2
<1> QED
  BY <1>3, <1>4

LEMMA ReturnTyped ==
  ASSUME IInv, NEW p \in Pods, Return(p)
  PROVE  IInv'
<1> USE DEF IInv, Return, storeVars
<1>1. TypeOK'
  BY DEF TypeOK, Stages
<1>2. \A q \in Pods : Filled(q)'
  BY DEF TypeOK, Filled, Want
<1> QED
  BY <1>1, <1>2

LEMMA FailTyped ==
  ASSUME IInv, NEW p \in Pods, Fail(p)
  PROVE  IInv'
<1> USE DEF IInv, Fail
<1>1. counts' \in [Tags -> Nat] /\ stored' \subseteq stored
  BY DecrementedTyped DEF TypeOK
<1>2. owed' \in [Pods -> [Tags -> Nat]]
  BY DEF TypeOK, NoTags
<1>3. failures' \in 0 .. MaxFailures
  BY StoreAssumption DEF TypeOK
<1>4. TypeOK'
  BY <1>1, <1>2, <1>3 DEF TypeOK, Stages
<1>5. \A q \in Pods : Filled(q)'
  BY DEF TypeOK, Filled, Want
<1> QED
  BY <1>4, <1>5

LEMMA TypeStep == IInv /\ [Next]_vars => IInv'
<1> SUFFICES ASSUME IInv, [Next]_vars PROVE IInv'
  OBVIOUS
<1>1. CASE Age
  <2> USE <1>1 DEF IInv, Age, storeVars, callVars
  <2>1. TypeOK'
    BY DEF TypeOK
  <2> QED
    BY <2>1, FilledStays
<1>2. CASE UNCHANGED vars
  <2> USE <1>2 DEF IInv, vars, storeVars, callVars
  <2>1. TypeOK'
    BY DEF TypeOK
  <2> QED
    BY <2>1, FilledStays
<1> QED
  BY <1>1, <1>2, StoreTyped, BeginTyped, ReadPageTyped, ReadEntriesTyped, RemoveTyped,
     CountTagsTyped, ReturnTyped, FailTyped DEF Next, CallStep

(* The state has its type, and no call deletes more than its limit,        *)
(* however many pods prune at once (BoundedPruneScope.limit).              *)
THEOREM TypeInvariant == Spec => []TypeOK
<1>1. IInv => TypeOK
  BY DEF IInv
<1> QED
  BY <1>1, InitTyped, TypeStep, PTL DEF Spec

-----------------------------------------------------------------------------
(* One pod prunes.                                                         *)

OnePod == \E p : Pods = {p}

(* Every stored entry is in the counts, and so is what is yet to be        *)
(* decremented.                                                            *)
Book(p) ==
  /\ stage[p] # "count" => owed[p] = NoTags
  /\ \A t \in Tags :
       /\ counts[t] >= Count(stored, t) + owed[p][t]
       /\ failures = 0 => counts[t] = Count(stored, t) + owed[p][t]

InScope(p, e) == e <= before[p] /\ (scope[p] = "own" => e \in Kept)

Index(p) == Candidates(scope[p], before[p])

(* The page is in the store until the call itself removes it, and then     *)
(* what it spared still is.                                                *)
Paged(p) ==
  /\ stage[p] \in {"read", "remove", "count"} =>
       \A e \in page[p] : InScope(p, e) /\ e \notin unsaved
  /\ stage[p] \in {"read", "remove"} => page[p] \subseteq stored
  /\ stage[p] \in {"remove", "count"} => seen[p] = page[p]
  /\ stage[p] = "count" => /\ page[p] \ Doomed(p) \subseteq stored
                           /\ Doomed(p) \cap stored = {}

DueInScope(p) ==
  \A e \in due[p] : InScope(p, e) /\ ~Spared(scope[p], e) /\ e \notin unsaved

Left(p) == due[p] \cap stored

(* The offset passes over nothing that is due: what it skips is behind     *)
(* everything that is left, a page that holds less is full and older.      *)
Ahead(p) ==
  /\ stage[p] = "scan" =>
       \A d \in Left(p) : Cardinality(Behind(Index(p), d)) >= skipped[p]
  /\ stage[p] \in {"read", "remove", "count"} =>
       \A d \in Left(p) \ page[p] :
         /\ Cardinality(page[p]) = Want(p)
         /\ \A c \in page[p] : c < d
         /\ Cardinality(Behind(Index(p), d) \ page[p]) >= skipped[p]
  /\ stage[p] = "drained" => Left(p) = {}

OneInv(p) == Book(p) /\ Paged(p) /\ DueInScope(p) /\ Ahead(p)

(* What is behind an entry only falls by what is taken out of the index.   *)
LEMMA BehindGrows ==
  ASSUME NEW S \in SUBSET Entries, NEW T \in SUBSET Entries, NEW pg, S \ pg \subseteq T, NEW d
  PROVE  /\ Cardinality(Behind(S, d) \ pg) \in Nat
         /\ Cardinality(Behind(T, d) \ pg) \in Nat
         /\ Cardinality(Behind(S, d) \ pg) <= Cardinality(Behind(T, d) \ pg)
<1>1. Behind(S, d) \ pg \subseteq Behind(T, d) \ pg
  BY DEF Behind
<1>2. Behind(T, d) \ pg \in SUBSET Entries /\ Behind(S, d) \ pg \in SUBSET Entries
  BY DEF Behind
<1> QED
  BY <1>1, <1>2, FiniteEntries, FS_Subset

LEMMA NothingTaken == \A S : S \ {} = S
OBVIOUS

LEMMA OneInit == ASSUME NEW p \in Pods, Init PROVE OneInv(p)
<1> USE DEF Init
<1>1. \A t : Count({}, t) = 0
  <2>1. \A t : {e \in {} : t \in TagsOf[e]} = {}
    OBVIOUS
  <2> QED
    BY <2>1, FS_EmptySet DEF Count
<1>2. Book(p)
  BY <1>1 DEF Book, NoTags
<1>3. Paged(p) /\ DueInScope(p) /\ Ahead(p)
  BY DEF Paged, DueInScope, Ahead
<1> QED
  BY <1>2, <1>3 DEF OneInv

LEMMA AgeKeeps ==
  ASSUME NEW p \in Pods, OneInv(p), Age \/ UNCHANGED vars
  PROVE  OneInv(p)'
<1> USE DEF Age, vars, storeVars, callVars
<1>1. /\ UNCHANGED <<unsaved, stored, counts>>
      /\ UNCHANGED <<stage, scope, before, page, seen, owed, deleted, skipped, due, failures>>
  OBVIOUS
<1>2. Book(p)' /\ Paged(p)' /\ DueInScope(p)'
  BY <1>1 DEF OneInv, Book, Paged, DueInScope, InScope, Doomed, Spared, Count
<1>3. Ahead(p)'
  BY <1>1 DEF OneInv, Ahead, Left, Index, Candidates, Behind, Want
<1> QED
  BY <1>2, <1>3 DEF OneInv

(* A new entry is not due, and is only ever in front of something more.    *)
LEMMA StoreKeeps ==
  ASSUME IInv, NEW p \in Pods, OneInv(p), NEW e \in Entries, NEW times \in {1, 2},
         Store(e, times)
  PROVE  OneInv(p)'
<1> USE DEF OneInv, IInv
<1>1. /\ e \in unsaved /\ e \notin stored /\ stored' = stored \cup {e}
      /\ unsaved' = unsaved \ {e} /\ failures' = failures + times - 1
      /\ stored \in SUBSET Entries /\ failures \in Nat
      /\ UNCHANGED <<stage, scope, before, page, seen, owed, deleted, skipped, due>>
  BY DEF Store, callVars, TypeOK
<1>2. Book(p)'
  <2>1. ASSUME NEW t \in Tags
        PROVE  /\ counts'[t] >= Count(stored', t) + owed'[p][t]
               /\ failures' = 0 => counts'[t] = Count(stored', t) + owed'[p][t]
    <3>1. Count(stored', t) = IF t \in TagsOf[e] THEN Count(stored, t) + 1
                                                 ELSE Count(stored, t)
      BY <1>1, CountWith
    <3>2. counts'[t] = IF t \in TagsOf[e] THEN counts[t] + times ELSE counts[t]
      BY DEF Store
    <3>3. Count(stored, t) \in Nat /\ counts[t] \in Nat /\ owed[p][t] \in Nat
      BY CountIsNat DEF TypeOK
    <3>4. /\ counts[t] >= Count(stored, t) + owed[p][t]
          /\ failures = 0 => counts[t] = Count(stored, t) + owed[p][t]
      BY DEF Book
    <3>5. failures' = 0 => failures = 0 /\ times = 1
      BY <1>1
    <3>6. owed'[p][t] = owed[p][t]
      BY <1>1
    <3> QED
      BY <3>1, <3>2, <3>3, <3>4, <3>5, <3>6
  <2> QED
    BY <1>1, <2>1 DEF Book
<1>3. Paged(p)'
  <2>1. Doomed(p)' = Doomed(p) /\ Doomed(p) \subseteq page[p]
    BY <1>1 DEF Doomed, Spared
  <2>2. stage[p] = "count" => e \notin Doomed(p)
    BY <1>1, <2>1 DEF Paged
  <2> QED
    BY <1>1, <2>1, <2>2 DEF Paged, InScope
<1>4. DueInScope(p)' /\ e \notin due[p]
  BY <1>1 DEF DueInScope, InScope, Spared
<1>5. Left(p)' = Left(p)
  BY <1>1, <1>4 DEF Left
<1>6. /\ Index(p) \in SUBSET Entries /\ Index(p)' \in SUBSET Entries
      /\ Index(p) \subseteq Index(p)'
  <2>1. IInv'
    BY StoreTyped
  <2> QED
    BY <1>1, <2>1 DEF Index, Candidates, TypeOK
<1>7. ASSUME NEW d, NEW pg, Cardinality(Behind(Index(p), d) \ pg) >= skipped[p]
      PROVE  Cardinality(Behind(Index(p)', d) \ pg) >= skipped[p]
  <2>1. skipped[p] \in Nat
    BY DEF TypeOK
  <2>2. PICK S \in SUBSET Entries, T \in SUBSET Entries :
             S = Index(p) /\ T = Index(p)' /\ S \subseteq T
    BY <1>6
  <2>3. /\ Cardinality(Behind(S, d) \ pg) \in Nat
        /\ Cardinality(Behind(T, d) \ pg) \in Nat
        /\ Cardinality(Behind(S, d) \ pg) <= Cardinality(Behind(T, d) \ pg)
    BY <2>2, BehindGrows
  <2> QED
    BY <1>7, <2>1, <2>2, <2>3
<1>8. Ahead(p)'
  <2>1. ASSUME NEW d \in Left(p), stage[p] = "scan"
        PROVE  Cardinality(Behind(Index(p)', d)) >= skipped[p]
    <3>1. Cardinality(Behind(Index(p), d) \ {}) >= skipped[p]
      BY <2>1, NothingTaken DEF Ahead
    <3> QED
      BY <1>7, <3>1, NothingTaken
  <2>2. ASSUME NEW d \in Left(p) \ page[p], stage[p] \in {"read", "remove", "count"}
        PROVE  Cardinality(Behind(Index(p)', d) \ page[p]) >= skipped[p]
    BY <1>7, <2>2 DEF Ahead
  <2>3. Want(p)' = Want(p)
    BY <1>1 DEF Want
  <2> QED
    BY <1>1, <1>5, <2>1, <2>2, <2>3 DEF Ahead
<1> QED
  BY <1>2, <1>3, <1>4, <1>8

LEMMA BeginKeeps ==
  ASSUME IInv, NEW p \in Pods, OneInv(p), NEW s \in Scopes, Begin(p, s)
  PROVE  OneInv(p)'
<1> USE DEF OneInv, IInv
<1> DEFINE b == IF s = "own" THEN cutoff - KeptLonger ELSE cutoff
<1>1. /\ stage[p] = "idle" /\ stage'[p] = "scan" /\ scope'[p] = s /\ skipped'[p] = 0
      /\ before'[p] = b /\ due'[p] = {e \in Candidates(s, b) : ~Spared(s, e)}
      /\ UNCHANGED <<unsaved, stored, counts, page, seen, owed, failures>>
  BY DEF Begin, TypeOK, storeVars
<1> HIDE DEF b
<1>2. Book(p)'
  BY <1>1 DEF Book, Count
<1>3. Paged(p)'
  BY <1>1 DEF Paged
<1>4. DueInScope(p)'
  BY <1>1 DEF DueInScope, InScope, Candidates, TypeOK
<1>5. Ahead(p)'
  <2>1. IInv'
    BY BeginTyped
  <2>2. PICK S \in SUBSET Entries : S = Index(p)'
    BY <2>1 DEF Index, Candidates, TypeOK
  <2>3. \A d : Cardinality(Behind(S, d)) \in Nat
    BY BehindGrows, NothingTaken, ZenonT(40)
  <2>4. \A d : Cardinality(Behind(S, d)) >= skipped'[p]
    BY <1>1, <2>3
  <2> QED
    BY <1>1, <2>2, <2>4 DEF Ahead
<1> QED
  BY <1>2, <1>3, <1>4, <1>5

LEMMA ReadPageKeeps ==
  ASSUME IInv, NEW p \in Pods, OneInv(p), ReadPage(p)
  PROVE  OneInv(p)'
<1> DEFINE found == Page(Index(p), skipped[p], Want(p))
<1> USE DEF OneInv, IInv
<1>1. /\ stage[p] = "scan"
      /\ UNCHANGED <<unsaved, stored, counts, scope, before, seen, owed, deleted, skipped, due,
                     failures>>
      /\ IF deleted[p] < Limit /\ scanned[p] < Limit * ScanMultiple
           THEN page'[p] = found
                /\ stage'[p] = IF found = {} THEN "drained" ELSE "read"
           ELSE stage'[p] = "more"
  BY DEF ReadPage, TypeOK, storeVars, Index
<1>2. Book(p)' /\ DueInScope(p)'
  BY <1>1 DEF Book, Count, DueInScope, InScope, Spared
<1>3. CASE stage'[p] = "more"
  <2>1. Paged(p)' /\ Ahead(p)'
    BY <1>3 DEF Paged, Ahead
  <2> QED
    BY <1>2, <2>1
<1>4. CASE deleted[p] < Limit /\ scanned[p] < Limit * ScanMultiple
  <2>1. /\ Want(p) \in Nat \ {0} /\ skipped[p] \in Nat
        /\ Index(p) \in SUBSET Int /\ IsFiniteSet(Index(p))
    BY <1>4, StoreAssumption, CandidatesAreEntries DEF TypeOK, Want, Index
  <2>2. found \subseteq Index(p) /\ Cardinality(found) \in 0 .. Want(p)
    BY <2>1, PageOfIndex
  <2>3. ASSUME NEW d \in Left(p) \ found
        PROVE  /\ Cardinality(found) = Want(p)
               /\ \A c \in found : c < d
               /\ Cardinality(Behind(Index(p), d) \ found) >= skipped[p]
    <3>1. d \in Index(p)
      BY DEF Left, DueInScope, InScope, Index, Candidates
    <3>2. Cardinality(Behind(Index(p), d)) >= skipped[p]
      BY <1>1 DEF Ahead
    <3> HIDE DEF found
    <3> QED
      BY <2>1, <3>1, <3>2, PageOfIndex DEF found
  <2> HIDE DEF found
  <2>4. found = {} => Left(p) = {}
    BY <2>1, <2>3, FS_EmptySet
  <2>5. /\ page'[p] = found /\ Index(p)' = Index(p) /\ Left(p)' = Left(p) /\ Want(p)' = Want(p)
        /\ stage'[p] = IF found = {} THEN "drained" ELSE "read"
    BY <1>1, <1>4 DEF Index, Candidates, Left, Want
  <2>6. Paged(p)'
    <3>1. \A e \in found : e \in stored /\ InScope(p, e) /\ e \notin unsaved
      BY <2>2 DEF Index, Candidates, InScope, TypeOK
    <3>2. \A e : InScope(p, e)' = InScope(p, e)
      BY <1>1 DEF InScope
    <3> QED
      BY <1>1, <2>5, <3>1, <3>2 DEF Paged
  <2>7. Ahead(p)'
    BY <1>1, <2>3, <2>4, <2>5 DEF Ahead
  <2> QED
    BY <1>2, <2>6, <2>7
<1> QED
  BY <1>1, <1>3, <1>4

LEMMA ReadEntriesKeeps ==
  ASSUME IInv, NEW p \in Pods, OneInv(p), ReadEntries(p)
  PROVE  OneInv(p)'
<1> USE DEF OneInv, IInv
<1>1. /\ stage[p] = "read" /\ stage'[p] = "remove" /\ seen'[p] = page[p] \cap stored
      /\ UNCHANGED <<unsaved, stored, counts, scope, before, page, owed, deleted, skipped, due,
                     failures>>
  BY DEF ReadEntries, TypeOK, storeVars
<1>2. Book(p)' /\ DueInScope(p)'
  BY <1>1 DEF Book, Count, DueInScope, InScope, Spared
<1>3. Paged(p)'
  BY <1>1 DEF Paged, InScope
<1>4. Ahead(p)'
  BY <1>1 DEF Ahead, Left, Index, Candidates, Want
<1> QED
  BY <1>2, <1>3, <1>4

LEMMA ReturnKeeps ==
  ASSUME IInv, NEW p \in Pods, OneInv(p), Return(p)
  PROVE  OneInv(p)'
<1> USE DEF OneInv, IInv
<1>1. /\ stage[p] \in {"more", "drained"} /\ stage'[p] = "idle"
      /\ UNCHANGED <<unsaved, stored, counts, scope, before, owed, due, failures>>
  BY DEF Return, TypeOK, storeVars
<1>2. Book(p)' /\ DueInScope(p)'
  BY <1>1 DEF Book, Count, DueInScope, InScope, Spared
<1>3. Paged(p)' /\ Ahead(p)'
  BY <1>1 DEF Paged, Ahead
<1> QED
  BY <1>2, <1>3

(* What a page spared is skipped with what the earlier ones spared.        *)
LEMMA SparedAreSkipped ==
  ASSUME NEW S \in SUBSET Entries, NEW T \in SUBSET Entries, NEW pg, NEW gone,
         S \ pg \subseteq T, pg \ gone \subseteq T, NEW d, \A c \in pg : c < d,
         NEW n \in Nat, Cardinality(Behind(S, d) \ pg) >= n
  PROVE  Cardinality(Behind(T, d)) >= n + Cardinality(pg \ gone)
<1> DEFINE older == Behind(T, d) \ pg
           rest  == pg \ gone
<1>1. older \cup rest \subseteq Behind(T, d) /\ older \cap rest = {}
  BY DEF Behind
<1>2. Behind(T, d) \in SUBSET Entries
  BY DEF Behind
<1>3. older \in SUBSET Entries /\ rest \in SUBSET Entries /\ older \cup rest \in SUBSET Entries
  BY <1>1, <1>2
<1>4. /\ Cardinality(Behind(S, d) \ pg) \in Nat /\ Cardinality(older) \in Nat
      /\ Cardinality(Behind(S, d) \ pg) <= Cardinality(older)
  BY BehindGrows
<1> HIDE DEF older, rest
<1>5. /\ IsFiniteSet(older) /\ IsFiniteSet(rest) /\ IsFiniteSet(Behind(T, d))
      /\ Cardinality(rest) \in Nat /\ Cardinality(Behind(T, d)) \in Nat
      /\ Cardinality(older \cup rest) \in Nat
  BY <1>2, <1>3, FiniteEntries
<1>6. Cardinality(older \cup rest) = Cardinality(older) + Cardinality(rest) - Cardinality({})
  BY <1>1, <1>5, FS_Union
<1>7. Cardinality(older \cup rest) <= Cardinality(Behind(T, d))
  BY <1>1, <1>5, FS_Subset
<1>8. Cardinality(Behind(T, d)) >= n + Cardinality(rest)
  BY <1>4, <1>5, <1>6, <1>7, FS_EmptySet
<1> QED
  BY <1>8 DEF rest

(* The call moves on, or ends because its page was short.                  *)
LEMMA PageDoneKeeps ==
  ASSUME IInv, NEW p \in Pods, OneInv(p), stage[p] \in {"remove", "count"}, PageDone(p),
         UNCHANGED <<scope, before, page, due>>, stored' \in SUBSET Entries,
         stored \ page[p] = stored' \ page[p], page[p] \ Doomed(p) \subseteq stored',
         Doomed(p) \cap stored' = {}
  PROVE  Ahead(p)'
<1> USE DEF OneInv, IInv
<1>1. /\ skipped'[p] = skipped[p] + Cardinality(page[p] \ Doomed(p))
      /\ stage'[p] = IF Cardinality(page[p]) < Want(p) THEN "drained" ELSE "scan"
  BY DEF PageDone, TypeOK, Skip
<1>2. Left(p)' \subseteq Left(p) \ page[p]
  <2>1. \A e \in due[p] \cap page[p] : e \in Doomed(p)
    BY DEF DueInScope, Doomed
  <2> QED
    BY <2>1 DEF Left
<1>3. \A d \in Left(p)' :
        /\ Cardinality(page[p]) = Want(p)
        /\ \A c \in page[p] : c < d
        /\ Cardinality(Behind(Index(p), d) \ page[p]) >= skipped[p]
  BY <1>2 DEF Ahead
<1>4. CASE stage'[p] = "drained"
  <2>1. Cardinality(page[p]) < Want(p)
    BY <1>1, <1>4
  <2>2. ~(Cardinality(page[p]) = Want(p))
    BY <2>1, DoomedOfPage
  <2>3. Left(p)' = {}
    BY <1>3, <2>2
  <2> QED
    BY <1>4, <2>3 DEF Ahead
<1>5. CASE stage'[p] = "scan"
  <2>1. PICK S \in SUBSET Entries, T \in SUBSET Entries :
             S = Index(p) /\ T = Index(p)'
    BY DEF Index, Candidates, TypeOK
  <2>2. S \ page[p] \subseteq T /\ page[p] \ Doomed(p) \subseteq T
    <3>1. \A e \in page[p] : InScope(p, e)
      BY DEF Paged
    <3> QED
      BY <2>1, <3>1 DEF Index, Candidates, InScope
  <2>3. skipped[p] \in Nat
    BY DEF TypeOK
  <2>4. ASSUME NEW d \in Left(p)'
        PROVE  Cardinality(Behind(T, d)) >= skipped'[p]
    <3>1. PICK n \in Nat : n = skipped[p]
      BY <2>3
    <3>2. /\ \A c \in page[p] : c < d
          /\ Cardinality(Behind(S, d) \ page[p]) >= n
      BY <1>3, <2>1, <3>1
    <3>3. Cardinality(Behind(T, d)) >= n + Cardinality(page[p] \ Doomed(p))
      BY <2>2, <3>2, SparedAreSkipped
    <3> QED
      BY <1>1, <3>1, <3>3
  <2> QED
    BY <1>5, <2>1, <2>4 DEF Ahead
<1> QED
  BY <1>1, <1>4, <1>5

LEMMA RemoveKeeps ==
  ASSUME IInv, NEW p \in Pods, OneInv(p), Remove(p)
  PROVE  OneInv(p)'
<1> USE DEF OneInv, IInv
<1>1. /\ stage[p] = "remove" /\ seen[p] = page[p] /\ page[p] \subseteq stored
      /\ stored' = stored \ Doomed(p) /\ owed'[p] = Decrements(p) /\ owed[p] = NoTags
      /\ UNCHANGED <<unsaved, counts, scope, before, page, seen, due, failures>>
      /\ stored \in SUBSET Entries /\ Doomed(p) \subseteq page[p]
  BY DoomedOfPage DEF Remove, Paged, Book, TypeOK
<1>2. /\ stored' \in SUBSET Entries /\ stored \ page[p] = stored' \ page[p]
      /\ page[p] \ Doomed(p) \subseteq stored' /\ Doomed(p) \cap stored' = {}
  BY <1>1
<1>3. IF Decrements(p) = NoTags THEN PageDone(p)
      ELSE stage'[p] = "count" /\ deleted' = deleted /\ skipped' = skipped
  BY DEF Remove, TypeOK
<1>4. stage'[p] = "count" \/ /\ stage'[p] \in {"scan", "drained"}
                             /\ owed'[p] = NoTags
  BY <1>1, <1>3, PageDoneTyped
<1>5. Book(p)'
  <2>1. ASSUME NEW t \in Tags
        PROVE  /\ counts'[t] >= Count(stored', t) + owed'[p][t]
               /\ failures' = 0 => counts'[t] = Count(stored', t) + owed'[p][t]
    <3>1. Count(stored', t) = Count(stored, t) - Count(Doomed(p), t)
      BY <1>1, CountWithout
    <3>2. owed'[p][t] = Count(Doomed(p), t)
      <4>1. seen[p] \cap Doomed(p) = Doomed(p)
        BY <1>1
      <4> QED
        BY <1>1, <4>1 DEF Decrements
    <3>3. Count(stored, t) \in Nat /\ Count(Doomed(p), t) \in Nat /\ counts[t] \in Nat
      <4>1. Doomed(p) \in SUBSET Entries
        BY <1>1
      <4> QED
        BY <4>1, CountIsNat DEF TypeOK
    <3>4. /\ counts[t] >= Count(stored, t) + owed[p][t] /\ owed[p][t] = 0
          /\ failures = 0 => counts[t] = Count(stored, t) + owed[p][t]
      BY <1>1 DEF Book, NoTags
    <3> QED
      BY <1>1, <3>1, <3>2, <3>3, <3>4
  <2> QED
    BY <1>4, <2>1 DEF Book, NoTags
<1>6. Paged(p)'
  <2>1. Doomed(p)' = Doomed(p)
    BY <1>1 DEF Doomed, Spared
  <2>2. \A e \in page[p] : InScope(p, e)' /\ e \notin unsaved
    BY <1>1 DEF Paged, InScope
  <2> QED
    BY <1>1, <1>2, <1>4, <2>1, <2>2 DEF Paged
<1>7. DueInScope(p)'
  BY <1>1 DEF DueInScope, InScope, Spared
<1>8. Ahead(p)'
  <2>1. CASE Decrements(p) = NoTags
    BY <1>1, <1>2, <1>3, <2>1, PageDoneKeeps
  <2>2. CASE Decrements(p) # NoTags
    <3>1. /\ stage'[p] = "count" /\ skipped' = skipped /\ Want(p)' = Want(p)
          /\ Left(p)' \ page[p] = Left(p) \ page[p]
      BY <1>1, <1>2, <1>3, <2>2 DEF Want, Left
    <3>2. \A d : Behind(Index(p), d)' \ page[p] = Behind(Index(p), d) \ page[p]
      BY <1>1, <1>2 DEF Index, Candidates, Behind
    <3> QED
      BY <1>1, <3>1, <3>2 DEF Ahead
  <2> QED
    BY <2>1, <2>2
<1> QED
  BY <1>5, <1>6, <1>7, <1>8

(* The decrements take no more than was owed.                              *)
LEMMA DecrementsCover ==
  ASSUME IInv, NEW p \in Pods, OneInv(p), NEW t \in Tags
  PROVE  /\ Decremented(p)[t] >= Count(stored, t)
         /\ failures = 0 => Decremented(p)[t] = Count(stored, t)
<1>1. counts[t] \in Nat /\ owed[p][t] \in Nat /\ Count(stored, t) \in Nat
  BY CountIsNat DEF IInv, TypeOK
<1>2. /\ counts[t] >= Count(stored, t) + owed[p][t]
      /\ failures = 0 => counts[t] = Count(stored, t) + owed[p][t]
  BY DEF OneInv, Book
<1> QED
  BY <1>1, <1>2 DEF Decremented

LEMMA CountTagsKeeps ==
  ASSUME IInv, NEW p \in Pods, OneInv(p), CountTags(p)
  PROVE  OneInv(p)'
<1> USE DEF OneInv, IInv
<1>1. /\ stage[p] = "count" /\ PageDone(p) /\ counts' = Decremented(p)
      /\ owed'[p] = NoTags /\ stored \in SUBSET Entries
      /\ UNCHANGED <<unsaved, stored, scope, before, page, seen, due, failures>>
  BY DEF CountTags, TypeOK
<1>2. stage'[p] \in {"drained", "scan"}
  BY <1>1, PageDoneTyped
<1>3. Book(p)'
  <2>1. ASSUME NEW t \in Tags
        PROVE  /\ counts'[t] >= Count(stored', t) + owed'[p][t]
               /\ failures' = 0 => counts'[t] = Count(stored', t) + owed'[p][t]
    <3>1. owed'[p][t] = 0 /\ Count(stored', t) = Count(stored, t) /\ Count(stored, t) \in Nat
      BY <1>1, CountIsNat DEF NoTags
    <3>2. /\ counts'[t] >= Count(stored, t)
          /\ failures = 0 => counts'[t] = Count(stored, t)
      BY <1>1, DecrementsCover
    <3> QED
      BY <1>1, <3>1, <3>2
  <2> QED
    BY <1>1, <2>1 DEF Book, NoTags
<1>4. Paged(p)'
  BY <1>2 DEF Paged
<1>5. DueInScope(p)'
  BY <1>1 DEF DueInScope, InScope, Spared
<1>6. Ahead(p)'
  <2>1. page[p] \ Doomed(p) \subseteq stored /\ Doomed(p) \cap stored = {}
    BY <1>1 DEF Paged
  <2> QED
    BY <1>1, <2>1, PageDoneKeeps
<1> QED
  BY <1>3, <1>4, <1>5, <1>6

LEMMA FailKeeps ==
  ASSUME IInv, NEW p \in Pods, OneInv(p), Fail(p)
  PROVE  OneInv(p)'
<1> USE DEF OneInv, IInv
<1>1. /\ stage'[p] = "idle" /\ owed'[p] = NoTags /\ failures' # 0
      /\ UNCHANGED <<unsaved, scope, before, due>> /\ stored \in SUBSET Entries
  BY DEF Fail, TypeOK
<1>2. ASSUME NEW t \in Tags
      PROVE  counts'[t] >= Count(stored', t)
  <2>1. /\ counts[t] \in Nat /\ owed[p][t] \in Nat /\ Count(stored, t) \in Nat
        /\ counts[t] >= Count(stored, t) + owed[p][t]
    BY <1>1, CountIsNat DEF TypeOK, Book
  <2>2. CASE stored' = stored /\ counts' = counts
    BY <2>1, <2>2
  <2>3. CASE stage[p] = "remove" /\ stored' = stored \ Doomed(p) /\ counts' = counts
    <3>1. Doomed(p) \subseteq stored /\ Doomed(p) \in SUBSET Entries
      BY <1>1, <2>3, DoomedOfPage DEF Paged
    <3>2. Count(stored', t) = Count(stored, t) - Count(Doomed(p), t)
      BY <1>1, <2>3, <3>1, CountWithout
    <3>3. Count(Doomed(p), t) \in Nat
      BY <3>1, CountIsNat
    <3> QED
      BY <2>1, <2>3, <3>2, <3>3
  <2>4. CASE stage[p] = "count" /\ stored' = stored /\ counts' = Decremented(p)
    BY <2>4, DecrementsCover
  <2> QED
    BY <2>2, <2>3, <2>4 DEF Fail
<1>3. Book(p)'
  <2>1. \A t \in Tags : counts'[t] \in Nat /\ owed'[p][t] = 0 /\ Count(stored', t) \in Nat
    <3>1. IInv'
      BY FailTyped
    <3>2. stored' \in SUBSET Entries /\ counts' \in [Tags -> Nat]
      BY <3>1 DEF TypeOK
    <3> QED
      BY <1>1, <3>2, CountIsNat DEF NoTags
  <2> QED
    BY <1>1, <1>2, <2>1 DEF Book
<1>4. Paged(p)' /\ Ahead(p)'
  BY <1>1 DEF Paged, Ahead
<1>5. DueInScope(p)'
  BY <1>1 DEF DueInScope, InScope, Spared
<1> QED
  BY <1>3, <1>4, <1>5

LEMMA OneStep ==
  ASSUME NEW p, Pods = {p}
  PROVE  IInv /\ OneInv(p) /\ [Next]_vars => OneInv(p)'
<1> SUFFICES ASSUME IInv, OneInv(p), [Next]_vars PROVE OneInv(p)'
  OBVIOUS
<1>1. p \in Pods /\ \A q \in Pods : q = p
  OBVIOUS
<1> QED
  BY <1>1, AgeKeeps, StoreKeeps, BeginKeeps, ReadPageKeeps, ReadEntriesKeeps, RemoveKeeps,
     CountTagsKeeps, ReturnKeeps, FailKeeps DEF Next, CallStep

LEMMA OneInvariant ==
  ASSUME NEW p, Pods = {p}
  PROVE  Spec => [](IInv /\ OneInv(p))
<1>1. Init => IInv /\ OneInv(p)
  BY InitTyped, OneInit
<1>2. IInv /\ OneInv(p) /\ [Next]_vars => (IInv /\ OneInv(p))'
  BY TypeStep, OneStep
<1> QED
  BY <1>1, <1>2, PTL DEF Spec

(* If one pod prunes at a time, no stored entry is missing from the counts *)
(* of its tags, whatever fails half-way or is sent twice, and without a    *)
(* failure they are right (removeMembers() then DECREMENT_TAGS_LUA).       *)
THEOREM CountsAreKept ==
  ASSUME OnePod PROVE Spec => []CountsCover
<1> PICK p : Pods = {p}
  BY DEF OnePod
<1>1. IInv /\ OneInv(p) => CountsCover
  <2> SUFFICES ASSUME IInv, OneInv(p), NEW t \in Tags
               PROVE  /\ counts[t] >= Count(stored, t)
                      /\ failures = 0 => counts[t] = Count(stored, t) +
                            SumFunction([q \in Pods |-> owed[q][t]])
    BY DEF CountsCover
  <2>1. /\ owed[p][t] \in Nat /\ counts[t] \in Nat /\ Count(stored, t) \in Nat
        /\ counts[t] >= Count(stored, t) + owed[p][t]
        /\ failures = 0 => counts[t] = Count(stored, t) + owed[p][t]
    BY CountIsNat DEF IInv, TypeOK, OneInv, Book
  <2> DEFINE g == [q \in Pods |-> owed[q][t]]
  <2>2. DOMAIN g = {p} /\ g[p] = owed[p][t]
    OBVIOUS
  <2> HIDE DEF g
  <2>3. SumFunction(g) = owed[p][t]
    BY <2>1, <2>2, SumOfOne
  <2> QED
    BY <2>1, <2>3 DEF g
<1> QED
  BY <1>1, OneInvariant, PTL

(* If one pod prunes at a time, a call that reports its scope drained has  *)
(* left nothing of what was in it when it began: its offset, which counts  *)
(* what it spared, never passes over an entry that is due.                 *)
THEOREM DrainedMeansDrained ==
  ASSUME OnePod PROVE Spec => []DrainedIsDrained
<1> PICK p : Pods = {p}
  BY DEF OnePod
<1>1. IInv /\ OneInv(p) => DrainedIsDrained
  BY DEF IInv, OneInv, Ahead, Left, DrainedIsDrained
<1> QED
  BY <1>1, OneInvariant, PTL

=============================================================================
