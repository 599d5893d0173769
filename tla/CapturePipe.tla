----------------------------- MODULE CapturePipe -----------------------------
(***************************************************************************)
(* What a telescope recorder promises its host, without rings, chunks,     *)
(* retries or phases.  Entries are named by the order of their admission.  *)
(* Each one waits in a bounded buffer, is taken from it together with all  *)
(* that wait there, and is then either kept by the storage or dropped; and *)
(* what is dropped is counted.  Recorder.tla is shown to implement this.   *)
(***************************************************************************)
EXTENDS Integers, FiniteSets

CONSTANT Capacity   \* how many entries may wait, a positive number

VARIABLES
  admitted,   \* number of entries admitted so far: entry e is the e-th one
  buffered,   \* entries that wait for a flush
  taken,      \* entries a flush has taken and not settled
  kept,       \* entries the storage has and the observers have seen
  dropped     \* how many records were lost, for whatever reason

vars == <<admitted, buffered, taken, kept, dropped>>

Older(S, T) == \A e \in S, f \in T : e < f

Init ==
  /\ admitted = 0
  /\ buffered = {}
  /\ taken = {}
  /\ kept = {}
  /\ dropped = 0

-----------------------------------------------------------------------------

(* An entry is admitted; a full buffer makes room by losing its oldest.    *)
Admit ==
  /\ admitted' = admitted + 1
  /\ \/ /\ Cardinality(buffered) < Capacity
        /\ buffered' = buffered \cup {admitted + 1}
        /\ dropped' = dropped
     \/ \E oldest \in buffered :
          /\ Cardinality(buffered) = Capacity
          /\ Older({oldest}, buffered \ {oldest})
          /\ buffered' = (buffered \ {oldest}) \cup {admitted + 1}
          /\ dropped' = dropped + 1
  /\ UNCHANGED <<taken, kept>>

(* A record that is never admitted is lost and counted.                    *)
Refuse ==
  /\ dropped' = dropped + 1
  /\ UNCHANGED <<admitted, buffered, taken, kept>>

(* A flush takes the whole buffer, and only once the last one has settled. *)
Take ==
  /\ taken = {}
  /\ buffered # {}
  /\ taken' = buffered
  /\ buffered' = {}
  /\ UNCHANGED <<admitted, kept, dropped>>

(* The oldest part S of what was taken is settled: all kept or all lost.   *)
Settle(S) ==
  /\ S # {}
  /\ Older(S, taken \ S)
  /\ taken' = taken \ S
  /\ \/ kept' = kept \cup S /\ dropped' = dropped
     \/ kept' = kept /\ dropped' = dropped + Cardinality(S)
  /\ UNCHANGED <<admitted, buffered>>

Next ==
  \/ Admit
  \/ Refuse
  \/ Take
  \/ \E S \in SUBSET taken : Settle(S)

Fairness ==
  /\ WF_vars(Take)
  /\ WF_vars(\E S \in SUBSET taken : Settle(S))

Spec == Init /\ [][Next]_vars
FairSpec == Spec /\ Fairness
=============================================================================
