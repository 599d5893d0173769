---------------------------- MODULE AlerterProofs ----------------------------
(***************************************************************************)
(* The exception alerts, for any number of pods, flushes and families,     *)
(* however late each evaluation runs and whatever fails.                   *)
(*                                                                         *)
(* A family pages once per window over the whole deployment, as long as    *)
(* the store never lets a last-seen time fall back: that time is at least  *)
(* the time of every page granted for the family (Remembered), so that the *)
(* next one is a window later.                                             *)
(*                                                                         *)
(* A pod keeps its cooldowns: a bounded map remembers the last stamp of    *)
(* every key that fewer than its cap others followed (Remembers), which    *)
(* Put maintains (PutRemembers).                                           *)
(*                                                                         *)
(* No sighting is silenced: whatever keeps one from paging, in the store   *)
(* or on the pod, is the time of another sighting (Sighted).               *)
(*                                                                         *)
(* The diagnosis cache is the same bounded map, and drops what has expired *)
(* when it is read.  It remembers the runs that succeeded, but for those a *)
(* TTL old (CacheInv); a family the coordinator was shown is in flight or  *)
(* has an outcome, and the backlog holds no other (RunInv).  So a run that *)
(* starts finds no answer because none is known, and a page that waits for *)
(* none carries the answer or says why it has none.                        *)
(***************************************************************************)
EXTENDS Alerter, FiniteSetTheorems, SequenceTheorems, TLAPS

Items == [at : Nat, size : Nat, fams : Seq(Families) \ {<<>>}]

Notes == {"pending", "lost", "attached", "late", "off", "none", "ok", "failed"}

Pages == [rule : {"new", "every"}, fam : Families, at : Nat,
          via : {"store", "tracker", "rule"}, note : Notes]

Typed ==
  /\ now \in Nat
  /\ outcome \in [Pods -> [Families -> {"none", "ok", "failed"}]]
  /\ queue \in [Pods -> Seq(Items)]
  /\ stage \in [Pods -> Stages]
  /\ \A p \in Pods : queue[p] = <<>> <=> stage[p] = "idle"
  /\ seen \in [Families -> Nat \cup {Never}]
  /\ fires \in [Pods -> Seq(Pages)]

(* What the store granted, it remembers.                                   *)
Remembered ==
  \A p \in Pods : \A i \in DOMAIN fires[p] :
    Granted(p, i) => /\ seen[fires[p][i].fam] # Never
                     /\ seen[fires[p][i].fam] >= fires[p][i].at

(* No page is granted twice, if last-seen times never fall.                *)
Granting == LastSeenMayFall \/ (Remembered /\ OncePerWindow)

IInv == Typed /\ Granting

LEMMA InitInv == Init => IInv
  BY DEF Init, DiagnosisInit, IInv, Typed, Granting, Remembered, OncePerWindow, Stages

(* The entry in evaluation.                                                *)
LEMMA HeadTyped ==
  ASSUME Typed, NEW p \in Pods, stage[p] # "idle"
  PROVE  /\ Head(queue[p]) \in Items
         /\ Tail(queue[p]) \in Seq(Items)
         /\ Family(p) \in Families
         /\ Stamp(p) \in Nat
<1>1. queue[p] \in Seq(Items) /\ queue[p] # <<>>
  BY DEF Typed
<1>2. Head(queue[p]) \in Items /\ Tail(queue[p]) \in Seq(Items)
  BY <1>1
<1>3. Head(queue[p]).fams \in Seq(Families) /\ Head(queue[p]).fams # <<>>
      /\ Stamp(p) \in Nat
  BY <1>2 DEF Items, Stamp
<1> QED
  BY <1>2, <1>3 DEF Family

LEMMA TakeUpTyped ==
  ASSUME Typed, NEW p \in Pods, NEW q \in Seq(Items), NEW already, TakeUp(p, q, already)
  PROVE  /\ queue' \in [Pods -> Seq(Items)]
         /\ stage' \in [Pods -> Stages]
         /\ \A d \in Pods : queue'[d] = <<>> <=> stage'[d] = "idle"
  BY DEF TakeUp, Typed, Stages

LEMMA AdvanceTyped ==
  ASSUME Typed, NEW p \in Pods, stage[p] # "idle", Advance(p)
  PROVE  /\ queue' \in [Pods -> Seq(Items)]
         /\ stage' \in [Pods -> Stages]
         /\ \A d \in Pods : queue'[d] = <<>> <=> stage'[d] = "idle"
<1> DEFINE head == Head(queue[p])
           rest == Tail(head.fams)
           shorter == [head EXCEPT !.fams = rest]
<1>1. head \in Items /\ Tail(queue[p]) \in Seq(Items)
  BY HeadTyped
<1>2. CASE rest = <<>>
  BY <1>1, <1>2, TakeUpTyped DEF Advance, LeaveQueue
<1>3. CASE rest # <<>>
  <2>1. rest \in Seq(Families)
    <3>1. head.fams \in Seq(Families) /\ head.fams # <<>>
      BY <1>1 DEF Items
    <3> QED
      BY <3>1
  <2>2. shorter \in Items
    BY <1>1, <1>3, <2>1 DEF Items
  <2>3. <<shorter>> \o Tail(queue[p]) \in Seq(Items)
    BY <1>1, <2>2
  <2>4. TakeUp(p, <<shorter>> \o Tail(queue[p]), observed[p])
    BY <1>3 DEF Advance
  <2> QED
    BY <2>3, <2>4, TakeUpTyped
<1> QED
  BY <1>2, <1>3

(* Steps that page nothing and leave the store's memory keep the rest.     *)
LEMMA SamePages ==
  ASSUME IInv, fires' = fires, seen' = seen
  PROVE  Granting'
  BY DEF IInv, Granting, Remembered, OncePerWindow, Granted

(* Writing down what came of the last page changes no other field.         *)
SameButNotes ==
  \A d \in Pods : DOMAIN fires'[d] = DOMAIN fires[d]
    /\ \A i \in DOMAIN fires[d] :
         /\ fires'[d][i].rule = fires[d][i].rule /\ fires'[d][i].fam = fires[d][i].fam
         /\ fires'[d][i].at = fires[d][i].at /\ fires'[d][i].via = fires[d][i].via

LEMMA NotedSame ==
  ASSUME IInv, NEW p \in Pods, NEW note \in Notes, Noted(p, note)
  PROVE  fires' \in [Pods -> Seq(Pages)] /\ SameButNotes
<1> DEFINE n == Len(fires[p])
           last == fires[p][n]
           s == fires'[p]
<1>1. fires[p] \in Seq(Pages) /\ n \in Nat
  BY DEF IInv, Typed
<1>2. /\ s = [fires[p] EXCEPT ![n] = [last EXCEPT !.note = note]]
      /\ fires' \in [Pods -> {fires'[d] : d \in Pods}]
      /\ \A d \in Pods \ {p} : fires'[d] = fires[d]
  BY DEF Noted, IInv, Typed
<1>3. DOMAIN s = 1 .. n
  BY <1>1, <1>2
<1>4. ASSUME NEW i \in 1 .. n
      PROVE  /\ s[i] \in Pages
             /\ s[i].rule = fires[p][i].rule /\ s[i].fam = fires[p][i].fam
             /\ s[i].at = fires[p][i].at /\ s[i].via = fires[p][i].via
  <2>1. fires[p][i] \in Pages
    BY <1>1
  <2>2. CASE i = n
    <3>1. s[i] = [last EXCEPT !.note = note] /\ last \in Pages
      BY <1>1, <1>2, <2>1, <2>2
    <3> HIDE DEF last, s
    <3>2. [last EXCEPT !.note = note] \in Pages
          /\ [last EXCEPT !.note = note].rule = last.rule
          /\ [last EXCEPT !.note = note].fam = last.fam
          /\ [last EXCEPT !.note = note].at = last.at
          /\ [last EXCEPT !.note = note].via = last.via
      BY <3>1 DEF Pages
    <3> QED
      BY <2>2, <3>1, <3>2 DEF last
  <2>3. CASE i # n
    BY <1>1, <1>2, <2>1, <2>3
  <2> QED
    BY <2>2, <2>3
<1>5. s \in Seq(Pages)
  <2>1. s = [i \in 1 .. n |-> s[i]]
    BY <1>1, <1>2
  <2> HIDE DEF s, n
  <2> QED
    BY <1>1, <1>4, <2>1
<1>6. fires' \in [Pods -> Seq(Pages)]
  BY <1>2, <1>5 DEF IInv, Typed
<1>7. SameButNotes
  BY <1>1, <1>2, <1>3, <1>4 DEF SameButNotes
<1> QED
  BY <1>6, <1>7

LEMMA NotedPages ==
  ASSUME IInv, NEW p \in Pods, NEW note \in Notes, Noted(p, note), seen' = seen
  PROVE  fires' \in [Pods -> Seq(Pages)] /\ Granting'
<1>1. fires' \in [Pods -> Seq(Pages)] /\ SameButNotes
  BY NotedSame
<1>2. Remembered => Remembered'
  BY <1>1 DEF Remembered, Granted, SameButNotes
<1>3. ASSUME OncePerWindow PROVE OncePerWindow'
  <2> SUFFICES ASSUME NEW c \in Pods, NEW d \in Pods,
                      NEW i \in DOMAIN fires[c], NEW j \in DOMAIN fires[d],
                      <<c, i>> # <<d, j>>, Granted(c, i)', Granted(d, j)',
                      fires'[c][i].fam = fires'[d][j].fam
               PROVE  \/ fires'[c][i].at - fires'[d][j].at >= Window
                      \/ fires'[d][j].at - fires'[c][i].at >= Window
    BY <1>1 DEF OncePerWindow, SameButNotes
  <2>1. /\ Granted(c, i) /\ Granted(d, j) /\ fires[c][i].fam = fires[d][j].fam
        /\ fires'[c][i].at = fires[c][i].at /\ fires'[d][j].at = fires[d][j].at
    BY <1>1 DEF SameButNotes, Granted
  <2> QED
    BY <1>3, <2>1 DEF OncePerWindow
<1> QED
  BY <1>1, <1>2, <1>3 DEF IInv, Granting

SeenRises ==
  \A f \in Families : seen[f] # Never => seen'[f] # Never /\ seen'[f] >= seen[f]

(* markFamilySeen moves the last-seen time up to the evaluation's, at least*)
(* where it keeps the later of the two.                                    *)
LEMMA MoveSeenRises ==
  ASSUME Typed, NEW p \in Pods, stage[p] # "idle", MoveSeen(p)
  PROVE  /\ seen' \in [Families -> Nat \cup {Never}]
         /\ ~LastSeenMayFall =>
              SeenRises /\ seen'[Family(p)] # Never /\ seen'[Family(p)] >= Stamp(p)
<1>1. Family(p) \in Families /\ Stamp(p) \in Nat /\ Never \notin Int
  BY HeadTyped, DiagnosisAssumption
<1> QED
  BY <1>1 DEF MoveSeen, Typed, SeenRises

(* A page more.                                                            *)
LEMMA FiredTyped ==
  ASSUME IInv, NEW p \in Pods, NEW r \in {"new", "every"},
         NEW via \in {"store", "tracker", "rule"}, stage[p] # "idle", Fire(p, r, via)
  PROVE  /\ fires' \in [Pods -> Seq(Pages)]
         /\ stage' = [stage EXCEPT ![p] = "building"]
<1>1. [rule |-> r, fam |-> Family(p), at |-> Stamp(p), via |-> via, note |-> "pending"]
        \in Pages
  BY HeadTyped DEF IInv, Pages, Notes
<1> QED
  BY <1>1 DEF Fire, IInv, Typed

(* One that the store granted is a window after those before it.           *)
LEMMA FiredPages ==
  ASSUME IInv, ~LastSeenMayFall, NEW p \in Pods, NEW r \in {"new", "every"},
         NEW via \in {"store", "tracker", "rule"}, stage[p] # "idle",
         Fire(p, r, via), SeenRises, seen' \in [Families -> Nat \cup {Never}],
         r = "new" /\ via = "store" =>
           /\ NewToStore(p)
           /\ seen'[Family(p)] # Never /\ seen'[Family(p)] >= Stamp(p)
  PROVE  Remembered' /\ OncePerWindow'
<1> DEFINE page == [rule |-> r, fam |-> Family(p), at |-> Stamp(p), via |-> via,
                    note |-> "pending"]
           n == Len(fires[p])
<1>1. Family(p) \in Families /\ Stamp(p) \in Nat /\ Never \notin Int /\ Window \in Nat
  BY HeadTyped, DiagnosisAssumption, AlerterAssumption DEF IInv
<1>2. fires' = [fires EXCEPT ![p] = Append(fires[p], page)]
  BY DEF Fire
<1>3. page \in Pages /\ page.rule = r /\ page.via = via
      /\ page.fam = Family(p) /\ page.at = Stamp(p)
  BY <1>1 DEF Pages, Notes
<1> HIDE DEF page
<1>4. Remembered /\ OncePerWindow
  BY DEF IInv, Granting
<1>5. /\ n \in Nat
      /\ \A d \in Pods : \A i \in DOMAIN fires[d] :
           i \in DOMAIN fires'[d] /\ fires'[d][i] = fires[d][i]
      /\ \A d \in Pods : \A i \in DOMAIN fires'[d] :
           i \in DOMAIN fires[d] \/ (d = p /\ i = n + 1)
      /\ fires'[p][n + 1] = page
  BY <1>2 DEF IInv, Typed
<1>6. \A d \in Pods : \A i \in DOMAIN fires[d] :
        /\ fires[d][i].fam \in Families /\ fires[d][i].at \in Nat
        /\ Granted(d, i)' = Granted(d, i)
  <2> SUFFICES ASSUME NEW d \in Pods, NEW i \in DOMAIN fires[d]
               PROVE  /\ fires[d][i].fam \in Families /\ fires[d][i].at \in Nat
                      /\ Granted(d, i)' = Granted(d, i)
    OBVIOUS
  <2>1. fires[d][i] \in Pages
    BY DEF IInv, Typed
  <2> QED
    BY <1>5, <2>1 DEF Pages, Granted
<1>7. \A i : i = n + 1 /\ fires'[p][i].rule = "new" /\ fires'[p][i].via = "store" =>
        NewToStore(p) /\ seen'[Family(p)] # Never /\ seen'[Family(p)] >= Stamp(p)
  BY <1>3, <1>5
<1>8. Remembered'
  <2> SUFFICES ASSUME NEW d \in Pods, NEW i \in DOMAIN fires'[d], Granted(d, i)'
               PROVE  /\ seen'[fires'[d][i].fam] # Never
                      /\ seen'[fires'[d][i].fam] >= fires'[d][i].at
    BY DEF Remembered
  <2>1. CASE i \in DOMAIN fires[d]
    <3>1. /\ fires'[d][i] = fires[d][i] /\ Granted(d, i)
          /\ fires[d][i].fam \in Families /\ fires[d][i].at \in Nat
      BY <1>5, <1>6, <2>1
    <3>2. seen[fires[d][i].fam] # Never /\ seen[fires[d][i].fam] >= fires[d][i].at
      BY <1>4, <2>1, <3>1 DEF Remembered
    <3>3. seen[fires[d][i].fam] \in Nat /\ seen'[fires[d][i].fam] \in Nat \cup {Never}
      BY <3>1, <3>2 DEF IInv, Typed
    <3> QED
      BY <3>1, <3>2, <3>3 DEF SeenRises
  <2>2. CASE d = p /\ i = n + 1
    BY <1>1, <1>3, <1>5, <1>7, <2>2 DEF Granted
  <2> QED
    BY <1>5, <2>1, <2>2
<1>9. ASSUME NEW d \in Pods, NEW i \in DOMAIN fires[d], Granted(d, i), NewToStore(p),
             fires[d][i].fam = Family(p)
      PROVE  Stamp(p) - fires[d][i].at >= Window
  <2>1. seen[Family(p)] # Never /\ seen[Family(p)] >= fires[d][i].at
    BY <1>4, <1>9 DEF Remembered
  <2>2. Stamp(p) - seen[Family(p)] >= Window /\ seen[Family(p)] \in Nat
    BY <1>1, <1>9, <2>1 DEF NewToStore, IInv, Typed
  <2> QED
    BY <1>1, <1>6, <1>9, <2>1, <2>2
<1>10. OncePerWindow'
  <2> SUFFICES ASSUME NEW d \in Pods, NEW e \in Pods,
                      NEW i \in DOMAIN fires'[d], NEW j \in DOMAIN fires'[e],
                      <<d, i>> # <<e, j>>, Granted(d, i)', Granted(e, j)',
                      fires'[d][i].fam = fires'[e][j].fam
               PROVE  \/ fires'[d][i].at - fires'[e][j].at >= Window
                      \/ fires'[e][j].at - fires'[d][i].at >= Window
    BY DEF OncePerWindow
  <2>1. CASE i \in DOMAIN fires[d] /\ j \in DOMAIN fires[e]
    BY <1>4, <1>5, <1>6, <2>1 DEF OncePerWindow
  <2>2. CASE i \in DOMAIN fires[d] /\ e = p /\ j = n + 1
    BY <1>1, <1>3, <1>5, <1>6, <1>7, <1>9, <2>2 DEF Granted
  <2>3. CASE d = p /\ i = n + 1 /\ j \in DOMAIN fires[e]
    BY <1>1, <1>3, <1>5, <1>6, <1>7, <1>9, <2>3 DEF Granted
  <2> QED
    BY <1>5, <2>1, <2>2, <2>3
<1> QED
  BY <1>8, <1>10

-----------------------------------------------------------------------------
(* The steps.                                                              *)

(* The new-exception rule has its answer for the entry.                    *)
LEMMA NewRuleStep ==
  ASSUME IInv, NEW p \in Pods, Marked(p) \/ MarkFails(p)
  PROVE  IInv'
<1>1. /\ stage[p] = "asking" /\ now' = now /\ queue' = queue /\ outcome' = outcome
      /\ MoveSeen(p) \/ UNCHANGED seen
  BY DEF Marked, MarkFails, FireIfNew, coordinatorVars
<1>2. /\ seen' \in [Families -> Nat \cup {Never}]
      /\ ~LastSeenMayFall =>
           /\ SeenRises
           /\ MoveSeen(p) => seen'[Family(p)] # Never /\ seen'[Family(p)] >= Stamp(p)
  <2>1. CASE MoveSeen(p)
    BY <1>1, <2>1, MoveSeenRises DEF IInv
  <2>2. CASE UNCHANGED seen /\ ~MoveSeen(p)
    BY <2>2 DEF IInv, Typed, SeenRises
  <2> QED
    BY <1>1, <2>1, <2>2
<1>3. PICK via \in {"store", "tracker"} :
        /\ \/ Fire(p, "new", via)
           \/ stage' = [stage EXCEPT ![p] = "every"] /\ UNCHANGED fires
        /\ via = "store" /\ Fire(p, "new", via) => NewToStore(p) /\ MoveSeen(p)
        /\ stage'[p] # "every" => Fire(p, "new", via)
  <2>1. CASE Marked(p)
    BY <1>1, <2>1 DEF Marked, FireIfNew, IInv, Typed, Fire
  <2>2. CASE MarkFails(p)
    BY <1>1, <2>2 DEF MarkFails, FireIfNew, IInv, Typed
  <2> QED
    BY <2>1, <2>2
<1>4. CASE Fire(p, "new", via)
  <2>1. /\ fires' \in [Pods -> Seq(Pages)]
        /\ stage' = [stage EXCEPT ![p] = "building"]
    BY <1>1, <1>4, FiredTyped
  <2>2. Typed'
    BY <1>1, <1>2, <2>1 DEF IInv, Typed, Stages
  <2>3. ~LastSeenMayFall => Remembered' /\ OncePerWindow'
    BY <1>1, <1>2, <1>3, <1>4, FiredPages
  <2> QED
    BY <2>2, <2>3 DEF IInv, Granting
<1>5. CASE stage' = [stage EXCEPT ![p] = "every"] /\ UNCHANGED fires
  <2>1. Typed'
    BY <1>1, <1>2, <1>5 DEF IInv, Typed, Stages
  <2>2. ASSUME ~LastSeenMayFall PROVE Remembered'
    <3> SUFFICES ASSUME NEW d \in Pods, NEW i \in DOMAIN fires[d], Granted(d, i)
                 PROVE  /\ seen'[fires[d][i].fam] # Never
                        /\ seen'[fires[d][i].fam] >= fires[d][i].at
      BY <1>5 DEF Remembered, Granted
    <3>1. /\ seen[fires[d][i].fam] # Never /\ seen[fires[d][i].fam] >= fires[d][i].at
          /\ fires[d][i] \in Pages
      BY <2>2 DEF IInv, Typed, Granting, Remembered
    <3>2. seen[fires[d][i].fam] \in Nat /\ seen'[fires[d][i].fam] \in Nat \cup {Never}
      BY <1>2, <3>1 DEF IInv, Typed, Pages
    <3> QED
      BY <1>2, <2>2, <3>1, <3>2 DEF SeenRises, Pages
  <2>3. OncePerWindow => OncePerWindow'
    BY <1>5 DEF OncePerWindow, Granted
  <2> QED
    BY <2>1, <2>2, <2>3 DEF IInv, Granting
<1> QED
  BY <1>3, <1>4, <1>5

(* The steps of an evaluation that page nothing.                           *)
LEMMA QuietEvaluation ==
  ASSUME IInv, NEW p \in Pods, fires' = fires, seen' = seen, now' = now, outcome' = outcome,
         \/ queue' = queue /\ \E s \in Stages \ {"idle"} :
              stage[p] # "idle" /\ stage' = [stage EXCEPT ![p] = s]
         \/ stage[p] # "idle" /\ Advance(p)
         \/ stage[p] # "idle" /\ GiveUp(p)
         \/ queue' = queue /\ stage' = stage
  PROVE  IInv'
<1>1. Granting'
  BY SamePages
<1>2. /\ queue' \in [Pods -> Seq(Items)] /\ stage' \in [Pods -> Stages]
      /\ \A d \in Pods : queue'[d] = <<>> <=> stage'[d] = "idle"
  <2>1. CASE queue' = queue /\ \E s \in Stages \ {"idle"} :
               stage[p] # "idle" /\ stage' = [stage EXCEPT ![p] = s]
    BY <2>1 DEF IInv, Typed
  <2>2. CASE stage[p] # "idle" /\ Advance(p)
    BY <2>2, AdvanceTyped DEF IInv
  <2>3. CASE stage[p] # "idle" /\ GiveUp(p)
    BY <2>3, HeadTyped, TakeUpTyped DEF IInv, GiveUp, LeaveQueue
  <2>4. CASE queue' = queue /\ stage' = stage
    BY <2>4 DEF IInv, Typed
  <2> QED
    BY <2>1, <2>2, <2>3, <2>4
<1> QED
  BY <1>1, <1>2 DEF IInv, Typed

(* The steps that write down what came of a page.                          *)
LEMMA NotedStep ==
  ASSUME IInv, NEW p \in Pods, NEW note \in Notes, Noted(p, note), seen' = seen,
         now' \in Nat, outcome' \in [Pods -> [Families -> {"none", "ok", "failed"}]],
         stage[p] # "idle",
         \/ queue' = queue /\ stage' = [stage EXCEPT ![p] = "sending"]
         \/ GiveUp(p)
  PROVE  IInv'
<1>1. /\ fires' \in [Pods -> Seq(Pages)] /\ Granting'
  BY NotedPages
<1>2. /\ queue' \in [Pods -> Seq(Items)] /\ stage' \in [Pods -> Stages]
      /\ \A d \in Pods : queue'[d] = <<>> <=> stage'[d] = "idle"
  <2>1. CASE queue' = queue /\ stage' = [stage EXCEPT ![p] = "sending"]
    BY <2>1 DEF IInv, Typed, Stages
  <2>2. CASE GiveUp(p)
    BY <2>2, HeadTyped, TakeUpTyped DEF IInv, GiveUp, LeaveQueue
  <2> QED
    BY <2>1, <2>2
<1> QED
  BY <1>1, <1>2 DEF IInv, Typed

LEMMA EveryStep ==
  ASSUME IInv, NEW p \in Pods, Every(p) PROVE IInv'
<1>1. stage[p] = "every" /\ seen' = seen /\ now' = now /\ outcome' = outcome
  BY DEF Every, diagnosisVars, coordinatorVars
<1>2. CASE Fire(p, "every", "rule") /\ queue' = queue
  <2>1. /\ SeenRises /\ seen' \in [Families -> Nat \cup {Never}]
    BY <1>1 DEF IInv, Typed, SeenRises
  <2>2. ~LastSeenMayFall => Remembered' /\ OncePerWindow'
    BY <1>1, <1>2, <2>1, FiredPages
  <2>3. /\ fires' \in [Pods -> Seq(Pages)]
        /\ stage' = [stage EXCEPT ![p] = "building"]
    BY <1>1, <1>2, FiredTyped
  <2>4. Typed'
    BY <1>1, <1>2, <2>1, <2>3 DEF IInv, Typed, Stages
  <2> QED
    BY <2>2, <2>4 DEF IInv, Granting
<1>3. CASE Advance(p) /\ fires' = fires
  BY <1>1, <1>3, QuietEvaluation
<1> QED
  BY <1>2, <1>3 DEF Every

LEMMA BuiltStep ==
  ASSUME IInv, NEW p \in Pods, Built(p) PROVE IInv'
<1>1. /\ stage[p] = "building" /\ seen' = seen /\ now' = now /\ outcome' = outcome
      /\ queue' = queue /\ AskForNote(p, Family(p))
  BY DEF Built, memoryVars
<1>2. Family(p) \in Families
  BY <1>1, HeadTyped DEF IInv
<1>3. \/ stage' = [stage EXCEPT ![p] = "diagnosing"] /\ UNCHANGED fires
      \/ /\ stage' = [stage EXCEPT ![p] = "sending"]
         /\ \E note \in Notes : Noted(p, note)
  <2>1. outcome[p][Family(p)] \in Notes
    BY <1>2 DEF IInv, Typed, Notes
  <2> QED
    BY <1>1, <2>1 DEF AskForNote, Notes
<1>4. CASE stage' = [stage EXCEPT ![p] = "diagnosing"] /\ UNCHANGED fires
  BY <1>1, <1>4, QuietEvaluation DEF Stages
<1>5. CASE /\ stage' = [stage EXCEPT ![p] = "sending"]
           /\ \E note \in Notes : Noted(p, note)
  BY <1>1, <1>5, NotedStep DEF IInv, Typed
<1> QED
  BY <1>3, <1>4, <1>5

LEMMA OutcomeTyped ==
  ASSUME IInv, NEW p \in Pods, NEW f \in Families, Keep(p, f) \/ Fail(p, f)
  PROVE  outcome' \in [Pods -> [Families -> {"none", "ok", "failed"}]]
<1>1. \E how \in {"ok", "failed"} : outcome' = [outcome EXCEPT ![p][f] = how]
  BY DEF Keep, Fail
<1> QED
  BY <1>1 DEF IInv, Typed

LEMMA DiagnosedStep ==
  ASSUME IInv, NEW p \in Pods, NEW f \in Families, Diagnosed(p, f) PROVE IInv'
<1>1. /\ AutoSettles(p, f) /\ seen' = seen /\ now' = now /\ queue' = queue
  BY DEF Diagnosed, memoryVars
<1>2. outcome' \in [Pods -> [Families -> {"none", "ok", "failed"}]]
  BY <1>1, OutcomeTyped DEF AutoSettles
<1>3. CASE stage[p] = "diagnosing" /\ Family(p) = f
  <2>1. PICK note \in {"attached", "failed"} :
          stage' = [stage EXCEPT ![p] = "sending"] /\ Noted(p, note)
    BY <1>3 DEF Diagnosed
  <2> QED
    BY <1>1, <1>2, <1>3, <2>1, NotedStep DEF IInv, Typed, Notes
<1>4. CASE ~(stage[p] = "diagnosing" /\ Family(p) = f)
  <2>1. UNCHANGED <<stage, fires>>
    BY <1>4 DEF Diagnosed
  <2>2. Granting'
    BY <1>1, <2>1, SamePages
  <2> QED
    BY <1>1, <1>2, <2>1, <2>2 DEF IInv, Typed
<1> QED
  BY <1>3, <1>4

LEMMA FlushStep ==
  ASSUME IInv, NEW p \in Pods, Flush(p) PROVE IInv'
<1>1. PICK fams \in Flushes :
        ObserveFlush(p, {fams[i] : i \in DOMAIN fams}) /\ Enqueue(p, fams)
  BY DEF Flush
<1>2. /\ seen' = seen /\ now' = now /\ fires' = fires /\ outcome' = outcome
  BY <1>1 DEF Flush, memoryVars, historyVars, ObserveFlush
<1> DEFINE item == [at |-> now, size |-> Len(fams), fams |-> fams]
           q == Append(queue[p], item)
<1>3. item \in Items
  <2>1. fams \in Seq(Families) /\ fams # <<>>
    BY AlerterAssumption
  <2> QED
    BY <2>1 DEF Items, IInv, Typed
<1> HIDE DEF item
<1>4. q \in Seq(Items) /\ q # <<>>
  <2>1. queue[p] \in Seq(Items)
    BY DEF IInv, Typed
  <2>2. q \in Seq(Items) /\ Len(q) = Len(queue[p]) + 1
    BY <1>3, <2>1
  <2>3. Len(queue[p]) \in Nat
    BY <2>1
  <2> QED
    BY <2>2, <2>3
<1>5. /\ queue' \in [Pods -> Seq(Items)] /\ stage' \in [Pods -> Stages]
      /\ \A d \in Pods : queue'[d] = <<>> <=> stage'[d] = "idle"
  <2>1. CASE UNCHANGED <<queue, stage>>
    BY <2>1 DEF IInv, Typed
  <2>2. CASE queue[p] = <<>> /\ TakeUp(p, q, {})
    BY <1>4, <2>2, TakeUpTyped DEF IInv
  <2>3. CASE queue[p] # <<>> /\ queue' = [queue EXCEPT ![p] = q] /\ UNCHANGED stage
    BY <1>4, <2>3 DEF IInv, Typed
  <2> QED
    BY <1>1, <2>1, <2>2, <2>3 DEF Enqueue, item
<1>6. Granting'
  BY <1>2, SamePages
<1> QED
  BY <1>2, <1>5, <1>6 DEF IInv, Typed

LEMMA OutsideStep ==
  ASSUME IInv, \/ Tick
               \/ \E p \in Pods, f \in Families : OnDemand(p, f)
               \/ UNCHANGED vars
  PROVE  IInv'
<1>1. /\ fires' = fires /\ seen' = seen /\ queue' = queue /\ stage' = stage
      /\ now' \in Nat
  BY DEF Tick, OnDemand, alerterVars, memoryVars, historyVars, evaluationVars, vars, IInv, Typed
<1>2. outcome' \in [Pods -> [Families -> {"none", "ok", "failed"}]]
  <2>1. CASE outcome' = outcome
    BY <2>1 DEF IInv, Typed
  <2>2. CASE \E p \in Pods, f \in Families : Keep(p, f) \/ Fail(p, f)
    BY <2>2, OutcomeTyped
  <2> QED
    BY <2>1, <2>2
    DEF Tick, OnDemand, Ask, AskSettles, vars, diagnosisVars, coordinatorVars
<1>3. Granting'
  BY <1>1, SamePages
<1> QED
  BY <1>1, <1>2, <1>3 DEF IInv, Typed

LEMMA Step == IInv /\ [Next]_vars => IInv'
<1> SUFFICES ASSUME IInv, [Next]_vars PROVE IInv'
  OBVIOUS
<1>1. ASSUME NEW p \in Pods, Evaluate(p) PROVE IInv'
  <2>1. CASE Marked(p) \/ MarkFails(p)
    BY <2>1, NewRuleStep
  <2>2. CASE Every(p)
    BY <2>2, EveryStep
  <2>3. CASE Built(p)
    BY <2>3, BuiltStep
  <2>4. CASE BuildFails(p)
    BY <2>4, NotedStep
    DEF BuildFails, coordinatorVars, memoryVars, Notes, IInv, Typed
  <2>5. CASE Grace(p)
    BY <2>5, NotedStep
    DEF Grace, diagnosisVars, coordinatorVars, memoryVars, Notes, IInv, Typed
  <2>6. CASE Sent(p)
    <3>1. /\ stage[p] = "sending" /\ fires' = fires /\ seen' = seen /\ now' = now
          /\ outcome' = outcome
          /\ \/ queue' = queue /\ stage' = [stage EXCEPT ![p] = "every"]
             \/ Advance(p)
      BY <2>6 DEF Sent, diagnosisVars, coordinatorVars, memoryVars, historyVars
    <3> QED
      BY <3>1, QuietEvaluation DEF Stages
  <2> QED
    BY <1>1, <2>1, <2>2, <2>3, <2>4, <2>5, <2>6 DEF Evaluate
<1>2. ASSUME NEW p \in Pods, Flush(p) PROVE IInv'
  BY <1>2, FlushStep
<1>3. ASSUME NEW p \in Pods, NEW f \in Families, Diagnosed(p, f) PROVE IInv'
  BY <1>3, DiagnosedStep
<1>4. CASE \/ Tick
           \/ \E p \in Pods, f \in Families : OnDemand(p, f)
           \/ UNCHANGED vars
  BY <1>4, OutsideStep
<1> QED
  BY <1>1, <1>2, <1>3, <1>4 DEF Next

(* Two pages the shared store granted for a family are a window apart,     *)
(* whichever pods they are of and however late their evaluations ran, when *)
(* markFamilySeen keeps the later of two last-seen times ("pages once      *)
(* across the whole deployment").                                          *)
THEOREM PagedOncePerWindow ==
  ASSUME ~LastSeenMayFall
  PROVE  Spec => []OncePerWindow
<1>1. IInv => OncePerWindow
  BY DEF IInv, Granting
<1> QED
  BY <1>1, InitInv, Step, PTL DEF Spec
-----------------------------------------------------------------------------
(* The bounded map, as the memory of a history of [key, at] pairs.         *)

KeysDiffer(map) == \A m, l \in DOMAIN map : map[m].key = map[l].key => m = l

(* RemoveAt closes the gap.                                                *)
LEMMA RemoveAtShape ==
  ASSUME NEW E, NEW map \in Seq(E), NEW i \in 1 .. Len(map),
         NEW rest, rest = RemoveAt(map, i)
  PROVE  /\ rest \in Seq(E) /\ Len(rest) = Len(map) - 1
         /\ \A m \in 1 .. Len(map) - 1 : rest[m] = IF m < i THEN map[m] ELSE map[m + 1]
<1> DEFINE n == Len(map)
           a == SubSeq(map, 1, i - 1)
           b == SubSeq(map, i + 1, n)
<1>1. n \in Nat /\ \A m \in 1 .. n : map[m] \in E
  OBVIOUS
<1>2. /\ a \in Seq(E) /\ Len(a) = i - 1
      /\ \A m \in 1 .. i - 1 : a[m] = map[m]
  <2>1. \A m \in 1 .. i - 1 : map[m] \in E
    BY <1>1
  <2> QED
    BY <1>1, <2>1, SubSeqProperties
<1>3. /\ b \in Seq(E) /\ Len(b) = n - i
      /\ \A m \in 1 .. n - i : b[m] = map[i + m]
  <2>1. \A m \in i + 1 .. n : map[m] \in E
    BY <1>1
  <2> QED
    BY <1>1, <2>1, SubSeqProperties
<1>4. rest = a \o b
  BY DEF RemoveAt
<1> HIDE DEF a, b
<1>5. rest \in Seq(E) /\ Len(rest) = n - 1
  BY <1>1, <1>2, <1>3, <1>4
<1>6. ASSUME NEW m \in 1 .. n - 1
      PROVE  rest[m] = IF m < i THEN map[m] ELSE map[m + 1]
  <2>1. rest[m] = IF m <= Len(a) THEN a[m] ELSE b[m - Len(a)]
    BY <1>1, <1>2, <1>3, <1>4, ConcatProperties, SMTT(30)
  <2>2. CASE m < i
    BY <1>1, <1>2, <2>1, <2>2
  <2>3. CASE m >= i
    <3>1. m - Len(a) \in 1 .. n - i /\ i + (m - Len(a)) = m + 1
      BY <1>1, <1>2, <2>3
    <3> QED
      BY <1>1, <1>2, <1>3, <2>1, <2>3, <3>1
  <2> QED
    BY <1>1, <2>2, <2>3
<1> QED
  BY <1>5, <1>6
(* What Put keeps of a map: all of it but the key itself and, when a new   *)
(* key does not fit, the first one; in order, and the new pair after it.   *)
Keeps(map, out, key, cap, from) ==
  /\ from \in [1 .. Len(out) - 1 -> DOMAIN map]
  /\ \A m \in 1 .. Len(out) - 1 : out[m] = map[from[m]] /\ map[from[m]].key # key
  /\ \A m, l \in 1 .. Len(out) - 1 : m < l => from[m] < from[l]
  /\ \A k \in DOMAIN map :
       \/ map[k].key = key
       \/ \E m \in 1 .. Len(out) - 1 : from[m] = k
       \/ k = 1 /\ Len(map) = cap /\ Len(out) = cap

LEMMA PutShape ==
  ASSUME NEW E, NEW map \in Seq(E), KeysDiffer(map),
         NEW cap \in Nat \ {0}, Len(map) <= cap, NEW key, NEW at,
         [key |-> key, at |-> at] \in E,
         NEW out, out = Put(map, key, at, cap)
  PROVE  /\ out \in Seq(E)
         /\ Len(out) \in 1 .. cap
         /\ out[Len(out)] = [key |-> key, at |-> at]
         /\ \E from : Keeps(map, out, key, cap, from)
<1> DEFINE pair == [key |-> key, at |-> at]
           n == Len(map)
           i == Position(map, key)
<1>p. pair \in E
  OBVIOUS
<1>0. n \in Nat /\ DOMAIN map = 1 .. n /\ \A m \in 1 .. n : map[m] \in E
  OBVIOUS
<1>1. CASE Holds(map, key)
  <2>1. i \in 1 .. n /\ map[i].key = key
    BY <1>1 DEF Holds, Position
  <2>2. \A m \in 1 .. n : map[m].key = key => m = i
    BY <2>1 DEF KeysDiffer
  <2> HIDE DEF i
  <2> DEFINE rest == RemoveAt(map, i)
  <2>3. /\ rest \in Seq(E) /\ Len(rest) = n - 1
        /\ \A m \in 1 .. n - 1 : rest[m] = IF m < i THEN map[m] ELSE map[m + 1]
    BY <2>1, RemoveAtShape
  <2>4. out = Append(rest, pair)
    <3> HIDE DEF rest, pair
    <3>1. Append(rest, pair) \in Seq(E) /\ Len(Append(rest, pair)) = n
      <4>1. Len(Append(rest, pair)) = Len(rest) + 1 /\ Append(rest, pair) \in Seq(E)
        BY <1>p, <2>3, AppendProperties
      <4> QED
        BY <1>0, <2>3, <4>1
    <3> QED
      BY <1>0, <1>1, <3>1 DEF Put, Without, rest, i, pair
  <2> HIDE DEF rest, pair
  <2>5. /\ out \in Seq(E) /\ Len(out) = n /\ out[n] = pair
        /\ \A m \in 1 .. n - 1 : out[m] = rest[m]
    <3>1. /\ out \in Seq(E) /\ Len(out) = Len(rest) + 1
          /\ \A m \in 1 .. Len(rest) : out[m] = rest[m]
          /\ out[Len(rest) + 1] = pair
      BY <1>p, <2>3, <2>4, AppendProperties
    <3>2. Len(rest) + 1 = n
      BY <1>0, <2>3
    <3> QED
      BY <2>3, <3>1, <3>2
  <2> DEFINE from == [m \in 1 .. n - 1 |-> IF m < i THEN m ELSE m + 1]
  <2>6. from \in [1 .. n - 1 -> DOMAIN map]
    BY <1>0, <2>1
  <2>7. \A m \in 1 .. n - 1 : out[m] = map[from[m]] /\ map[from[m]].key # key
    BY <1>0, <2>1, <2>2, <2>3, <2>5
  <2>8. \A m, l \in 1 .. n - 1 : m < l => from[m] < from[l]
    BY <2>1
  <2>9. \A k \in DOMAIN map : map[k].key = key \/ \E m \in 1 .. n - 1 : from[m] = k
    <3> SUFFICES ASSUME NEW k \in 1 .. n, k # i
                 PROVE  \E m \in 1 .. n - 1 : from[m] = k
      BY <1>0, <2>1
    <3>1. CASE k < i
      BY <2>1, <3>1
    <3>2. CASE k > i
      <4>1. k - 1 \in 1 .. n - 1 /\ from[k - 1] = k
        BY <2>1, <3>2
      <4> QED
        BY <4>1
    <3> QED
      BY <2>1, <3>1, <3>2
  <2> HIDE DEF from
  <2>10. Keeps(map, out, key, cap, from)
    BY <2>5, <2>6, <2>7, <2>8, <2>9 DEF Keeps
  <2>11. Len(out) \in 1 .. cap
    BY <1>0, <2>1, <2>5
  <2> QED
    BY <2>5, <2>10, <2>11 DEF pair
<1>2. CASE ~Holds(map, key) /\ n < cap
  <2>1. out = Append(map, pair)
    <3>1. Len(Append(map, pair)) = n + 1
      BY <1>0, <1>p, AppendProperties
    <3> QED
      BY <1>0, <1>2, <3>1 DEF Put, Without
  <2>2. \A m \in DOMAIN map : map[m].key # key
    BY <1>2 DEF Holds
  <2> HIDE DEF pair
  <2>3. /\ out \in Seq(E) /\ Len(out) = n + 1 /\ out[n + 1] = pair
        /\ \A m \in 1 .. n : out[m] = map[m]
    BY <1>0, <1>p, <2>1, AppendProperties
  <2> DEFINE from == [m \in 1 .. n |-> m]
  <2>4. /\ from \in [1 .. n -> DOMAIN map]
        /\ \A m \in 1 .. n : out[m] = map[from[m]] /\ map[from[m]].key # key
        /\ \A m, l \in 1 .. n : m < l => from[m] < from[l]
        /\ \A k \in DOMAIN map : \E m \in 1 .. n : from[m] = k
    BY <1>0, <2>2, <2>3
  <2> HIDE DEF from
  <2>5. Len(out) - 1 = n /\ Len(out) \in 1 .. cap
    BY <1>0, <1>2, <2>3
  <2>6. Keeps(map, out, key, cap, from)
    BY <2>4, <2>5 DEF Keeps
  <2> QED
    BY <2>3, <2>5, <2>6 DEF pair
<1>3. CASE ~Holds(map, key) /\ n = cap
  <2> DEFINE grown == Append(map, pair)
  <2>1. /\ grown \in Seq(E) /\ Len(grown) = n + 1 /\ grown[n + 1] = pair
        /\ \A m \in 1 .. n : grown[m] = map[m]
    BY <1>0, <1>p, AppendProperties
  <2>2. out = Tail(grown)
    BY <1>0, <1>3, <2>1 DEF Put, Without
  <2>3. \A m \in DOMAIN map : map[m].key # key
    BY <1>3 DEF Holds
  <2> HIDE DEF pair, grown
  <2>4. /\ out \in Seq(E) /\ Len(out) = n
        /\ \A m \in 1 .. n : out[m] = grown[m + 1]
    <3>1. grown # <<>>
      BY <1>0, <2>1
    <3> QED
      BY <1>0, <2>1, <2>2, <3>1, HeadTailProperties
  <2> DEFINE from == [m \in 1 .. n - 1 |-> m + 1]
  <2>5. /\ from \in [1 .. n - 1 -> DOMAIN map]
        /\ \A m \in 1 .. n - 1 : out[m] = map[from[m]] /\ map[from[m]].key # key
        /\ \A m, l \in 1 .. n - 1 : m < l => from[m] < from[l]
    <3>1. \A m \in 1 .. n - 1 : m + 1 \in 1 .. n /\ m \in 1 .. n /\ from[m] = m + 1
      BY <1>0
    <3>2. \A m \in 1 .. n - 1 : out[m] = map[m + 1]
      BY <2>1, <2>4, <3>1
    <3>3. from \in [1 .. n - 1 -> 1 .. n]
      BY <3>1
    <3>4. \A m, l \in 1 .. n - 1 : m < l => from[m] < from[l]
      BY <1>0, <3>1
    <3> HIDE DEF from
    <3>5. \A m \in 1 .. n - 1 : out[m] = map[from[m]] /\ map[from[m]].key # key
      BY <1>0, <2>3, <3>1, <3>2
    <3> QED
      BY <1>0, <3>3, <3>4, <3>5
  <2>6. \A k \in DOMAIN map : k = 1 \/ \E m \in 1 .. n - 1 : from[m] = k
    <3> SUFFICES ASSUME NEW k \in 2 .. n PROVE \E m \in 1 .. n - 1 : from[m] = k
      BY <1>0
    <3>1. k - 1 \in 1 .. n - 1 /\ from[k - 1] = k
      BY <1>0
    <3> QED
      BY <3>1
  <2> HIDE DEF from
  <2>7. Len(out) \in 1 .. cap /\ out[Len(out)] = pair
    BY <1>0, <1>3, <2>1, <2>4
  <2>8. Keeps(map, out, key, cap, from)
    BY <1>3, <2>4, <2>5, <2>6 DEF Keeps
  <2> QED
    BY <2>4, <2>7, <2>8 DEF pair
<1>4. n < cap \/ n = cap
  <2> HIDE DEF n
  <2>1. n <= cap /\ n \in Nat
    BY <1>0 DEF n
  <2> QED
    BY <2>1
<1> HIDE DEF n, pair, i
<1> QED
  BY <1>1, <1>2, <1>3, <1>4, Zenon

(* ... so that no key is there twice.                                      *)
LEMMA PutDiffer ==
  ASSUME NEW E, NEW map \in Seq(E), KeysDiffer(map), NEW key, NEW cap, NEW from,
         NEW out \in Seq(E), Len(out) \in Nat \ {0}, out[Len(out)].key = key,
         Keeps(map, out, key, cap, from)
  PROVE  KeysDiffer(out)
<1> DEFINE n == Len(map)
           p == Len(out)
<1>1. /\ from \in [1 .. p - 1 -> 1 .. n]
      /\ \A m \in 1 .. p - 1 : out[m] = map[from[m]] /\ map[from[m]].key # key
      /\ \A m, l \in 1 .. p - 1 : m < l => from[m] < from[l]
  BY DEF Keeps
<1>2. n \in Nat /\ DOMAIN map = 1 .. n /\ DOMAIN out = 1 .. p
  OBVIOUS
<1>3. p \in Nat \ {0} /\ out[p].key = key
  OBVIOUS
<1> HIDE DEF n, p
<1> SUFFICES ASSUME NEW m \in 1 .. p, NEW l \in 1 .. p, out[m].key = out[l].key
             PROVE  m = l
  BY <1>2 DEF KeysDiffer
<1>4. CASE m < p /\ l < p
  <2>1. m \in 1 .. p - 1 /\ l \in 1 .. p - 1
    BY <1>3, <1>4
  <2>2. map[from[m]].key = map[from[l]].key
    BY <1>1, <2>1
  <2>3. from[m] = from[l] /\ from[m] \in 1 .. n /\ from[l] \in 1 .. n
    BY <1>1, <1>2, <2>1, <2>2 DEF KeysDiffer
  <2>4. ~(m < l) /\ ~(l < m)
    BY <1>1, <2>1, <2>3
  <2> QED
    BY <2>1, <2>4
<1>5. CASE m = p /\ l < p
  <2>1. l \in 1 .. p - 1
    BY <1>3, <1>5
  <2> QED
    BY <1>1, <1>3, <1>5, <2>1
<1>6. CASE m < p /\ l = p
  <2>1. m \in 1 .. p - 1
    BY <1>3, <1>6
  <2> QED
    BY <1>1, <1>3, <1>6, <2>1
<1> QED
  BY <1>3, <1>4, <1>5, <1>6

(* The history's last entry for its key, and the keys that came after it.  *)
LastFor(hist, i) == \A j \in i + 1 .. Len(hist) : hist[j].key # hist[i].key

KeysAfter(hist, i) == {hist[j].key : j \in i + 1 .. Len(hist)}

(* A map holds the last entry of each of its keys, in the order of these,  *)
(* and knows every key that fewer than cap others came after, but for      *)
(* those whose entries are gone: the map may have dropped these by itself. *)
Remembers(map, hist, cap, gone) ==
  /\ Len(map) <= cap
  /\ KeysDiffer(map)
  /\ \A m \in DOMAIN map : \E i \in DOMAIN hist :
       /\ hist[i] = map[m] /\ LastFor(hist, i)
       /\ \A l \in m + 1 .. Len(map) : map[l].key \in KeysAfter(hist, i)
  /\ \A i \in DOMAIN hist \ gone :
       \/ Holds(map, hist[i].key)
       \/ Cardinality(KeysAfter(hist, i) \ {hist[i].key}) >= cap

LEMMA KeysAfterFinite ==
  ASSUME NEW E, NEW hist \in Seq(E), NEW i \in DOMAIN hist
  PROVE  /\ IsFiniteSet(KeysAfter(hist, i))
         /\ IsFiniteSet(KeysAfter(hist, i) \ {hist[i].key})
<1>1. IsFiniteSet(i + 1 .. Len(hist))
  BY FS_Interval
<1> DEFINE keys == KeysAfter(hist, i)
           f == [j \in i + 1 .. Len(hist) |-> hist[j].key]
<1>2. f \in Surjection(i + 1 .. Len(hist), keys)
  BY DEF Surjection, KeysAfter
<1> HIDE DEF f, keys
<1>3. IsFiniteSet(keys)
  BY <1>1, <1>2, FS_Surjection
<1> QED
  BY <1>3, FS_RemoveElement DEF keys

(* A map at its cap has cap different keys.                                *)
LEMMA KeysOfMap ==
  ASSUME NEW E, NEW map \in Seq(E), KeysDiffer(map), NEW T, IsFiniteSet(T),
         \A m \in DOMAIN map : map[m].key \in T
  PROVE  Cardinality(T) >= Len(map)
<1> DEFINE n == Len(map)
           f == [m \in 1 .. n |-> map[m].key]
<1>1. n \in Nat /\ DOMAIN map = 1 .. n
  OBVIOUS
<1>2. f \in Injection(1 .. n, T)
  BY <1>1 DEF Injection, IsInjective, KeysDiffer
<1>3. Cardinality(1 .. n) = n /\ Cardinality(T) \in Nat
  <2>1. Cardinality(1 .. n) = IF 1 > n THEN 0 ELSE n - 1 + 1
    BY <1>1, FS_Interval
  <2>2. Cardinality(T) \in Nat
    BY FS_CardinalityType
  <2> QED
    BY <1>1, <2>1, <2>2
<1> HIDE DEF f
<1>4. Cardinality(1 .. n) <= Cardinality(T)
  BY <1>2, FS_Injection
<1> QED
  BY <1>1, <1>3, <1>4

LEMMA PutRemembers ==
  ASSUME NEW E, NEW map \in Seq(E), NEW hist \in Seq(E), NEW cap \in Nat \ {0},
         NEW gone \in SUBSET DOMAIN hist, Remembers(map, hist, cap, gone),
         NEW key, NEW at, [key |-> key, at |-> at] \in E,
         NEW out, out = Put(map, key, at, cap),
         NEW later, later = Append(hist, [key |-> key, at |-> at])
  PROVE  out \in Seq(E) /\ Remembers(out, later, cap, gone)
<1> DEFINE n == Len(map)
           h == Len(hist)
           p == Len(out)
<1>1. PICK pair \in E : pair = [key |-> key, at |-> at]
  OBVIOUS
<1>2. pair.key = key
  BY <1>1
<1>3. /\ out \in Seq(E) /\ p \in 1 .. cap /\ out[p] = pair
      /\ \E from : Keeps(map, out, key, cap, from)
  BY <1>1, PutShape DEF Remembers
<1>4. PICK from : Keeps(map, out, key, cap, from)
  BY <1>3
<1>5. /\ from \in [1 .. p - 1 -> 1 .. n]
      /\ \A m \in 1 .. p - 1 : out[m] = map[from[m]] /\ map[from[m]].key # key
      /\ \A m, l \in 1 .. p - 1 : m < l => from[m] < from[l]
  BY <1>4 DEF Keeps
<1>6. /\ n \in Nat /\ DOMAIN map = 1 .. n /\ h \in Nat /\ DOMAIN hist = 1 .. h
      /\ DOMAIN out = 1 .. p
  BY <1>3
<1>7. /\ later \in Seq(E) /\ Len(later) = h + 1 /\ DOMAIN later = 1 .. h + 1
      /\ \A i \in 1 .. h : later[i] = hist[i]
      /\ later[h + 1] = pair
  <2>1. later = Append(hist, pair)
    BY <1>1
  <2> QED
    BY <2>1, AppendProperties
<1> HIDE DEF n, h, p
<1>8. ASSUME NEW i \in 1 .. h
      PROVE  /\ KeysAfter(later, i) = KeysAfter(hist, i) \cup {key}
             /\ LastFor(later, i) <=> LastFor(hist, i) /\ hist[i].key # key
  <2>1. i + 1 .. h + 1 = (i + 1 .. h) \cup {h + 1} /\ \A j \in i + 1 .. h : j \in 1 .. h
    BY <1>6
  <2>2. KeysAfter(later, i) = KeysAfter(hist, i) \cup {key}
    BY <1>2, <1>7, <2>1 DEF KeysAfter, h
  <2>3. LastFor(later, i) <=> LastFor(hist, i) /\ hist[i].key # key
    BY <1>2, <1>7, <2>1 DEF LastFor, h
  <2> QED
    BY <2>2, <2>3
<1>9. LastFor(later, h + 1)
  BY <1>6, <1>7 DEF LastFor
<1>10. KeysDiffer(out)
  <2>1. KeysDiffer(map) /\ Len(out) \in Nat \ {0} /\ out[Len(out)].key = key
    BY <1>2, <1>3 DEF Remembers, p
  <2> QED
    BY <1>3, <1>4, <2>1, PutDiffer
<1>11. ASSUME NEW m \in 1 .. p
       PROVE  \E i \in 1 .. h + 1 :
                /\ later[i] = out[m] /\ LastFor(later, i)
                /\ \A l \in m + 1 .. p : out[l].key \in KeysAfter(later, i)
  <2>1. CASE m = p
    <3>1. \A l \in m + 1 .. p : FALSE
      BY <1>3, <2>1
    <3> QED
      BY <1>3, <1>6, <1>7, <1>9, <2>1, <3>1
  <2>2. CASE m # p
    <3>1. m \in 1 .. p - 1 /\ from[m] \in 1 .. n
      BY <1>3, <1>5, <2>2
    <3>2. PICK i \in 1 .. h :
            /\ hist[i] = map[from[m]] /\ LastFor(hist, i)
            /\ \A l \in from[m] + 1 .. n : map[l].key \in KeysAfter(hist, i)
      BY <1>6, <3>1 DEF Remembers, n
    <3>3. later[i] = out[m] /\ LastFor(later, i)
      BY <1>5, <1>7, <1>8, <3>1, <3>2
    <3>4. ASSUME NEW l \in m + 1 .. p PROVE out[l].key \in KeysAfter(later, i)
      <4>1. CASE l = p
        BY <1>2, <1>3, <1>8, <4>1
      <4>2. CASE l # p
        <5>1. l \in 1 .. p - 1 /\ m < l
          BY <1>3, <3>1, <4>2
        <5>2. from[m] < from[l] /\ from[l] \in 1 .. n
          BY <1>5, <3>1, <5>1
        <5>3. from[l] \in from[m] + 1 .. n
          BY <1>6, <3>1, <5>2
        <5> QED
          BY <1>5, <1>8, <3>2, <5>1, <5>3
      <4> QED
        BY <4>1, <4>2
    <3>5. i \in 1 .. h + 1
      BY <1>6
    <3> QED
      BY <3>3, <3>4, <3>5
  <2> QED
    BY <2>1, <2>2
<1>12. ASSUME NEW i \in (1 .. h + 1) \ gone
       PROVE  \/ Holds(out, later[i].key)
              \/ Cardinality(KeysAfter(later, i) \ {later[i].key}) >= cap
  <2>1. CASE later[i].key = key
    <3>1. p \in 1 .. p
      BY <1>3
    <3>2. Holds(out, key)
      BY <1>2, <1>3, <1>6, <3>1 DEF Holds
    <3> QED
      BY <2>1, <3>2
  <2>2. CASE later[i].key # key
    <3>1. i \in 1 .. h /\ later[i] = hist[i] /\ hist[i].key # key
      BY <1>2, <1>6, <1>7, <2>2
    <3> DEFINE before == KeysAfter(hist, i) \ {hist[i].key}
               after  == KeysAfter(later, i) \ {later[i].key}
    <3>2. before \subseteq after
      BY <1>8, <3>1
    <3>3. IsFiniteSet(before) /\ IsFiniteSet(after)
      BY <1>6, <1>7, <3>1, KeysAfterFinite
    <3> HIDE DEF before, after
    <3>4. CASE Cardinality(before) >= cap
      <4>1. Cardinality(before) <= Cardinality(after)
        BY <3>2, <3>3, FS_Subset
      <4>2. Cardinality(before) \in Nat /\ Cardinality(after) \in Nat
        BY <3>3, FS_CardinalityType
      <4>3. Cardinality(after) >= cap
        BY <3>4, <4>1, <4>2
      <4> QED
        BY <4>3 DEF after
    <3>5. CASE \E k \in 1 .. n : map[k].key = hist[i].key
      <4>1. PICK k \in 1 .. n : map[k].key = hist[i].key
        BY <3>5
      <4>2. CASE \E m \in 1 .. p - 1 : from[m] = k
        <5>1. PICK m \in 1 .. p - 1 : from[m] = k
          BY <4>2
        <5>2. m \in 1 .. p
          BY <1>3
        <5>3. out[m].key = later[i].key
          BY <1>5, <3>1, <4>1, <5>1
        <5> QED
          BY <1>6, <5>2, <5>3 DEF Holds
      <4>3. CASE k = 1 /\ n = cap /\ p = cap /\ \A m \in 1 .. p - 1 : from[m] # k
        <5>1. PICK j \in 1 .. h :
                /\ hist[j] = map[1] /\ LastFor(hist, j)
                /\ \A l \in 2 .. n : map[l].key \in KeysAfter(hist, j)
          BY <1>6, <4>3 DEF Remembers, n
        <5>2. KeysAfter(hist, j) \subseteq KeysAfter(hist, i)
          <6>1. hist[i].key = hist[j].key
            BY <4>1, <4>3, <5>1
          <6>2. ~(j < i)
            BY <1>6, <3>1, <5>1, <6>1 DEF LastFor, h
          <6>3. j + 1 .. h \subseteq i + 1 .. h
            BY <3>1, <6>2
          <6> QED
            BY <6>3 DEF KeysAfter, h
        <5>3. \A m \in 1 .. p : out[m].key \in after
          <6> SUFFICES ASSUME NEW m \in 1 .. p PROVE out[m].key \in after
            OBVIOUS
          <6>1. CASE m = p
            BY <1>2, <1>3, <1>8, <3>1, <6>1 DEF after
          <6>2. CASE m # p
            <7>1. m \in 1 .. p - 1 /\ from[m] \in 1 .. n /\ from[m] # 1
              BY <1>3, <1>5, <4>3, <6>2
            <7>2. from[m] \in 2 .. n
              BY <1>6, <7>1
            <7>3. out[m].key \in KeysAfter(later, i)
              BY <1>5, <1>8, <3>1, <5>1, <5>2, <7>1, <7>2
            <7>4. out[m].key # later[i].key
              BY <1>5, <1>6, <3>1, <4>1, <4>3, <7>1 DEF Remembers, KeysDiffer
            <7> QED
              BY <7>3, <7>4 DEF after
          <6> QED
            BY <6>1, <6>2
        <5>4. Cardinality(after) >= p
          BY <1>3, <1>6, <1>10, <3>3, <5>3, KeysOfMap DEF p
        <5> QED
          BY <4>3, <5>4 DEF after
      <4>4. map[k].key # key
        BY <3>1, <4>1
      <4> QED
        BY <1>4, <1>6, <4>1, <4>2, <4>3, <4>4 DEF Keeps, n, p
    <3> QED
      BY <1>6, <3>1, <3>4, <3>5 DEF Remembers, Holds, before
  <2> QED
    BY <2>1, <2>2
<1>13. Len(out) <= cap
  BY <1>3 DEF p
<1>14. Remembers(out, later, cap, gone)
  BY <1>6, <1>7, <1>10, <1>11, <1>12, <1>13 DEF Remembers, p
<1> QED
  BY <1>3, <1>14

(* Keeps some entries of a map, in order.                                  *)
Thins(map, out, from) ==
  /\ from \in [1 .. Len(out) -> DOMAIN map]
  /\ \A m \in 1 .. Len(out) : out[m] = map[from[m]]
  /\ \A m, l \in 1 .. Len(out) : m < l => from[m] < from[l]

LEMMA WithoutThins ==
  ASSUME NEW E, NEW map \in Seq(E), KeysDiffer(map), NEW key,
         NEW out, out = Without(map, key)
  PROVE  /\ out \in Seq(E)
         /\ \E from : /\ Thins(map, out, from)
                      /\ \A k \in DOMAIN map :
                           map[k].key = key \/ \E m \in 1 .. Len(out) : from[m] = k
<1> DEFINE n == Len(map)
           i == Position(map, key)
<1>0. n \in Nat /\ DOMAIN map = 1 .. n
  OBVIOUS
<1>1. CASE Holds(map, key)
  <2>1. i \in 1 .. n /\ map[i].key = key
    BY <1>1 DEF Holds, Position
  <2>2. out = RemoveAt(map, i)
    BY <1>1 DEF Without
  <2> HIDE DEF i
  <2>3. /\ out \in Seq(E) /\ Len(out) = n - 1
        /\ \A m \in 1 .. n - 1 : out[m] = IF m < i THEN map[m] ELSE map[m + 1]
    <3>1. PICK at \in 1 .. Len(map) : at = i
      BY <2>1
    <3>2. out = RemoveAt(map, at)
      BY <2>2, <3>1
    <3>3. /\ out \in Seq(E) /\ Len(out) = Len(map) - 1
          /\ \A m \in 1 .. Len(map) - 1 : out[m] = IF m < at THEN map[m] ELSE map[m + 1]
      BY <3>2, RemoveAtShape
    <3> QED
      BY <3>1, <3>3
  <2> DEFINE from == [m \in 1 .. n - 1 |-> IF m < i THEN m ELSE m + 1]
  <2> HIDE DEF n
  <2>4. /\ from \in [1 .. n - 1 -> 1 .. n]
        /\ \A m, l \in 1 .. n - 1 : m < l => from[m] < from[l]
    BY <1>0, <2>1
  <2>5. \A m \in 1 .. n - 1 : out[m] = map[from[m]]
    BY <2>3
  <2>6. ASSUME NEW k \in 1 .. n
        PROVE  map[k].key = key \/ \E m \in 1 .. n - 1 : from[m] = k
    <3>1. CASE k < i
      <4>1. k \in 1 .. n - 1 /\ from[k] = k
        BY <1>0, <2>1, <3>1
      <4> QED
        BY <4>1
    <3>2. CASE k > i
      <4>1. k - 1 \in 1 .. n - 1 /\ from[k - 1] = k
        BY <1>0, <2>1, <3>2
      <4> QED
        BY <4>1
    <3> QED
      BY <1>0, <2>1, <3>1, <3>2
  <2> HIDE DEF from
  <2>7. Thins(map, out, from)
    BY <1>0, <2>3, <2>4, <2>5 DEF Thins
  <2> QED
    BY <1>0, <2>3, <2>6, <2>7
<1>2. CASE ~Holds(map, key)
  <2> DEFINE from == [m \in 1 .. n |-> m]
  <2>1. out = map
    BY <1>2 DEF Without
  <2>2. Thins(map, out, from) /\ \A k \in 1 .. n : from[k] = k
    BY <1>0, <2>1 DEF Thins
  <2> HIDE DEF from, n
  <2> QED
    BY <1>0, <2>1, <2>2 DEF n
<1> QED
  BY <1>1, <1>2

(* The n-th entry kept is the one that n - 1 of those kept come before.    *)
LEMMA RetainThins ==
  ASSUME NEW E, NEW map \in Seq(E), NEW keys, NEW out, out = Retain(map, keys)
  PROVE  /\ out \in Seq(E)
         /\ \E from : /\ Thins(map, out, from)
                      /\ \A k \in DOMAIN map :
                           map[k].key \notin keys \/ \E m \in 1 .. Len(out) : from[m] = k
<1> DEFINE n == Len(map)
           kept == {i \in DOMAIN map : map[i].key \in keys}
           c == Cardinality(kept)
           Before(i) == {j \in kept : j < i}
           rank == [i \in kept |-> Cardinality(Before(i)) + 1]
           from == [m \in 1 .. c |-> CHOOSE i \in kept : Cardinality(Before(i)) = m - 1]
<1>1. n \in Nat /\ DOMAIN map = 1 .. n /\ kept \subseteq 1 .. n
      /\ \A i \in 1 .. n : map[i] \in E
  OBVIOUS
<1>2. out = [m \in 1 .. c |-> map[from[m]]]
  <2>1. out = [m \in 1 .. c |-> map[CHOOSE i \in kept : Cardinality(Before(i)) = m - 1]]
    BY DEF Retain
  <2> HIDE DEF c, kept, Before
  <2> QED
    BY <2>1
<1> HIDE DEF n, kept
<1>3. IsFiniteSet(kept) /\ c \in Nat
  <2>1. IsFiniteSet(1 .. n)
    BY <1>1, FS_Interval
  <2>2. IsFiniteSet(kept)
    BY <1>1, <2>1, FS_Subset
  <2> QED
    BY <2>2, FS_CardinalityType
<1>4. ASSUME NEW i \in kept
      PROVE  /\ IsFiniteSet(Before(i)) /\ Cardinality(Before(i)) \in Nat
             /\ Cardinality(Before(i)) < c
  <2>1. Before(i) \subseteq kept /\ i \notin Before(i)
    BY <1>1
  <2> HIDE DEF Before
  <2>2. IsFiniteSet(Before(i)) /\ Cardinality(Before(i)) \in Nat
    BY <1>3, <2>1, FS_Subset, FS_CardinalityType
  <2>3. Before(i) \cup {i} \subseteq kept
    BY <2>1
  <2>4. IsFiniteSet(Before(i) \cup {i})
        /\ Cardinality(Before(i) \cup {i}) = Cardinality(Before(i)) + 1
    BY <2>1, <2>2, FS_AddElement
  <2>5. Cardinality(Before(i) \cup {i}) <= c
    BY <1>3, <2>3, FS_Subset
  <2> QED
    BY <1>3, <2>2, <2>4, <2>5
<1>5. ASSUME NEW i \in kept, NEW j \in kept, i < j
      PROVE  Cardinality(Before(i)) < Cardinality(Before(j))
  <2>1. Before(i) \cup {i} \subseteq Before(j) /\ i \notin Before(i)
    <3>1. i \in 1 .. n /\ j \in 1 .. n
      BY <1>1
    <3>2. \A k \in kept : k < i => k < j
      <4> TAKE k \in kept
      <4>1. k \in 1 .. n
        BY <1>1
      <4> QED
        BY <1>5, <3>1, <4>1
    <3>3. ~(i < i)
      BY <3>1
    <3>4. \A k \in Before(i) : k \in kept /\ k < i
      OBVIOUS
    <3>5. \A k \in kept : k < j => k \in Before(j)
      OBVIOUS
    <3> HIDE DEF Before
    <3> QED
      BY <1>5, <3>2, <3>3, <3>4, <3>5
  <2>2. IsFiniteSet(Before(i)) /\ Cardinality(Before(i)) \in Nat
        /\ IsFiniteSet(Before(j)) /\ Cardinality(Before(j)) \in Nat
    BY <1>4
  <2> HIDE DEF Before
  <2>3. Cardinality(Before(i) \cup {i}) = Cardinality(Before(i)) + 1
    BY <2>1, <2>2, FS_AddElement
  <2>4. Cardinality(Before(i) \cup {i}) <= Cardinality(Before(j))
    BY <2>1, <2>2, FS_Subset
  <2> QED
    BY <2>2, <2>3, <2>4
<1> HIDE DEF Before, c
<1>6. rank \in Injection(kept, 1 .. c)
  <2>1. rank \in [kept -> 1 .. c]
    BY <1>3, <1>4
  <2>2. ASSUME NEW i \in kept, NEW j \in kept, rank[i] = rank[j] PROVE i = j
    <3>1. Cardinality(Before(i)) = Cardinality(Before(j))
      BY <1>4, <2>2
    <3>2. ~(i < j) /\ ~(j < i)
      BY <1>4, <1>5, <3>1
    <3> QED
      BY <1>1, <3>2
  <2> HIDE DEF rank
  <2> QED
    BY <2>1, <2>2 DEF Injection, IsInjective
<1>7. ASSUME NEW m \in 1 .. c
      PROVE  \E i \in kept : Cardinality(Before(i)) = m - 1
  <2>1. IsFiniteSet(1 .. c) /\ Cardinality(1 .. c) = c
    <3>1. IsFiniteSet(1 .. c) /\ Cardinality(1 .. c) = IF 1 > c THEN 0 ELSE c - 1 + 1
      BY <1>3, FS_Interval
    <3> QED
      BY <1>3, <3>1
  <2>2. Cardinality(kept) = Cardinality(1 .. c)
    BY <2>1 DEF c
  <2> HIDE DEF rank
  <2>3. rank \in Surjection(kept, 1 .. c)
    BY <1>6, <2>1, <2>2, FS_Injection
  <2>4. PICK i \in kept : rank[i] = m
    BY <1>7, <2>3 DEF Surjection
  <2>5. Cardinality(Before(i)) + 1 = m
    BY <2>4 DEF rank
  <2> QED
    BY <1>4, <2>5
<1>8. ASSUME NEW m \in 1 .. c
      PROVE  from[m] \in kept /\ Cardinality(Before(from[m])) = m - 1
  BY <1>7, <1>8
<1>9. from \in [1 .. c -> 1 .. n] /\ \A m \in 1 .. c : out[m] = map[from[m]]
  BY <1>1, <1>2, <1>8
<1> HIDE DEF from
<1>10. out \in Seq(E) /\ Len(out) = c
  BY <1>1, <1>2, <1>3, <1>9
<1>11. ASSUME NEW m \in 1 .. c, NEW l \in 1 .. c, m < l PROVE from[m] < from[l]
  <2>1. /\ from[m] \in kept /\ from[l] \in kept
        /\ Cardinality(Before(from[m])) = m - 1 /\ Cardinality(Before(from[l])) = l - 1
    BY <1>8
  <2>2. from[m] # from[l] /\ ~(from[l] < from[m])
    BY <1>3, <1>5, <1>11, <2>1
  <2>3. from[m] \in 1 .. n /\ from[l] \in 1 .. n
    BY <1>9
  <2> QED
    BY <1>1, <2>2, <2>3
<1>12. ASSUME NEW k \in kept PROVE \E m \in 1 .. c : from[m] = k
  <2>1. PICK m \in 1 .. c : m = Cardinality(Before(k)) + 1
    BY <1>3, <1>4
  <2>2. from[m] \in kept /\ Cardinality(Before(from[m])) = Cardinality(Before(k))
    BY <1>4, <1>8, <2>1
  <2>3. ~(from[m] < k) /\ ~(k < from[m])
    BY <1>4, <1>5, <2>2
  <2>4. from[m] = k
    <3>1. from[m] \in 1 .. n /\ k \in 1 .. n
      BY <1>1, <2>2
    <3> QED
      BY <1>1, <2>3, <3>1
  <2> QED
    BY <2>4
<1>13. Thins(map, out, from)
  BY <1>1, <1>9, <1>10, <1>11 DEF Thins
<1>14. \A k \in DOMAIN map : map[k].key \notin keys \/ \E m \in 1 .. Len(out) : from[m] = k
  BY <1>10, <1>12 DEF kept
<1> QED
  BY <1>10, <1>13, <1>14

(* A map may drop entries that are gone.                                   *)
LEMMA ThinsRemembers ==
  ASSUME NEW E, NEW map \in Seq(E), NEW hist \in Seq(E), NEW cap \in Nat \ {0},
         NEW gone \in SUBSET DOMAIN hist, Remembers(map, hist, cap, gone),
         NEW out \in Seq(E), NEW from, Thins(map, out, from),
         \A k \in DOMAIN map :
           \/ \E m \in 1 .. Len(out) : from[m] = k
           \/ \A i \in DOMAIN hist : hist[i].key = map[k].key => i \in gone
  PROVE  Remembers(out, hist, cap, gone)
<1> DEFINE n == Len(map)
           p == Len(out)
<1>1. /\ n \in Nat /\ DOMAIN map = 1 .. n /\ p \in Nat /\ DOMAIN out = 1 .. p
  OBVIOUS
<1>2. /\ from \in [1 .. p -> 1 .. n]
      /\ \A m \in 1 .. p : out[m] = map[from[m]]
      /\ \A m, l \in 1 .. p : m < l => from[m] < from[l]
  BY DEF Thins
<1>a. n <= cap
  BY DEF Remembers
<1> HIDE DEF n, p
<1>3. ASSUME NEW m \in 1 .. p, NEW l \in 1 .. p, from[m] = from[l] PROVE m = l
  <2>1. from[m] \in 1 .. n /\ from[l] \in 1 .. n
    BY <1>2
  <2>2. ~(m < l) /\ ~(l < m)
    BY <1>2, <1>3, <2>1
  <2> QED
    BY <2>2
<1>4. p <= cap
  <2>1. from \in Injection(1 .. p, 1 .. n)
    BY <1>2, <1>3 DEF Injection, IsInjective
  <2>2. IsFiniteSet(1 .. n) /\ Cardinality(1 .. n) = n /\ Cardinality(1 .. p) = p
    <3>1. /\ IsFiniteSet(1 .. n) /\ Cardinality(1 .. n) = IF 1 > n THEN 0 ELSE n - 1 + 1
          /\ Cardinality(1 .. p) = IF 1 > p THEN 0 ELSE p - 1 + 1
      BY <1>1, FS_Interval
    <3> QED
      BY <1>1, <3>1
  <2>3. Cardinality(1 .. p) <= Cardinality(1 .. n)
    BY <2>1, <2>2, FS_Injection
  <2> QED
    BY <1>1, <1>a, <2>2, <2>3
<1>5. KeysDiffer(out)
  <2>1. ASSUME NEW m \in 1 .. p, NEW l \in 1 .. p, out[m].key = out[l].key PROVE m = l
    <3>1. map[from[m]].key = map[from[l]].key /\ from[m] \in 1 .. n /\ from[l] \in 1 .. n
      BY <1>2, <2>1
    <3>2. from[m] = from[l]
      BY <1>1, <3>1 DEF Remembers, KeysDiffer
    <3> QED
      BY <1>3, <3>2
  <2> QED
    BY <1>1, <2>1 DEF KeysDiffer
<1>6. ASSUME NEW m \in 1 .. p
      PROVE  \E i \in DOMAIN hist :
               /\ hist[i] = out[m] /\ LastFor(hist, i)
               /\ \A l \in m + 1 .. p : out[l].key \in KeysAfter(hist, i)
  <2>1. from[m] \in 1 .. n
    BY <1>2
  <2>2. PICK i \in DOMAIN hist :
          /\ hist[i] = map[from[m]] /\ LastFor(hist, i)
          /\ \A l \in from[m] + 1 .. n : map[l].key \in KeysAfter(hist, i)
    BY <1>1, <2>1 DEF Remembers, n
  <2>3. ASSUME NEW l \in m + 1 .. p PROVE out[l].key \in KeysAfter(hist, i)
    <3>1. l \in 1 .. p /\ m < l
      BY <1>1
    <3>2. from[m] < from[l] /\ from[l] \in 1 .. n
      BY <1>2, <3>1
    <3>3. from[l] \in from[m] + 1 .. n
      BY <1>1, <2>1, <3>2
    <3> QED
      BY <1>2, <2>2, <3>1, <3>3
  <2> QED
    BY <1>2, <2>2, <2>3
<1>7. ASSUME NEW i \in DOMAIN hist \ gone
      PROVE  \/ Holds(out, hist[i].key)
             \/ Cardinality(KeysAfter(hist, i) \ {hist[i].key}) >= cap
  <2>1. CASE Holds(map, hist[i].key)
    <3>1. PICK k \in DOMAIN map : map[k].key = hist[i].key
      BY <2>1 DEF Holds
    <3>2. PICK m \in 1 .. p : from[m] = k
      BY <1>7, <3>1 DEF p
    <3> QED
      BY <1>1, <1>2, <3>1, <3>2 DEF Holds
  <2> QED
    BY <2>1 DEF Remembers
<1> QED
  BY <1>1, <1>4, <1>5, <1>6, <1>7 DEF Remembers, p

(* More of its history may go.                                             *)
LEMMA RemembersLess ==
  ASSUME NEW map, NEW hist, NEW cap, NEW gone, Remembers(map, hist, cap, gone),
         NEW more, gone \subseteq more
  PROVE  Remembers(map, hist, cap, more)
  BY DEF Remembers

-----------------------------------------------------------------------------
(* The memories of a pod.                                                  *)

Keys   == {"new", "every"} \X Families
Clocks == [key : Keys, at : Nat]

(* The [key, at] pairs a pod's pages stamped.                              *)
Stamps(pages) == [k \in DOMAIN pages |-> [key |-> <<pages[k].rule, pages[k].fam>>,
                                          at  |-> pages[k].at]]

(* No two of a history's stamps of a key are less than a cooldown apart,   *)
(* unless MaxFamilies others came between them.                            *)
Apart(hist) ==
  \A i, j \in DOMAIN hist :
    i < j /\ hist[i].key = hist[j].key =>
      \/ hist[j].at - hist[i].at >= Cooldown
      \/ Cardinality({hist[k].key : k \in i + 1 .. j - 1} \ {hist[i].key}) >= MaxFamilies

CInv ==
  /\ lastFired \in [Pods -> Seq(Clocks)]
  /\ \A p \in Pods : /\ Remembers(lastFired[p], Stamps(fires[p]), MaxFamilies, {})
                     /\ Apart(Stamps(fires[p]))

LEMMA StampsTyped ==
  ASSUME NEW pages \in Seq(Pages)
  PROVE  /\ Stamps(pages) \in Seq(Clocks) /\ Len(Stamps(pages)) = Len(pages)
         /\ DOMAIN Stamps(pages) = 1 .. Len(pages)
         /\ \A k \in 1 .. Len(pages) :
              /\ Stamps(pages)[k].key = <<pages[k].rule, pages[k].fam>>
              /\ Stamps(pages)[k].at = pages[k].at
<1> DEFINE n == Len(pages)
           s == Stamps(pages)
<1>1. s = [k \in 1 .. n |-> [key |-> <<pages[k].rule, pages[k].fam>>, at |-> pages[k].at]]
  BY DEF Stamps
<1>2. \A k \in 1 .. n : [key |-> <<pages[k].rule, pages[k].fam>>, at |-> pages[k].at] \in Clocks
  <2> TAKE k \in 1 .. n
  <2>1. pages[k] \in Pages
    OBVIOUS
  <2>2. pages[k].rule \in {"new", "every"} /\ pages[k].fam \in Families
        /\ pages[k].at \in Nat
    BY <2>1 DEF Pages
  <2> QED
    BY <2>2 DEF Clocks, Keys
<1>3. n \in Nat
  OBVIOUS
<1> HIDE DEF n, s
<1>4. s \in Seq(Clocks) /\ Len(s) = n
  BY <1>1, <1>2, <1>3
<1> QED
  BY <1>1, <1>3, <1>4 DEF n, s

(* Another stamp of a key: the map holds the last one, a cooldown before,  *)
(* or has forgotten all of them.                                           *)
LEMMA StampApart ==
  ASSUME NEW hist \in Seq(Clocks), NEW map \in Seq(Clocks), Apart(hist),
         Remembers(map, hist, MaxFamilies, {}), NEW key \in Keys, NEW at \in Nat,
         ~(Holds(map, key) /\ at - At(map, key) < Cooldown),
         NEW later, later = Append(hist, [key |-> key, at |-> at])
  PROVE  Apart(later)
<1> DEFINE n == Len(hist)
<1>1. PICK pair \in Clocks : pair = [key |-> key, at |-> at] /\ pair.key = key /\ pair.at = at
  BY SMTT(30) DEF Clocks
<1>2. /\ n \in Nat /\ DOMAIN hist = 1 .. n
      /\ DOMAIN later = 1 .. n + 1
      /\ \A i \in 1 .. n : later[i] = hist[i] /\ hist[i].at \in Nat
      /\ later[n + 1] = pair
  <2>1. later = Append(hist, pair) /\ n \in Nat /\ DOMAIN hist = 1 .. n
    BY <1>1
  <2>2. later \in Seq(Clocks) /\ Len(later) = n + 1 /\ later[n + 1] = pair
        /\ \A i \in 1 .. n : later[i] = hist[i]
    BY <2>1, AppendProperties
  <2>3. \A i \in 1 .. n : hist[i].at \in Nat
    <3> TAKE i \in 1 .. n
    <3>1. hist[i] \in Clocks
      BY <2>1
    <3> QED
      BY <3>1 DEF Clocks
  <2> QED
    BY <2>1, <2>2, <2>3
<1>3. Cooldown \in Nat /\ MaxFamilies \in Nat \ {0}
  BY AlerterAssumption
<1> HIDE DEF n
<1> SUFFICES ASSUME NEW i \in 1 .. n + 1, NEW j \in 1 .. n + 1, i < j,
                    later[i].key = later[j].key, ~(later[j].at - later[i].at >= Cooldown)
             PROVE  Cardinality({later[k].key : k \in i + 1 .. j - 1} \ {later[i].key})
                      >= MaxFamilies
  BY <1>2 DEF Apart
<1>4. i \in 1 .. n /\ \A k \in i + 1 .. j - 1 : k \in 1 .. n /\ later[k] = hist[k]
  BY <1>2
<1>5. /\ {later[k].key : k \in i + 1 .. j - 1} = {hist[k].key : k \in i + 1 .. j - 1}
      /\ later[i] = hist[i]
  BY <1>2, <1>4
<1>6. CASE j \in 1 .. n
  <2>1. hist[i].key = hist[j].key /\ ~(hist[j].at - hist[i].at >= Cooldown)
    BY <1>2, <1>4, <1>6
  <2> QED
    BY <1>2, <1>4, <1>5, <1>6, <2>1 DEF Apart
<1>7. CASE j = n + 1
  <2>1. hist[i].key = key /\ ~(at - hist[i].at >= Cooldown)
    BY <1>1, <1>2, <1>5, <1>7
  <2>2. CASE Holds(map, key)
    <3> DEFINE m == Position(map, key)
    <3>1. m \in DOMAIN map /\ map[m].key = key
      BY <2>2 DEF Holds, Position
    <3>2. at - map[m].at >= Cooldown /\ map[m].at \in Nat
      <4>1. ~(at - map[m].at < Cooldown)
        BY <2>2 DEF At
      <4> HIDE DEF m
      <4>2. map[m] \in Clocks
        BY <3>1
      <4>3. map[m].at \in Nat
        BY <4>2 DEF Clocks
      <4> QED
        BY <1>3, <4>1, <4>3
    <3> HIDE DEF m
    <3>3. PICK l \in 1 .. n : hist[l] = map[m] /\ LastFor(hist, l)
      BY <1>2, <3>1 DEF Remembers
    <3>4. ~(i > l)
      <4>1. \A k \in l + 1 .. n : hist[k].key # hist[l].key
        BY <3>3 DEF LastFor, n
      <4>2. hist[i].key = hist[l].key
        BY <2>1, <3>1, <3>3
      <4>3. SUFFICES ASSUME i > l PROVE i \in l + 1 .. n
        BY <4>1, <4>2
      <4> QED
        BY <1>2, <1>4, <3>3, <4>3
    <3>5. i < l
      <4>1. i # l
        BY <1>3, <2>1, <3>2, <3>3
      <4> QED
        BY <1>4, <3>3, <3>4, <4>1
    <3> DEFINE upToL == {hist[k].key : k \in i + 1 .. l - 1} \ {hist[i].key}
               upToJ == {hist[k].key : k \in i + 1 .. j - 1} \ {hist[i].key}
    <3>6. hist[l].at - hist[i].at >= Cooldown \/ Cardinality(upToL) >= MaxFamilies
      BY <1>2, <1>4, <2>1, <3>1, <3>3, <3>5 DEF Apart
    <3>7. ~(hist[l].at - hist[i].at >= Cooldown)
      BY <1>2, <1>3, <1>4, <2>1, <3>2, <3>3, SMTT(30)
    <3>8. upToL \subseteq upToJ
      BY <1>2, <1>7, <3>3
    <3>9. IsFiniteSet(upToJ)
      <4>1. i + 1 .. j - 1 = i + 1 .. n
        BY <1>2, <1>7
      <4>2. upToJ = KeysAfter(hist, i) \ {hist[i].key}
        BY <4>1 DEF KeysAfter, n
      <4> QED
        BY <1>2, <1>4, <4>2, KeysAfterFinite
    <3> HIDE DEF upToL, upToJ
    <3>10. Cardinality(upToL) <= Cardinality(upToJ)
           /\ Cardinality(upToL) \in Nat /\ Cardinality(upToJ) \in Nat
      BY <3>8, <3>9, FS_Subset, FS_CardinalityType
    <3>11. Cardinality(upToJ) >= MaxFamilies
      BY <1>3, <3>6, <3>7, <3>10
    <3> QED
      BY <1>5, <3>11 DEF upToJ
  <2>3. CASE ~Holds(map, key)
    <3>1. Cardinality(KeysAfter(hist, i) \ {hist[i].key}) >= MaxFamilies
      BY <1>2, <1>4, <2>1, <2>3 DEF Remembers
    <3>2. i + 1 .. j - 1 = i + 1 .. n
      BY <1>2, <1>7
    <3>3. {hist[k].key : k \in i + 1 .. j - 1} = KeysAfter(hist, i)
      BY <3>2 DEF KeysAfter, n
    <3> QED
      BY <1>5, <3>1, <3>3
  <2> QED
    BY <2>2, <2>3
<1>8. j \in 1 .. n \/ j = n + 1
  BY <1>2
<1> QED
  BY <1>6, <1>7, <1>8

LEMMA PagesStamped ==
  ASSUME IInv, NEW p \in Pods
  PROVE  /\ fires[p] \in Seq(Pages)
         /\ Stamps(fires[p]) \in Seq(Clocks)
         /\ DOMAIN Stamps(fires[p]) = DOMAIN fires[p]
         /\ DOMAIN fires[p] = 1 .. Len(fires[p]) /\ Len(fires[p]) \in Nat
         /\ \A k \in DOMAIN fires[p] :
              /\ Stamps(fires[p])[k].key = <<fires[p][k].rule, fires[p][k].fam>>
              /\ Stamps(fires[p])[k].at = fires[p][k].at
  BY StampsTyped DEF IInv, Typed

LEMMA ClocksSuffice ==
  ASSUME IInv, CInv PROVE CooldownKept
<1> SUFFICES ASSUME NEW p \in Pods, NEW i \in DOMAIN fires[p], NEW j \in DOMAIN fires[p],
                    i < j,
                    <<fires[p][i].rule, fires[p][i].fam>> = <<fires[p][j].rule, fires[p][j].fam>>
             PROVE  \/ fires[p][j].at - fires[p][i].at >= Cooldown
                    \/ Cardinality({<<fires[p][k].rule, fires[p][k].fam>> : k \in i + 1 .. j - 1}
                                     \ {<<fires[p][i].rule, fires[p][i].fam>>}) >= MaxFamilies
  BY DEF CooldownKept
<1> DEFINE hist == Stamps(fires[p])
<1>1. /\ DOMAIN hist = DOMAIN fires[p]
      /\ DOMAIN fires[p] = 1 .. Len(fires[p]) /\ Len(fires[p]) \in Nat
      /\ \A k \in DOMAIN fires[p] :
           /\ hist[k].key = <<fires[p][k].rule, fires[p][k].fam>>
           /\ hist[k].at = fires[p][k].at
  BY PagesStamped
<1>2. Apart(hist)
  BY DEF CInv
<1> HIDE DEF hist
<1>3. \A k \in i + 1 .. j - 1 : k \in DOMAIN fires[p]
  BY <1>1
<1>4. {hist[k].key : k \in i + 1 .. j - 1}
        = {<<fires[p][k].rule, fires[p][k].fam>> : k \in i + 1 .. j - 1}
  BY <1>1, <1>3, ZenonT(40)
<1>5. \/ hist[j].at - hist[i].at >= Cooldown
      \/ Cardinality({hist[k].key : k \in i + 1 .. j - 1} \ {hist[i].key}) >= MaxFamilies
  BY <1>1, <1>2 DEF Apart
<1> QED
  BY <1>1, <1>4, <1>5

LEMMA SameClocks ==
  ASSUME IInv, CInv, lastFired' = lastFired, fires' \in [Pods -> Seq(Pages)],
         fires' = fires \/ SameButNotes
  PROVE  CInv'
<1>1. ASSUME NEW d \in Pods PROVE Stamps(fires'[d]) = Stamps(fires[d])
  BY <1>1 DEF Stamps, SameButNotes
<1> QED
  BY <1>1 DEF CInv

LEMMA FireClocks ==
  ASSUME IInv, CInv, NEW p \in Pods, NEW r \in {"new", "every"},
         NEW via \in {"store", "tracker", "rule"}, stage[p] # "idle",
         Fire(p, r, via), ~InCooldown(p, r)
  PROVE  CInv'
<1> DEFINE key == <<r, Family(p)>>
           at == Stamp(p)
           hist == Stamps(fires[p])
           page == [rule |-> r, fam |-> Family(p), at |-> at, via |-> via, note |-> "pending"]
           map == lastFired[p]
           out == Put(map, key, at, MaxFamilies)
           later == Append(hist, [key |-> key, at |-> at])
<1>1. Family(p) \in Families /\ at \in Nat /\ MaxFamilies \in Nat \ {0}
  BY HeadTyped, AlerterAssumption DEF IInv
<1>2. key \in Keys /\ [key |-> key, at |-> at] \in Clocks /\ page \in Pages
  BY <1>1 DEF Keys, Clocks, Pages, Notes
<1>3. /\ fires[p] \in Seq(Pages) /\ hist \in Seq(Clocks) /\ map \in Seq(Clocks)
      /\ Remembers(map, hist, MaxFamilies, {}) /\ Apart(hist)
  BY PagesStamped DEF CInv
<1>4. out \in Seq(Clocks) /\ Remembers(out, later, MaxFamilies, {})
  <2> HIDE DEF key, at, hist, map
  <2> QED
    BY <1>1, <1>2, <1>3, PutRemembers, ZenonT(40)
<1>5. Apart(later)
  <2>1. ~(Holds(map, key) /\ at - At(map, key) < Cooldown)
    BY DEF InCooldown
  <2> HIDE DEF key, at, hist, map
  <2> QED
    BY <1>1, <1>2, <1>3, <2>1, StampApart
<1>6. fires'[p] = Append(fires[p], page) /\ fires'[p] \in Seq(Pages)
      /\ lastFired' = [lastFired EXCEPT ![p] = out]
      /\ \A d \in Pods \ {p} : fires'[d] = fires[d]
  BY <1>2, <1>3 DEF Fire, IInv, Typed
<1>7. Stamps(fires'[p]) = later
  <2> DEFINE n == Len(fires[p])
             new == fires'[p]
  <2>1. /\ n \in Nat /\ Len(new) = n + 1 /\ DOMAIN new = 1 .. n + 1 /\ new[n + 1] = page
        /\ \A k \in 1 .. n : new[k] = fires[p][k]
    <3> HIDE DEF page
    <3> QED
      BY <1>2, <1>3, <1>6, AppendProperties
  <2>2. /\ Len(hist) = n /\ later \in Seq(Clocks) /\ Len(later) = n + 1
        /\ \A k \in 1 .. n : later[k] = hist[k]
        /\ later[n + 1] = [key |-> key, at |-> at]
    <3>1. Len(hist) = n
      BY <1>3, StampsTyped
    <3> HIDE DEF hist, key, at
    <3> QED
      BY <1>2, <1>3, <3>1, AppendProperties
  <2>3. Stamps(new) = [k \in 1 .. n + 1 |-> [key |-> <<new[k].rule, new[k].fam>>,
                                              at  |-> new[k].at]]
    BY <2>1 DEF Stamps
  <2>4. \A k \in 1 .. n : hist[k] = [key |-> <<fires[p][k].rule, fires[p][k].fam>>,
                                     at  |-> fires[p][k].at]
    BY <1>3 DEF Stamps
  <2>5. new[n + 1].rule = r /\ new[n + 1].fam = Family(p) /\ new[n + 1].at = at
    BY <2>1
  <2> HIDE DEF new, n, hist, later, page, at
  <2>6. ASSUME NEW k \in 1 .. n + 1
        PROVE  later[k] = [key |-> <<new[k].rule, new[k].fam>>, at |-> new[k].at]
    <3>1. CASE k \in 1 .. n
      BY <2>1, <2>2, <2>4, <3>1
    <3>2. CASE k = n + 1
      BY <2>2, <2>5, <3>2
    <3> QED
      BY <2>1, <3>1, <3>2
  <2>7. later = [k \in 1 .. n + 1 |-> later[k]]
    BY <2>1, <2>2
  <2> QED
    BY <2>3, <2>6, <2>7 DEF new
<1> HIDE DEF out, later
<1>8. lastFired' \in [Pods -> Seq(Clocks)] /\ lastFired'[p] = out
      /\ \A d \in Pods \ {p} : lastFired'[d] = lastFired[d]
  BY <1>4, <1>6 DEF CInv
<1>9. ASSUME NEW d \in Pods
      PROVE  /\ Remembers(lastFired'[d], Stamps(fires'[d]), MaxFamilies, {})
             /\ Apart(Stamps(fires'[d]))
  BY <1>4, <1>5, <1>6, <1>7, <1>8 DEF CInv
<1> QED
  BY <1>8, <1>9 DEF CInv

(* A step pages nothing, writes down what came of a page, or stamps the    *)
(* clock of the rule and family it pages for.                              *)
StampsAndPages(p, r) ==
  /\ stage[p] # "idle" /\ ~InCooldown(p, r)
  /\ \E via \in {"store", "tracker", "rule"} : Fire(p, r, via)

PagesNothing ==
  /\ lastFired' = lastFired
  /\ fires' = fires \/ \E p \in Pods, note \in Notes : Noted(p, note)

LEMMA NewRuleKinds ==
  ASSUME NEW p \in Pods, Marked(p) \/ MarkFails(p)
  PROVE  PagesNothing \/ StampsAndPages(p, "new")
<1>1. stage[p] # "idle"
  BY DEF Marked, MarkFails
<1> QED
  BY <1>1 DEF Marked, MarkFails, FireIfNew, PagesNothing, StampsAndPages

(* Outside of the new-exception rule, the store, the trackers and the      *)
(* sightings stay as they are.                                             *)
Unseen == UNCHANGED <<seen, tracker, sightings>>

LEMMA OtherKinds ==
  ASSUME IInv, [Next]_vars, \A p \in Pods : ~Marked(p) /\ ~MarkFails(p)
  PROVE  Unseen /\ (PagesNothing \/ \E p \in Pods : StampsAndPages(p, "every"))
<1>1. ASSUME NEW p \in Pods, Every(p) PROVE Unseen /\ (PagesNothing \/ StampsAndPages(p, "every"))
  BY <1>1 DEF Every, Unseen, PagesNothing, StampsAndPages
<1>2. ASSUME NEW p \in Pods, Built(p) PROVE Unseen /\ PagesNothing
  <2>1. Family(p) \in Families
    BY <1>2, HeadTyped DEF IInv, Built
  <2>2. outcome[p][Family(p)] \in Notes
    BY <2>1 DEF IInv, Typed, Notes
  <2>3. fires' = fires \/ \E note \in Notes : Noted(p, note)
    BY <1>2, <2>2 DEF Built, AskForNote, Notes
  <2> QED
    BY <1>2, <2>3 DEF Built, memoryVars, Unseen, PagesNothing
<1>3. ASSUME NEW p \in Pods, BuildFails(p) \/ Grace(p) PROVE Unseen /\ PagesNothing
  BY <1>3 DEF BuildFails, Grace, memoryVars, Unseen, PagesNothing, Notes
<1>4. ASSUME NEW p \in Pods, Sent(p) \/ Flush(p) PROVE Unseen /\ PagesNothing
  BY <1>4 DEF Sent, Flush, memoryVars, historyVars, Unseen, PagesNothing
<1>5. ASSUME NEW p \in Pods, NEW f \in Families, Diagnosed(p, f)
      PROVE  Unseen /\ PagesNothing
  BY <1>5 DEF Diagnosed, memoryVars, Unseen, PagesNothing, Notes
<1>6. ASSUME NEW p \in Pods, NEW f \in Families, OnDemand(p, f)
      PROVE  Unseen /\ PagesNothing
  BY <1>6 DEF OnDemand, alerterVars, memoryVars, historyVars, Unseen, PagesNothing
<1>7. CASE Tick \/ UNCHANGED vars
  BY <1>7 DEF Tick, vars, alerterVars, memoryVars, historyVars, Unseen, PagesNothing
<1> QED
  BY <1>1, <1>2, <1>3, <1>4, <1>5, <1>6, <1>7 DEF Next, Evaluate

LEMMA ClockStep == IInv /\ CInv /\ [Next]_vars => CInv'
<1> SUFFICES ASSUME IInv, CInv, [Next]_vars PROVE CInv'
  OBVIOUS
<1>1. PagesNothing \/ \E p \in Pods, r \in {"new", "every"} : StampsAndPages(p, r)
  BY NewRuleKinds, OtherKinds
<1>2. CASE PagesNothing
  <2>1. fires' \in [Pods -> Seq(Pages)]
    BY Step DEF IInv, Typed
  <2>2. fires' = fires \/ SameButNotes
    BY <1>2, NotedSame DEF PagesNothing
  <2> QED
    BY <1>2, <2>1, <2>2, SameClocks DEF PagesNothing
<1>3. CASE \E p \in Pods, r \in {"new", "every"} : StampsAndPages(p, r)
  BY <1>3, FireClocks DEF StampsAndPages
<1> QED
  BY <1>1, <1>2, <1>3

LEMMA ClockInit == Init => CInv
<1> SUFFICES ASSUME Init PROVE CInv
  OBVIOUS
<1>1. MaxFamilies \in Nat \ {0}
  BY AlerterAssumption
<1>2. ASSUME NEW p \in Pods
      PROVE  /\ lastFired[p] = <<>> /\ fires[p] = <<>>
             /\ DOMAIN Stamps(fires[p]) = {}
  BY DEF Init, Empty, Stamps
<1>3. ASSUME NEW p \in Pods
      PROVE  Remembers(lastFired[p], Stamps(fires[p]), MaxFamilies, {})
  BY <1>1, <1>2 DEF Remembers, KeysDiffer
<1>4. ASSUME NEW p \in Pods PROVE Apart(Stamps(fires[p]))
  BY <1>2 DEF Apart
<1>5. lastFired \in [Pods -> Seq(Clocks)]
  BY DEF Init, Empty
<1> QED
  BY <1>3, <1>4, <1>5 DEF CInv

(* A pod pages again for a family within the cooldown only if so many      *)
(* others fired in between that the family's clock was evicted.            *)
THEOREM CooldownIsKept == Spec => []CooldownKept
<1>1. IInv /\ CInv => CooldownKept
  BY ClocksSuffice
<1>2. Spec => []IInv
  BY InitInv, Step, PTL DEF Spec
<1>3. Spec => []CInv
  BY <1>2, ClockInit, ClockStep, PTL DEF Spec
<1> QED
  BY <1>1, <1>2, <1>3, PTL

TrackerTyped ==
  /\ tracker \in [Pods -> Seq([key : Families, at : Nat])]
  /\ \A p \in Pods : KeysDiffer(tracker[p]) /\ Len(tracker[p]) <= MaxFamilies

(* Whatever a memory holds of a family is a sighting of it.                *)
Sighted ==
  /\ sightings \subseteq [fam : Families, at : Nat]
  /\ \A f \in Families : seen[f] # Never => [fam |-> f, at |-> seen[f]] \in sightings
  /\ \A p \in Pods : \A i \in DOMAIN tracker[p] :
       [fam |-> tracker[p][i].key, at |-> tracker[p][i].at] \in sightings
  /\ \A p \in Pods, f \in Families : \A i \in DOMAIN lastFired[p] :
       lastFired[p][i].key = <<"new", f>> =>
         [fam |-> f, at |-> lastFired[p][i].at] \in sightings

SInv == TrackerTyped /\ Sighted /\ PagedOrLost

(* Pages stay, so that what a sighting paged for, it goes on having paged  *)
(* for.                                                                    *)
PagesStay ==
  \A p \in Pods : \A i \in DOMAIN fires[p] :
    /\ i \in DOMAIN fires'[p]
    /\ fires'[p][i].rule = fires[p][i].rule /\ fires'[p][i].fam = fires[p][i].fam
    /\ fires'[p][i].at = fires[p][i].at

LEMMA StepKeepsPages ==
  ASSUME IInv, PagesNothing \/ \E p \in Pods, r \in {"new", "every"} : StampsAndPages(p, r)
  PROVE  PagesStay
<1>1. CASE fires' = fires
  BY <1>1 DEF PagesStay
<1>2. CASE \E p \in Pods, note \in Notes : Noted(p, note)
  BY <1>2, NotedSame DEF PagesStay, SameButNotes
<1>3. ASSUME NEW p \in Pods, NEW r \in {"new", "every"},
             NEW via \in {"store", "tracker", "rule"}, Fire(p, r, via)
      PROVE  PagesStay
  BY <1>3 DEF Fire, IInv, Typed, PagesStay
<1> QED
  BY <1>1, <1>2, <1>3 DEF PagesNothing, StampsAndPages

(* The page of a sighting.                                                 *)
HasPage(s) ==
  \E p \in Pods : \E i \in DOMAIN fires[p] :
    fires[p][i].rule = "new" /\ fires[p][i].fam = s.fam /\ fires[p][i].at = s.at

HasRival(s) ==
  \E t \in sightings :
    t # s /\ t.fam = s.fam /\ (s.at - t.at < Window \/ s.at - t.at < Cooldown)

LEMMA PagedForAlt ==
  ASSUME NEW s PROVE /\ PagedFor(s, {}) <=> HasRival(s) \/ HasPage(s)
                     /\ PagedFor(s, {})' <=> HasRival(s)' \/ HasPage(s)'
<1>1. HasPage(s) <=>
        \E e \in Fires : e.rule = "new" /\ e.fam = s.fam /\ e.at = s.at /\ e.note \notin {}
  BY DEF HasPage, Fires
<1>2. HasPage(s)' <=>
        (\E e \in Fires : e.rule = "new" /\ e.fam = s.fam /\ e.at = s.at /\ e.note \notin {})'
  BY DEF HasPage, Fires
<1> QED
  BY <1>1, <1>2 DEF PagedFor, HasRival

LEMMA PagedStays ==
  ASSUME PagesStay, sightings \subseteq sightings', NEW s, PagedFor(s, {})
  PROVE  PagedFor(s, {})'
<1>1. HasRival(s) => HasRival(s)'
  BY DEF HasRival
<1>2. HasPage(s) => HasPage(s)'
  BY DEF HasPage, PagesStay
<1> QED
  BY <1>1, <1>2, PagedForAlt

(* What a new stamp brings into a memory.                                  *)
LEMMA PutHolds ==
  ASSUME NEW E, NEW map \in Seq(E), KeysDiffer(map), NEW cap \in Nat \ {0}, Len(map) <= cap,
         NEW key, NEW at, [key |-> key, at |-> at] \in E,
         NEW out, out = Put(map, key, at, cap)
  PROVE  /\ out \in Seq(E) /\ KeysDiffer(out) /\ Len(out) <= cap
         /\ \A m \in DOMAIN out :
              \/ out[m] = [key |-> key, at |-> at]
              \/ \E k \in DOMAIN map : out[m] = map[k]
<1>1. PICK pair \in E : pair = [key |-> key, at |-> at] /\ pair.key = key
  OBVIOUS
<1>2. /\ out \in Seq(E) /\ Len(out) \in 1 .. cap /\ out[Len(out)] = pair
      /\ \E from : Keeps(map, out, key, cap, from)
  BY <1>1, PutShape
<1>3. PICK from : Keeps(map, out, key, cap, from)
  BY <1>2
<1>4. Len(out) \in Nat \ {0} /\ Len(out) <= cap /\ DOMAIN out = 1 .. Len(out)
  BY <1>2
<1>5. KeysDiffer(out)
  BY <1>1, <1>2, <1>3, <1>4, PutDiffer
<1>6. ASSUME NEW m \in 1 .. Len(out), m # Len(out)
      PROVE  \E k \in DOMAIN map : out[m] = map[k]
  <2> DEFINE p == Len(out)
  <2>1. p \in Nat \ {0} /\ m \in 1 .. p /\ m # p
    BY <1>4, <1>6
  <2> HIDE DEF p
  <2>2. m \in 1 .. p - 1
    BY <2>1
  <2> QED
    BY <1>3, <2>2 DEF Keeps, p
<1> QED
  BY <1>1, <1>2, <1>4, <1>5, <1>6

(* The clocks after a step.                                                *)
LEMMA ClocksSighted ==
  ASSUME IInv, CInv, Sighted, sightings \subseteq sightings',
         \/ PagesNothing
         \/ \E p \in Pods : StampsAndPages(p, "every")
         \/ \E p \in Pods : /\ StampsAndPages(p, "new")
                            /\ [fam |-> Family(p), at |-> Stamp(p)] \in sightings'
  PROVE  \A p \in Pods, f \in Families : \A i \in DOMAIN lastFired'[p] :
           lastFired'[p][i].key = <<"new", f>> =>
             [fam |-> f, at |-> lastFired'[p][i].at] \in sightings'
<1>1. CASE PagesNothing
  BY <1>1 DEF PagesNothing, Sighted
<1>2. ASSUME NEW p \in Pods, NEW r \in {"new", "every"}, StampsAndPages(p, r),
             r = "new" => [fam |-> Family(p), at |-> Stamp(p)] \in sightings',
             NEW d \in Pods, NEW f \in Families, NEW i \in DOMAIN lastFired'[d],
             lastFired'[d][i].key = <<"new", f>>
      PROVE  [fam |-> f, at |-> lastFired'[d][i].at] \in sightings'
  <2> DEFINE map == lastFired[p]
             key == <<r, Family(p)>>
             at  == Stamp(p)
             out == Put(map, key, at, MaxFamilies)
  <2>1. Family(p) \in Families /\ at \in Nat /\ MaxFamilies \in Nat \ {0}
    BY <1>2, HeadTyped, AlerterAssumption DEF StampsAndPages, IInv
  <2>2. key \in Keys /\ [key |-> key, at |-> at] \in Clocks
    BY <2>1 DEF Keys, Clocks
  <2>3. lastFired' = [lastFired EXCEPT ![p] = out]
    BY <1>2 DEF StampsAndPages, Fire
  <2>4. map \in Seq(Clocks) /\ KeysDiffer(map) /\ Len(map) <= MaxFamilies
    BY DEF CInv, Remembers
  <2>5. \A m \in DOMAIN out :
          \/ out[m] = [key |-> key, at |-> at]
          \/ \E k \in DOMAIN map : out[m] = map[k]
    <3> HIDE DEF map, key, at
    <3> QED
      BY <2>1, <2>2, <2>4, PutHolds
  <2> HIDE DEF out
  <2>6. CASE d # p
    <3>1. lastFired'[d] = lastFired[d]
      BY <2>3, <2>6 DEF CInv
    <3> QED
      BY <1>2, <3>1 DEF Sighted
  <2>7. CASE d = p
    <3>1. lastFired'[d] = out
      BY <2>3, <2>7 DEF CInv
    <3>2. CASE out[i] = [key |-> key, at |-> at]
      <4>1. r = "new" /\ Family(p) = f /\ lastFired'[d][i].at = at
        BY <1>2, <3>1, <3>2
      <4> QED
        BY <1>2, <4>1
    <3>3. CASE \E k \in DOMAIN map : out[i] = map[k]
      BY <1>2, <2>7, <3>1, <3>3 DEF Sighted
    <3> QED
      BY <1>2, <2>5, <3>1, <3>2, <3>3
  <2> QED
    BY <2>6, <2>7
<1> QED
  BY <1>1, <1>2

(* The new-exception rule has looked at an entry: it pages, or one of the  *)
(* memories holds a sighting it is too close to.                           *)
LEMMA NewRuleSights ==
  ASSUME IInv, CInv, SInv, NEW p \in Pods, Marked(p) \/ MarkFails(p)
  PROVE  SInv'
<1>0. stage[p] = "asking" /\ Family(p) \in Families /\ Stamp(p) \in Nat
  BY HeadTyped DEF Marked, MarkFails, IInv
<1>a. PICK f \in Families : f = Family(p)
  BY <1>0
<1>b. PICK at \in Nat : at = Stamp(p)
  BY <1>0
<1> DEFINE s == [fam |-> f, at |-> at]
<1>1. MaxFamilies \in Nat \ {0} /\ Never \notin Int
  BY AlerterAssumption, DiagnosisAssumption
<1>2. /\ sightings' = sightings \cup {s}
      /\ MoveSeen(p) \/ UNCHANGED seen
      /\ tracker' = tracker \/ tracker' = [tracker EXCEPT ![p] = Put(@, f, at, MaxFamilies)]
  BY <1>a, <1>b DEF Marked, MarkFails, FireIfNew
<1>3. s \in [fam : Families, at : Nat] /\ s.fam = f /\ s.at = at
  BY <1>1
<1> HIDE DEF s
<1>4. PagesNothing \/ StampsAndPages(p, "new")
  BY NewRuleKinds
<1>5. TrackerTyped' /\ \A d \in Pods : \A i \in DOMAIN tracker'[d] :
        [fam |-> tracker'[d][i].key, at |-> tracker'[d][i].at] \in sightings'
  <2>1. CASE tracker' = tracker
    BY <1>2, <2>1 DEF SInv, TrackerTyped, Sighted
  <2>2. CASE tracker' = [tracker EXCEPT ![p] = Put(@, f, at, MaxFamilies)]
    <3> DEFINE E == [key : Families, at : Nat]
               map == tracker[p]
               out == Put(map, f, at, MaxFamilies)
    <3>1. map \in Seq(E) /\ KeysDiffer(map) /\ Len(map) <= MaxFamilies
          /\ [key |-> f, at |-> at] \in E
      BY <1>1 DEF SInv, TrackerTyped
    <3>2. /\ out \in Seq(E) /\ KeysDiffer(out) /\ Len(out) <= MaxFamilies
          /\ \A m \in DOMAIN out :
               \/ out[m] = [key |-> f, at |-> at]
               \/ \E k \in DOMAIN map : out[m] = map[k]
      <4> HIDE DEF E, map
      <4> QED
        BY <1>1, <3>1, PutHolds
    <3>3. tracker' = [tracker EXCEPT ![p] = out]
      BY <2>2
    <3> HIDE DEF out
    <3>4. TrackerTyped'
      BY <3>2, <3>3 DEF SInv, TrackerTyped
    <3>5. ASSUME NEW d \in Pods, NEW i \in DOMAIN tracker'[d]
          PROVE  [fam |-> tracker'[d][i].key, at |-> tracker'[d][i].at] \in sightings'
      <4>1. CASE d # p
        <5>1. tracker'[d] = tracker[d]
          BY <3>3, <4>1 DEF SInv, TrackerTyped
        <5> QED
          BY <1>2, <3>5, <5>1 DEF SInv, Sighted
      <4>2. CASE d = p
        <5>1. tracker'[d] = out
          BY <3>3, <4>2 DEF SInv, TrackerTyped
        <5>2. CASE out[i] = [key |-> f, at |-> at]
          BY <1>2, <5>1, <5>2 DEF s
        <5>3. CASE \E k \in DOMAIN map : out[i] = map[k]
          BY <1>2, <5>1, <5>3 DEF SInv, Sighted
        <5> QED
          BY <3>2, <3>5, <5>1, <5>2, <5>3
      <4> QED
        BY <4>1, <4>2
    <3> QED
      BY <3>4, <3>5
  <2> QED
    BY <1>2, <2>1, <2>2
<1>6. Sighted'
  <2>1. sightings' \subseteq [fam : Families, at : Nat]
    BY <1>2, <1>3 DEF SInv, Sighted
  <2>2. ASSUME NEW g \in Families, seen'[g] # Never
        PROVE  [fam |-> g, at |-> seen'[g]] \in sightings'
    <3>1. seen' = seen \/ seen' = [seen EXCEPT ![f] = at]
          \/ (seen[f] # Never /\ seen' = [seen EXCEPT ![f] = seen[f]])
      BY <1>2, <1>a, <1>b DEF MoveSeen
    <3>2. seen'[g] = seen[g] \/ (g = f /\ seen'[g] = at)
      BY <1>1, <3>1 DEF IInv, Typed
    <3> QED
      BY <1>2, <2>2, <3>2 DEF SInv, Sighted, s
  <2>3. \A d \in Pods, g \in Families : \A i \in DOMAIN lastFired'[d] :
          lastFired'[d][i].key = <<"new", g>> =>
            [fam |-> g, at |-> lastFired'[d][i].at] \in sightings'
    BY <1>2, <1>4, <1>a, <1>b, ClocksSighted DEF SInv, s
  <2> QED
    BY <1>5, <2>1, <2>2, <2>3 DEF Sighted
<1>7. PagesStay
  BY <1>4, StepKeepsPages
<1>8. ASSUME NEW t \in sightings PROVE PagedFor(t, {})'
  BY <1>2, <1>7, PagedStays DEF SInv, PagedOrLost
<1>9. ASSUME NEW b, [fam |-> f, at |-> b] \in sightings,
             at - b < Window \/ at - b < Cooldown
      PROVE  PagedFor(s, {})'
  <2> DEFINE t == [fam |-> f, at |-> b]
  <2>1. CASE t = s
    BY <1>8, <1>9, <2>1
  <2>2. CASE t # s
    <3>1. t \in sightings' /\ t.fam = s.fam /\ (s.at - t.at < Window \/ s.at - t.at < Cooldown)
      BY <1>2, <1>3, <1>9
    <3>2. HasRival(s)'
      BY <2>2, <3>1 DEF HasRival
    <3> QED
      BY <3>2, PagedForAlt
  <2> QED
    BY <2>1, <2>2
<1>10. PagedFor(s, {})'
  <2>1. CASE \E via \in {"store", "tracker", "rule"} : Fire(p, "new", via)
    <3>1. PICK page \in Pages :
            /\ page.rule = "new" /\ page.fam = f /\ page.at = at
            /\ fires' = [fires EXCEPT ![p] = Append(@, page)]
      BY <1>a, <1>b, <2>1 DEF Fire, Pages, Notes
    <3>2. /\ Len(fires[p]) + 1 \in DOMAIN fires'[p]
          /\ fires'[p][Len(fires[p]) + 1] = page
      BY <3>1 DEF IInv, Typed
    <3>3. HasPage(s)'
      BY <1>3, <3>1, <3>2 DEF HasPage
    <3> QED
      BY <3>3, PagedForAlt
  <2>2. CASE Marked(p) /\ ~NewToStore(p)
    <3>1. seen[f] # Never /\ at - seen[f] < Window
      BY <1>a, <1>b, <2>2, AlerterAssumption DEF NewToStore, IInv, Typed
    <3> QED
      BY <1>1, <1>9, <3>1 DEF SInv, Sighted
  <2>3. CASE MarkFails(p) /\ ~NewToTracker(p)
    <3> DEFINE i == Position(tracker[p], f)
    <3>1. Holds(tracker[p], f) /\ ~(at - tracker[p][i].at >= Window)
      BY <1>a, <1>b, <2>3 DEF NewToTracker, At
    <3>2. i \in DOMAIN tracker[p] /\ tracker[p][i].key = f
      BY <3>1 DEF Holds, Position
    <3> HIDE DEF i
    <3>3. [fam |-> f, at |-> tracker[p][i].at] \in sightings
      BY <3>2 DEF SInv, Sighted
    <3>4. tracker[p][i].at \in Nat
      <4> DEFINE E == [key : Families, at : Nat]
      <4>1. tracker[p] \in Seq(E)
        BY DEF SInv, TrackerTyped
      <4> HIDE DEF E
      <4>2. tracker[p][i] \in E
        BY <3>2, <4>1
      <4> QED
        BY <4>2 DEF E
    <3>5. at - tracker[p][i].at < Window
      BY <1>1, <3>1, <3>4, AlerterAssumption
    <3> QED
      BY <1>9, <3>3, <3>5
  <2>4. CASE InCooldown(p, "new")
    <3> DEFINE i == Position(lastFired[p], <<"new", f>>)
    <3>1. Holds(lastFired[p], <<"new", f>>) /\ at - lastFired[p][i].at < Cooldown
      BY <1>a, <1>b, <2>4 DEF InCooldown, At
    <3>2. i \in DOMAIN lastFired[p] /\ lastFired[p][i].key = <<"new", f>>
      BY <3>1 DEF Holds, Position
    <3> HIDE DEF i
    <3>3. [fam |-> f, at |-> lastFired[p][i].at] \in sightings
      BY <1>1, <3>2 DEF SInv, Sighted
    <3> QED
      BY <1>9, <3>1, <3>3
  <2> QED
    BY <2>1, <2>2, <2>3, <2>4 DEF Marked, MarkFails, FireIfNew
<1>11. PagedOrLost'
  BY <1>2, <1>8, <1>10 DEF PagedOrLost
<1> QED
  BY <1>5, <1>6, <1>11 DEF SInv

LEMMA SightStep == IInv /\ CInv /\ SInv /\ [Next]_vars => SInv'
<1> SUFFICES ASSUME IInv, CInv, SInv, [Next]_vars PROVE SInv'
  OBVIOUS
<1>1. CASE \E p \in Pods : Marked(p) \/ MarkFails(p)
  BY <1>1, NewRuleSights
<1>2. CASE \A p \in Pods : ~Marked(p) /\ ~MarkFails(p)
  <2>1. Unseen /\ (PagesNothing \/ \E p \in Pods : StampsAndPages(p, "every"))
    BY <1>2, OtherKinds
  <2>2. \A p \in Pods, f \in Families : \A i \in DOMAIN lastFired'[p] :
          lastFired'[p][i].key = <<"new", f>> =>
            [fam |-> f, at |-> lastFired'[p][i].at] \in sightings'
    BY <2>1, ClocksSighted DEF Unseen, SInv
  <2>3. TrackerTyped' /\ Sighted'
    BY <2>1, <2>2 DEF Unseen, SInv, TrackerTyped, Sighted
  <2>4. PagesStay
    BY <2>1, StepKeepsPages
  <2>5. PagedOrLost'
    BY <2>1, <2>4, PagedStays DEF Unseen, SInv, PagedOrLost
  <2> QED
    BY <2>3, <2>5 DEF SInv
<1> QED
  BY <1>1, <1>2

LEMMA SightInit == Init => SInv
<1> SUFFICES ASSUME Init PROVE SInv
  OBVIOUS
<1>1. MaxFamilies \in Nat \ {0}
  BY AlerterAssumption
<1>2. \A p \in Pods : tracker[p] = <<>> /\ lastFired[p] = <<>>
  BY DEF Init, Empty
<1>3. TrackerTyped
  BY <1>1, <1>2 DEF Init, Empty, TrackerTyped, KeysDiffer
<1>4. Sighted
  BY <1>2 DEF Init, Sighted
<1>5. PagedOrLost
  BY DEF Init, PagedOrLost
<1> QED
  BY <1>3, <1>4, <1>5 DEF SInv

(* No sighting is silenced by a failing markFamilySeen, a sliding window,  *)
(* a tracker or a cooldown clock, but by another sighting of its family    *)
(* less than a window or a cooldown away: it paged, unless a failed read   *)
(* of the payload lost the page.                                           *)
THEOREM SightingsPage == Spec => []PagedOrLost
<1>1. SInv => PagedOrLost
  BY DEF SInv
<1>2. Spec => [](IInv /\ CInv)
  BY InitInv, Step, ClockInit, ClockStep, PTL DEF Spec
<1>3. Spec => []SInv
  BY <1>2, SightInit, SightStep, PTL DEF Spec
<1> QED
  BY <1>1, <1>3, PTL

-----------------------------------------------------------------------------
(* The coordinator's cache.                                                *)

Entries == [key : Families, at : Nat]

(* Runs succeed in the order of their times.                               *)
Dated(hist, t) ==
  \A i \in DOMAIN hist :
    /\ hist[i].at <= t
    /\ \A j \in DOMAIN hist : i < j => hist[i].at <= hist[j].at

(* What a read of the cache at t is too late for.                          *)
Expired(hist, t) == {i \in DOMAIN hist : t - hist[i].at >= CacheTTL}

(* The cache remembers the runs that succeeded, but for the expired ones.  *)
CacheInv ==
  /\ cache \in [Pods -> Seq(Entries)]
  /\ succeeded \in [Pods -> Seq(Entries)]
  /\ \A p \in Pods : /\ Dated(succeeded[p], now)
                     /\ Remembers(cache[p], succeeded[p], CacheMax,
                                  Expired(succeeded[p], now))

(* No run of a key is later than the one the cache holds.                  *)
LEMMA HeldIsLatest ==
  ASSUME NEW map \in Seq(Entries), NEW hist \in Seq(Entries), NEW t, Dated(hist, t),
         NEW cap, NEW gone, Remembers(map, hist, cap, gone),
         NEW m \in DOMAIN map, NEW i \in DOMAIN hist, hist[i].key = map[m].key
  PROVE  hist[i].at \in Nat /\ map[m].at \in Nat /\ hist[i].at <= map[m].at
<1>1. PICK l \in DOMAIN hist : hist[l] = map[m] /\ LastFor(hist, l)
  BY DEF Remembers
<1>2. hist[i] \in Entries /\ hist[l] \in Entries
  OBVIOUS
<1>3. hist[i].at \in Nat /\ hist[l].at \in Nat
  BY <1>2 DEF Entries
<1>4. /\ DOMAIN hist = 1 .. Len(hist) /\ Len(hist) \in Nat
      /\ i \in 1 .. Len(hist) /\ l \in 1 .. Len(hist)
  OBVIOUS
<1>5. ~(l < i)
  <2> SUFFICES ASSUME l < i PROVE FALSE
    OBVIOUS
  <2>1. i \in l + 1 .. Len(hist)
    BY <1>4
  <2> QED
    BY <1>1, <2>1 DEF LastFor
<1>6. CASE i = l
  BY <1>1, <1>3, <1>6
<1>7. CASE i < l
  BY <1>1, <1>3, <1>7 DEF Dated
<1> QED
  BY <1>4, <1>5, <1>6, <1>7

(* The pod finds what it still knows.                                      *)
LEMMA KnownIsFresh ==
  ASSUME CacheInv, now \in Nat, NEW p \in Pods, NEW f \in Families, StillKnown(p, f)
  PROVE  Fresh(p, f)
<1> DEFINE map == cache[p]
           hist == succeeded[p]
<1>1. PICK i \in DOMAIN hist :
        /\ hist[i].key = f /\ now - hist[i].at < CacheTTL
        /\ Cardinality({hist[j].key : j \in i + 1 .. Len(hist)} \ {f}) < CacheMax
  BY DEF StillKnown
<1>2. /\ map \in Seq(Entries) /\ hist \in Seq(Entries) /\ Dated(hist, now)
      /\ Remembers(map, hist, CacheMax, Expired(hist, now))
  BY DEF CacheInv
<1>3. CacheTTL \in Nat /\ CacheMax \in Nat
  BY DiagnosisAssumption
<1> HIDE DEF map, hist
<1>4. hist[i].at \in Nat /\ i \notin Expired(hist, now)
  <2>1. hist[i] \in Entries
    BY <1>2
  <2>2. hist[i].at \in Nat
    BY <2>1 DEF Entries
  <2>3. ~(now - hist[i].at >= CacheTTL)
    BY <1>1, <1>3, <2>2
  <2> QED
    BY <2>2, <2>3 DEF Expired
<1>5. ~(Cardinality(KeysAfter(hist, i) \ {hist[i].key}) >= CacheMax)
  <2> DEFINE others == KeysAfter(hist, i) \ {hist[i].key}
  <2>1. others = {hist[j].key : j \in i + 1 .. Len(hist)} \ {f}
    BY <1>1 DEF KeysAfter
  <2>2. Cardinality(others) \in Nat
    BY <1>2, KeysAfterFinite, FS_CardinalityType
  <2> HIDE DEF others
  <2>3. Cardinality(others) < CacheMax
    BY <1>1, <2>1, Zenon
  <2>4. ~(Cardinality(others) >= CacheMax)
    BY <1>3, <2>2, <2>3
  <2> QED
    BY <2>4 DEF others
<1>6. Holds(map, f)
  BY <1>1, <1>2, <1>4, <1>5 DEF Remembers
<1> DEFINE m == Position(map, f)
<1>7. m \in DOMAIN map /\ map[m].key = f
  BY <1>6 DEF Holds, Position
<1> HIDE DEF m
<1>8. hist[i].at \in Nat /\ map[m].at \in Nat /\ hist[i].at <= map[m].at
  BY <1>1, <1>2, <1>7, HeldIsLatest
<1>9. now - map[m].at < CacheTTL
  BY <1>1, <1>3, <1>8
<1> QED
  BY <1>6, <1>9 DEF Fresh, At, map, m

(* With an entry that is not fresh, every run of its key has expired.      *)
LEMMA StaleIsExpired ==
  ASSUME CacheInv, now \in Nat, NEW p \in Pods, NEW k \in DOMAIN cache[p],
         ~Fresh(p, cache[p][k].key),
         NEW i \in DOMAIN succeeded[p], succeeded[p][i].key = cache[p][k].key
  PROVE  i \in Expired(succeeded[p], now)
<1> DEFINE map == cache[p]
           hist == succeeded[p]
           key == map[k].key
<1>1. /\ map \in Seq(Entries) /\ hist \in Seq(Entries) /\ Dated(hist, now)
      /\ Remembers(map, hist, CacheMax, Expired(hist, now))
  BY DEF CacheInv
<1>2. Holds(map, key) /\ Position(map, key) = k
  <2>1. \A m \in DOMAIN map : map[m].key = key <=> m = k
    BY <1>1 DEF Remembers, KeysDiffer
  <2> QED
    BY <2>1 DEF Holds, Position
<1>3. ~(now - map[k].at < CacheTTL)
  BY <1>2 DEF Fresh, At
<1>4. hist[i].at \in Nat /\ map[k].at \in Nat /\ hist[i].at <= map[k].at
  <2> HIDE DEF map, hist
  <2> QED
    BY <1>1, HeldIsLatest DEF map, hist
<1>5. now - hist[i].at >= CacheTTL
  BY <1>3, <1>4, DiagnosisAssumption
<1> QED
  BY <1>5 DEF Expired

(* A pod's cache loses entries that are not fresh, and no others.          *)
ThinsTo(p, out, from) ==
  /\ cache' = [cache EXCEPT ![p] = out]
  /\ Thins(cache[p], out, from)
  /\ \A k \in DOMAIN cache[p] :
       (\E m \in 1 .. Len(out) : from[m] = k) \/ ~Fresh(p, cache[p][k].key)

Forgets(p) == \E out \in Seq(Entries) : \E from : ThinsTo(p, out, from)

(* What a step does to the caches.                                         *)
CacheKinds ==
  \/ UNCHANGED <<cache, succeeded>> /\ now' \in Nat /\ now' >= now
  \/ UNCHANGED <<succeeded, now>> /\ \E p \in Pods : Forgets(p)
  \/ UNCHANGED now /\ \E p \in Pods, f \in Families : Keep(p, f)

LEMMA AfterGetForgets ==
  ASSUME CacheInv, NEW p \in Pods, NEW f, cache' = [cache EXCEPT ![p] = AfterGet(p, f)]
  PROVE  cache' = cache \/ Forgets(p)
<1>1. cache[p] \in Seq(Entries) /\ KeysDiffer(cache[p])
  BY DEF CacheInv, Remembers
<1>2. CASE Fresh(p, f)
  BY <1>2 DEF AfterGet, CacheInv
<1>3. CASE ~Fresh(p, f)
  <2>1. PICK out : out = Without(cache[p], f)
    OBVIOUS
  <2>2. out \in Seq(Entries) /\ cache' = [cache EXCEPT ![p] = out]
    BY <1>1, <1>3, <2>1, WithoutThins DEF AfterGet
  <2>3. PICK from : /\ Thins(cache[p], out, from)
                    /\ \A k \in DOMAIN cache[p] :
                         cache[p][k].key = f \/ \E m \in 1 .. Len(out) : from[m] = k
    BY <1>1, <2>1, WithoutThins
  <2>4. \A k \in DOMAIN cache[p] :
          (\E m \in 1 .. Len(out) : from[m] = k) \/ ~Fresh(p, cache[p][k].key)
    BY <1>3, <2>3
  <2> QED
    <3>1. ThinsTo(p, out, from)
      BY <2>2, <2>3, <2>4 DEF ThinsTo
    <3> QED
      BY <2>2, <3>1 DEF Forgets
<1> QED
  BY <1>2, <1>3

LEMMA ObserveForgets ==
  ASSUME CacheInv, NEW p \in Pods, NEW S, ObserveFlush(p, S)
  PROVE  cache' = cache \/ Forgets(p)
<1>1. CASE p \notin AutoPods
  BY <1>1 DEF ObserveFlush
<1>2. CASE p \in AutoPods
  <2>0. cache[p] \in Seq(Entries)
    BY DEF CacheInv
  <2> DEFINE keys == {f \in Families : f \in S /\ NewToPod(p, f) => Fresh(p, f)}
  <2>1. PICK out : out = Retain(cache[p], keys)
    OBVIOUS
  <2>2. cache' = [cache EXCEPT ![p] = out]
    BY <1>2, <2>1 DEF ObserveFlush
  <2> HIDE DEF keys
  <2>3. out \in Seq(Entries)
    BY <2>0, <2>1, RetainThins
  <2>4. PICK from : /\ Thins(cache[p], out, from)
                    /\ \A k \in DOMAIN cache[p] :
                         cache[p][k].key \notin keys \/ \E m \in 1 .. Len(out) : from[m] = k
    BY <2>0, <2>1, RetainThins
  <2>5. ASSUME NEW k \in DOMAIN cache[p], cache[p][k].key \notin keys
        PROVE  ~Fresh(p, cache[p][k].key)
    <3>1. cache[p][k] \in Entries
      BY <2>0
    <3>2. cache[p][k].key \in Families
      BY <3>1 DEF Entries
    <3> QED
      BY <2>5, <3>2 DEF keys
  <2>6. \A k \in DOMAIN cache[p] :
          (\E m \in 1 .. Len(out) : from[m] = k) \/ ~Fresh(p, cache[p][k].key)
    BY <2>4, <2>5
  <2> QED
    <3>1. ThinsTo(p, out, from)
      BY <2>2, <2>4, <2>6 DEF ThinsTo
    <3> QED
      BY <2>3, <3>1 DEF Forgets
<1> QED
  BY <1>1, <1>2

LEMMA CacheStepKinds ==
  ASSUME IInv, CacheInv, [Next]_vars
  PROVE  CacheKinds
<1>0. now \in Nat
  BY DEF IInv, Typed
<1>1. ASSUME NEW p \in Pods,
             Marked(p) \/ MarkFails(p) \/ Every(p) \/ BuildFails(p) \/ Grace(p) \/ Sent(p)
      PROVE  CacheKinds
  <2>1. UNCHANGED <<cache, succeeded, now>>
    BY <1>1 DEF Marked, MarkFails, FireIfNew, Every, BuildFails, Grace, Sent, diagnosisVars,
                coordinatorVars
  <2> QED
    BY <1>0, <2>1 DEF CacheKinds
<1>2. ASSUME NEW p \in Pods, Built(p) PROVE CacheKinds
  <2>1. UNCHANGED <<succeeded, now>>
    BY <1>2 DEF Built
  <2>2. cache' = cache \/ cache' = [cache EXCEPT ![p] = AfterGet(p, Family(p))]
    BY <1>2 DEF Built, AskForNote
  <2> QED
    BY <1>0, <2>1, <2>2, AfterGetForgets DEF CacheKinds
<1>3. ASSUME NEW p \in Pods, Flush(p) PROVE CacheKinds
  <2>1. UNCHANGED <<succeeded, now>> /\ \E S : ObserveFlush(p, S)
    BY <1>3 DEF Flush, ObserveFlush
  <2> QED
    BY <1>0, <2>1, ObserveForgets DEF CacheKinds
<1>4. ASSUME NEW p \in Pods, NEW f \in Families, Keep(p, f) \/ Fail(p, f), UNCHANGED now
      PROVE  CacheKinds
  BY <1>0, <1>4 DEF Fail, CacheKinds
<1>5. ASSUME NEW p \in Pods, NEW f \in Families, Diagnosed(p, f) PROVE CacheKinds
  BY <1>4, <1>5 DEF Diagnosed, AutoSettles
<1>6. ASSUME NEW p \in Pods, NEW f \in Families, OnDemand(p, f) PROVE CacheKinds
  <2>1. CASE Ask(p, f)
    <3>1. UNCHANGED <<succeeded, now>>
          /\ (cache' = cache \/ cache' = [cache EXCEPT ![p] = AfterGet(p, f)])
      BY <1>6, <2>1 DEF OnDemand, Ask, CacheInv
    <3> QED
      BY <1>0, <3>1, AfterGetForgets DEF CacheKinds
  <2>2. CASE AskSettles(p, f)
    BY <1>4, <1>6, <2>2 DEF OnDemand, AskSettles
  <2> QED
    BY <1>6, <2>1, <2>2 DEF OnDemand
<1>7. CASE Tick \/ UNCHANGED vars
  BY <1>0, <1>7 DEF Tick, vars, diagnosisVars, coordinatorVars, CacheKinds
<1> QED
  BY <1>1, <1>2, <1>3, <1>5, <1>6, <1>7 DEF Next, Evaluate

LEMMA CacheStep == IInv /\ CacheInv /\ [Next]_vars => CacheInv'
<1> SUFFICES ASSUME IInv, CacheInv, [Next]_vars PROVE CacheInv'
  OBVIOUS
<1>0. now \in Nat /\ CacheTTL \in Nat \ {0} /\ CacheMax \in Nat \ {0}
  BY DiagnosisAssumption DEF IInv, Typed
<1>1. CASE UNCHANGED <<cache, succeeded>> /\ now' \in Nat /\ now' >= now
  <2>1. ASSUME NEW p \in Pods
        PROVE  /\ Dated(succeeded[p], now')
               /\ Expired(succeeded[p], now) \subseteq Expired(succeeded[p], now')
    <3>1. \A i \in DOMAIN succeeded[p] : succeeded[p][i].at \in Nat
      <4> TAKE i \in DOMAIN succeeded[p]
      <4>1. succeeded[p][i] \in Entries
        BY DEF CacheInv
      <4> QED
        BY <4>1 DEF Entries
    <3>2. Dated(succeeded[p], now)
      BY DEF CacheInv
    <3>3. \A i \in DOMAIN succeeded[p] :
            /\ succeeded[p][i].at <= now'
            /\ now - succeeded[p][i].at >= CacheTTL => now' - succeeded[p][i].at >= CacheTTL
      BY <1>0, <1>1, <3>1, <3>2 DEF Dated
    <3> QED
      BY <3>2, <3>3 DEF Dated, Expired
  <2>2. ASSUME NEW p \in Pods
        PROVE  Remembers(cache[p], succeeded[p], CacheMax, Expired(succeeded[p], now'))
    BY <2>1, RemembersLess DEF CacheInv
  <2> QED
    BY <1>1, <2>1, <2>2 DEF CacheInv
<1>2. ASSUME NEW p \in Pods, Forgets(p), UNCHANGED <<succeeded, now>>
      PROVE  CacheInv'
  <2>1. PICK out \in Seq(Entries) : \E from : ThinsTo(p, out, from)
    BY <1>2 DEF Forgets
  <2>a. PICK from : ThinsTo(p, out, from)
    BY <2>1
  <2> DEFINE map == cache[p]
             hist == succeeded[p]
             gone == Expired(hist, now)
  <2>2. map \in Seq(Entries) /\ hist \in Seq(Entries) /\ Remembers(map, hist, CacheMax, gone)
        /\ gone \in SUBSET DOMAIN hist
    BY DEF CacheInv, Expired
  <2>3. \A k \in DOMAIN map :
          \/ \E m \in 1 .. Len(out) : from[m] = k
          \/ \A i \in DOMAIN hist : hist[i].key = map[k].key => i \in gone
    BY <1>0, <2>a, StaleIsExpired DEF ThinsTo
  <2>4. Thins(map, out, from)
    BY <2>a DEF ThinsTo
  <2>5. Remembers(out, hist, CacheMax, gone)
    <3> HIDE DEF map, hist, gone
    <3> QED
      BY <1>0, <2>2, <2>3, <2>4, ThinsRemembers
  <2>6. cache' \in [Pods -> Seq(Entries)] /\ cache'[p] = out
        /\ \A d \in Pods \ {p} : cache'[d] = cache[d]
    BY <2>a DEF ThinsTo, CacheInv
  <2> QED
    BY <1>2, <2>5, <2>6 DEF CacheInv
<1>3. ASSUME NEW p \in Pods, NEW f \in Families, Keep(p, f), UNCHANGED now
      PROVE  CacheInv'
  <2> DEFINE map == cache[p]
             hist == succeeded[p]
             gone == Expired(hist, now)
             out == Put(map, f, now, CacheMax)
             later == Append(hist, [key |-> f, at |-> now])
  <2>1. map \in Seq(Entries) /\ hist \in Seq(Entries) /\ Remembers(map, hist, CacheMax, gone)
        /\ gone \in SUBSET DOMAIN hist /\ Dated(hist, now)
        /\ [key |-> f, at |-> now] \in Entries
    BY <1>0 DEF CacheInv, Expired, Entries
  <2>2. /\ cache' = [cache EXCEPT ![p] = out] /\ succeeded' = [succeeded EXCEPT ![p] = later]
    BY <1>3 DEF Keep
  <2>3. out \in Seq(Entries) /\ Remembers(out, later, CacheMax, gone)
    <3> HIDE DEF map, hist, gone
    <3> QED
      BY <1>0, <2>1, PutRemembers
  <2>4. later \in Seq(Entries) /\ Dated(later, now) /\ gone \subseteq Expired(later, now)
    <3> DEFINE n == Len(hist)
    <3>1. PICK pair \in Entries : pair = [key |-> f, at |-> now] /\ pair.at = now
      BY <2>1
    <3>2. /\ later \in Seq(Entries) /\ n \in Nat /\ DOMAIN hist = 1 .. n
          /\ DOMAIN later = 1 .. n + 1 /\ later[n + 1] = pair
          /\ \A i \in 1 .. n : later[i] = hist[i]
      <4> HIDE DEF hist
      <4>1. later = Append(hist, pair)
        BY <3>1
      <4> QED
        BY <2>1, <4>1, AppendProperties
    <3> HIDE DEF n, hist, later
    <3>3. \A i \in 1 .. n : hist[i].at <= now
          /\ \A j \in 1 .. n : i < j => hist[i].at <= hist[j].at
      BY <2>1, <3>2 DEF Dated
    <3>4. \A i \in 1 .. n + 1 : i \in 1 .. n \/ i = n + 1
      BY <3>2
    <3>5. ASSUME NEW i \in 1 .. n + 1
          PROVE  /\ later[i].at <= now
                 /\ \A j \in 1 .. n + 1 : i < j => later[i].at <= later[j].at
      <4>1. CASE i \in 1 .. n
        <5>1. later[i].at <= now /\ later[i] = hist[i]
          BY <3>2, <3>3, <4>1
        <5>2. ASSUME NEW j \in 1 .. n + 1, i < j PROVE later[i].at <= later[j].at
          BY <3>1, <3>2, <3>3, <3>4, <4>1, <5>1, <5>2
        <5> QED
          BY <5>1, <5>2
      <4>2. CASE i = n + 1
        <5>1. \A j \in 1 .. n + 1 : ~(i < j)
          BY <3>2, <4>2
        <5> QED
          BY <1>0, <3>1, <3>2, <4>2, <5>1
      <4> QED
        BY <3>4, <4>1, <4>2
    <3>6. Dated(later, now)
      BY <3>2, <3>5 DEF Dated
    <3>7. gone \subseteq Expired(later, now)
      BY <3>2 DEF Expired
    <3> QED
      BY <3>2, <3>6, <3>7
  <2> HIDE DEF out, later, gone
  <2>5. Remembers(out, later, CacheMax, Expired(later, now))
    BY <2>3, <2>4, RemembersLess
  <2>6. /\ cache' \in [Pods -> Seq(Entries)] /\ cache'[p] = out
        /\ succeeded' \in [Pods -> Seq(Entries)] /\ succeeded'[p] = later
        /\ \A d \in Pods \ {p} : cache'[d] = cache[d] /\ succeeded'[d] = succeeded[d]
    BY <2>2, <2>3, <2>4 DEF CacheInv
  <2> QED
    BY <1>3, <2>4, <2>5, <2>6 DEF CacheInv
<1> QED
  BY <1>1, <1>2, <1>3, CacheStepKinds DEF CacheKinds

LEMMA CacheInit == Init => CacheInv
<1> SUFFICES ASSUME Init PROVE CacheInv
  OBVIOUS
<1>1. cache \in [Pods -> Seq(Entries)] /\ succeeded \in [Pods -> Seq(Entries)]
  BY DEF Init, DiagnosisInit, Empty
<1>2. ASSUME NEW p \in Pods
      PROVE  /\ Dated(succeeded[p], now)
             /\ Remembers(cache[p], succeeded[p], CacheMax, Expired(succeeded[p], now))
  <2>1. cache[p] = <<>> /\ succeeded[p] = <<>> /\ CacheMax \in Nat \ {0}
    BY DiagnosisAssumption DEF Init, DiagnosisInit, Empty
  <2> QED
    BY <2>1 DEF Dated, Remembers, KeysDiffer, Expired
<1> QED
  BY <1>1, <1>2 DEF CacheInv

(* What starts automatic runs.                                             *)
LEMMA RunsStartOnFlush ==
  ASSUME [Next]_vars, NEW p \in Pods, NEW f \in Families, f \in inFlight'[p] \ inFlight[p],
         inFlight \in [Pods -> SUBSET Families]
  PROVE  StartsRun(p, f)
<1>1. ASSUME NEW d \in Pods, Evaluate(d) PROVE FALSE
  BY <1>1 DEF Evaluate, Marked, MarkFails, FireIfNew, Every, Built, BuildFails, Grace, Sent,
              diagnosisVars, coordinatorVars
<1>2. ASSUME NEW d \in Pods, NEW g \in Families, Diagnosed(d, g) PROVE FALSE
  BY <1>2 DEF Diagnosed, AutoSettles
<1>3. ASSUME NEW d \in Pods, NEW g \in Families, OnDemand(d, g) PROVE FALSE
  BY <1>3 DEF OnDemand, Ask, AskSettles
<1>4. ASSUME Tick \/ UNCHANGED vars PROVE FALSE
  BY <1>4 DEF Tick, vars, diagnosisVars, coordinatorVars
<1>5. PICK d \in Pods : Flush(d)
  BY <1>1, <1>2, <1>3, <1>4 DEF Next
<1>6. PICK S : ObserveFlush(d, S)
  BY <1>5 DEF Flush
<1>7. inFlight' = [inFlight EXCEPT ![d] = @ \cup {g \in S : StartsRun(d, g)}]
  BY <1>6 DEF ObserveFlush
<1> QED
  BY <1>7

-----------------------------------------------------------------------------
(* What the coordinator owes the alerts.                                   *)

(* All entries of the flushes of q are of families in F.                   *)
OnlyOf(q, F) == \A k \in DOMAIN q : \A i \in DOMAIN q[k].fams : q[k].fams[i] \in F

(* The families the pod's coordinator was shown.                           *)
Told(p) == {f \in Families : firstSeen[p][f] # Never}

(* An automatic pod was shown every family of its backlog, and a family it *)
(* was shown is being diagnosed or was diagnosed.                          *)
RunInv ==
  /\ inFlight \in [Pods -> SUBSET Families]
  /\ firstSeen \in [Pods -> [Families -> Nat \cup {Never}]]
  /\ \A p \in Pods : \A i \in DOMAIN succeeded[p] : outcome[p][succeeded[p][i].key] # "none"
  /\ \A p \in AutoPods : \A f \in Told(p) : f \in inFlight[p] \/ outcome[p][f] # "none"
  /\ \A p \in AutoPods : OnlyOf(queue[p], Told(p))

LEMMA TailOnly ==
  ASSUME NEW q \in Seq(Items), q # <<>>, NEW F, OnlyOf(q, F)
  PROVE  /\ OnlyOf(Tail(q), F)
         /\ \A i \in DOMAIN Head(q).fams : Head(q).fams[i] \in F
<1> DEFINE n == Len(q)
           t == Tail(q)
<1>1. /\ n \in Nat \ {0} /\ DOMAIN q = 1 .. n /\ DOMAIN t = 1 .. n - 1
      /\ Head(q) = q[1] /\ \A k \in 1 .. n - 1 : t[k] = q[k + 1]
  OBVIOUS
<1> HIDE DEF n, t
<1>2. \A k \in 1 .. n - 1 : k + 1 \in DOMAIN q
  BY <1>1
<1>3. 1 \in DOMAIN q
  BY <1>1
<1>4. OnlyOf(t, F)
  BY <1>1, <1>2 DEF OnlyOf
<1> QED
  BY <1>1, <1>3, <1>4 DEF OnlyOf, t

(* The head's first entry is done with.                                    *)
LEMMA ShorterOnly ==
  ASSUME NEW q \in Seq(Items), q # <<>>, Tail(Head(q).fams) # <<>>,
         NEW F, OnlyOf(q, F),
         NEW short, short = [Head(q) EXCEPT !.fams = Tail(Head(q).fams)]
  PROVE  OnlyOf(<<short>> \o Tail(q), F)
<1> DEFINE t == Tail(q)
           out == <<short>> \o t
<1>1. OnlyOf(t, F) /\ \A i \in DOMAIN Head(q).fams : Head(q).fams[i] \in F
  BY TailOnly
<1>2. Head(q) \in Items /\ t \in Seq(Items)
  OBVIOUS
<1>3. Head(q).fams \in Seq(Families) /\ Head(q).fams # <<>>
  BY <1>2 DEF Items
<1>4. short.fams = Tail(Head(q).fams)
  BY <1>2 DEF Items
<1>5. \A i \in DOMAIN short.fams : short.fams[i] \in F
  <2> DEFINE s == Head(q).fams
  <2>1. /\ Len(s) \in Nat \ {0} /\ DOMAIN s = 1 .. Len(s) /\ DOMAIN short.fams = 1 .. Len(s) - 1
        /\ \A i \in 1 .. Len(s) - 1 : short.fams[i] = s[i + 1]
    BY <1>3, <1>4
  <2> HIDE DEF s
  <2>2. \A i \in 1 .. Len(s) - 1 : i + 1 \in DOMAIN s
    BY <2>1
  <2> QED
    BY <1>1, <2>1, <2>2 DEF s
<1> HIDE DEF t
<1>6. short \in Items
  <2>1. Tail(Head(q).fams) \in Seq(Families) \ {<<>>}
    BY <1>3
  <2> QED
    BY <1>2, <2>1 DEF Items
<1>7. /\ Len(t) \in Nat /\ DOMAIN t = 1 .. Len(t) /\ DOMAIN out = 1 .. Len(t) + 1
      /\ out[1] = short /\ \A k \in 2 .. Len(t) + 1 : out[k] = t[k - 1]
  BY <1>2, <1>6
<1> HIDE DEF out
<1>8. ASSUME NEW k \in 1 .. Len(t) + 1 PROVE \A i \in DOMAIN out[k].fams : out[k].fams[i] \in F
  <2>1. CASE k = 1
    BY <1>5, <1>7, <2>1
  <2>2. CASE k # 1
    <3>1. k \in 2 .. Len(t) + 1 /\ k - 1 \in 1 .. Len(t)
      BY <1>7, <2>2
    <3> QED
      BY <1>1, <1>7, <3>1 DEF OnlyOf
  <2> QED
    BY <2>1, <2>2
<1> QED
  BY <1>7, <1>8 DEF OnlyOf, out, t

LEMMA TurnOnly ==
  ASSUME IInv, NEW p \in Pods, stage[p] # "idle", Advance(p) \/ GiveUp(p),
         NEW d \in Pods, NEW F, OnlyOf(queue[d], F)
  PROVE  OnlyOf(queue'[d], F)
<1>1. queue[p] \in Seq(Items) /\ queue[p] # <<>> /\ queue \in [Pods -> Seq(Items)]
  BY DEF IInv, Typed
<1>2. ASSUME d = p PROVE OnlyOf(Tail(queue[p]), F)
  BY <1>1, <1>2, TailOnly
<1>3. CASE \E already : TakeUp(p, Tail(queue[p]), already)
  BY <1>1, <1>2, <1>3 DEF TakeUp
<1>4. CASE ~\E already : TakeUp(p, Tail(queue[p]), already)
  <2> DEFINE head == Head(queue[p])
             short == [head EXCEPT !.fams = Tail(head.fams)]
             q == <<short>> \o Tail(queue[p])
  <2>1. Tail(head.fams) # <<>> /\ TakeUp(p, q, observed[p])
    BY <1>4 DEF Advance, GiveUp, LeaveQueue
  <2>2. ASSUME d = p PROVE OnlyOf(q, F)
    BY <1>1, <2>1, <2>2, ShorterOnly
  <2>3. queue' = [queue EXCEPT ![p] = q]
    BY <2>1 DEF TakeUp
  <2> HIDE DEF q
  <2> QED
    BY <1>1, <2>2, <2>3
<1> QED
  BY <1>3, <1>4

(* The steps other than flushes and the ends of runs.                      *)
Calm ==
  /\ UNCHANGED <<firstSeen, inFlight, outcome, succeeded>>
  /\ \A d \in Pods, F \in SUBSET Families : OnlyOf(queue[d], F) => OnlyOf(queue'[d], F)

(* A run of f ends on p.                                                   *)
Settles(p, f) ==
  /\ UNCHANGED <<firstSeen, queue>>
  /\ inFlight' = inFlight \/ inFlight' = [inFlight EXCEPT ![p] = @ \ {f}]
  /\ Keep(p, f) \/ Fail(p, f)

LEMMA RunKinds ==
  ASSUME IInv, [Next]_vars
  PROVE  \/ Calm
         \/ \E p \in Pods, f \in Families : Settles(p, f)
         \/ \E p \in Pods : Flush(p)
<1>1. ASSUME NEW p \in Pods, Marked(p) \/ MarkFails(p) PROVE Calm
  BY <1>1 DEF Marked, MarkFails, FireIfNew, coordinatorVars, Calm
<1>2. ASSUME NEW p \in Pods, Every(p) \/ BuildFails(p) \/ Sent(p) PROVE Calm
  <2>1. stage[p] # "idle" /\ UNCHANGED <<firstSeen, inFlight, outcome, succeeded>>
        /\ (queue' = queue \/ Advance(p) \/ GiveUp(p))
    BY <1>2 DEF Every, BuildFails, Sent, diagnosisVars, coordinatorVars
  <2>2. CASE queue' = queue
    BY <2>1, <2>2 DEF Calm
  <2>3. CASE Advance(p) \/ GiveUp(p)
    BY <2>1, <2>3, TurnOnly DEF Calm
  <2> QED
    BY <2>1, <2>2, <2>3
<1>3. ASSUME NEW p \in Pods, Built(p) \/ Grace(p) PROVE Calm
  BY <1>3 DEF Built, Grace, diagnosisVars, coordinatorVars, Calm
<1>4. ASSUME NEW p \in Pods, NEW f \in Families, Diagnosed(p, f) PROVE Settles(p, f)
  BY <1>4 DEF Diagnosed, AutoSettles, Settles
<1>5. ASSUME NEW p \in Pods, NEW f \in Families, OnDemand(p, f) PROVE Calm \/ Settles(p, f)
  BY <1>5 DEF OnDemand, Ask, AskSettles, alerterVars, Calm, Settles
<1>6. CASE Tick \/ UNCHANGED vars
  BY <1>6 DEF Tick, vars, alerterVars, diagnosisVars, coordinatorVars, Calm
<1> QED
  BY <1>1, <1>2, <1>3, <1>4, <1>5, <1>6 DEF Next, Evaluate

LEMMA SettlesStep ==
  ASSUME IInv, CacheInv, RunInv, NEW p \in Pods, NEW f \in Families, Settles(p, f)
  PROVE  RunInv'
<1>1. PICK how \in {"ok", "failed"} : outcome' = [outcome EXCEPT ![p][f] = how]
  BY DEF Settles, Keep, Fail
<1>2. ASSUME NEW d \in Pods, NEW g \in Families
      PROVE  /\ outcome[d][g] # "none" => outcome'[d][g] # "none"
             /\ d = p /\ g = f => outcome'[d][g] # "none"
             /\ g \in inFlight[d] => g \in inFlight'[d] \/ (d = p /\ g = f)
  BY <1>1 DEF IInv, Typed, RunInv, Settles
<1>3. inFlight' \in [Pods -> SUBSET Families] /\ UNCHANGED <<firstSeen, queue>>
  BY DEF RunInv, Settles
<1>4. \A d \in Pods : Told(d)' = Told(d)
  BY <1>3 DEF Told
<1>5. ASSUME NEW d \in AutoPods, NEW g \in Told(d)
      PROVE  g \in inFlight'[d] \/ outcome'[d][g] # "none"
  <2>1. d \in Pods /\ g \in Families
    BY DiagnosisAssumption DEF Told
  <2> QED
    BY <1>2, <2>1 DEF RunInv
<1>6. ASSUME NEW d \in Pods, NEW i \in DOMAIN succeeded'[d]
      PROVE  outcome'[d][succeeded'[d][i].key] # "none"
  <2>0. \A k \in DOMAIN succeeded[d] : succeeded[d][k].key \in Families
    <3> TAKE k \in DOMAIN succeeded[d]
    <3>1. succeeded[d][k] \in Entries
      BY DEF CacheInv
    <3> QED
      BY <3>1 DEF Entries
  <2>1. CASE succeeded'[d] = succeeded[d]
    BY <1>2, <1>6, <2>0, <2>1 DEF RunInv
  <2>2. CASE succeeded'[d] # succeeded[d]
    <3>1. PICK pair \in Entries : pair = [key |-> f, at |-> now] /\ pair.key = f
      <4>1. now \in Nat
        BY DEF IInv, Typed
      <4>2. [key |-> f, at |-> now] \in Entries
        BY <4>1 DEF Entries
      <4> QED
        BY <4>2
    <3>2. succeeded' = [succeeded EXCEPT ![p] = Append(@, pair)]
      BY <2>2, <3>1 DEF Settles, Keep, Fail
    <3>3. d = p /\ succeeded'[d] = Append(succeeded[d], pair)
      BY <2>2, <3>2 DEF CacheInv
    <3>4. /\ i \in DOMAIN succeeded[d] => succeeded'[d][i] = succeeded[d][i]
          /\ i \notin DOMAIN succeeded[d] => succeeded'[d][i] = pair
      BY <1>6, <3>1, <3>3 DEF CacheInv
    <3> QED
      BY <1>2, <2>0, <3>1, <3>3, <3>4 DEF RunInv
  <2> QED
    BY <2>1, <2>2
<1>7. \A d \in AutoPods : OnlyOf(queue'[d], Told(d)')
  BY <1>3, <1>4, DiagnosisAssumption DEF RunInv
<1>8. firstSeen' \in [Pods -> [Families -> Nat \cup {Never}]]
  BY <1>3 DEF RunInv
<1>9. \A d \in AutoPods : \A g \in Told(d)' : g \in inFlight'[d] \/ outcome'[d][g] # "none"
  BY <1>4, <1>5, DiagnosisAssumption
<1> QED
  BY <1>3, <1>6, <1>7, <1>8, <1>9 DEF RunInv

LEMMA FlushRuns ==
  ASSUME IInv, CacheInv, RunInv, NEW p \in Pods, Flush(p)
  PROVE  RunInv'
<1>1. PICK fams \in Flushes :
        ObserveFlush(p, {fams[i] : i \in DOMAIN fams}) /\ Enqueue(p, fams)
  BY DEF Flush
<1> DEFINE S == {fams[i] : i \in DOMAIN fams}
<1>2. /\ fams \in Seq(Families) /\ fams # <<>> /\ now \in Nat /\ Never \notin Int
      /\ AutoPods \subseteq Pods
  BY AlerterAssumption, DiagnosisAssumption DEF IInv, Typed
<1>3. S \subseteq Families
  BY <1>2
<1>4. ObserveFlush(p, S) /\ \A i \in DOMAIN fams : fams[i] \in S
  BY <1>1
<1> HIDE DEF S
<1>5. UNCHANGED <<outcome, succeeded>>
  BY <1>4 DEF ObserveFlush
<1>6. /\ inFlight' \in [Pods -> SUBSET Families]
      /\ firstSeen' \in [Pods -> [Families -> Nat \cup {Never}]]
  <2>1. CASE p \notin AutoPods
    BY <1>4, <2>1 DEF ObserveFlush, RunInv
  <2>2. CASE p \in AutoPods
    <3> DEFINE firsts == [f \in Families |-> IF f \in S THEN now ELSE firstSeen[p][f]]
               runs == inFlight[p] \cup {f \in S : StartsRun(p, f)}
    <3>1. firsts \in [Families -> Nat \cup {Never}] /\ runs \in SUBSET Families
      BY <1>2, <1>3 DEF RunInv
    <3>2. firstSeen' = [firstSeen EXCEPT ![p] = firsts]
          /\ inFlight' = [inFlight EXCEPT ![p] = runs]
      BY <1>4, <2>2 DEF ObserveFlush
    <3> HIDE DEF firsts, runs
    <3> QED
      BY <3>1, <3>2 DEF RunInv
  <2> QED
    BY <2>1, <2>2
<1>7. ASSUME NEW d \in AutoPods, NEW f \in Families
      PROVE  /\ f \in Told(d)' <=> f \in Told(d) \/ (d = p /\ f \in S)
             /\ f \in inFlight'[d] <=> f \in inFlight[d] \/ (d = p /\ f \in S /\ StartsRun(p, f))
  <2>0. d \in Pods
    BY <1>2
  <2>1. CASE d = p
    <3>1. /\ firstSeen' = [firstSeen EXCEPT ![p] =
               [g \in Families |-> IF g \in S THEN now ELSE @[g]]]
          /\ inFlight' = [inFlight EXCEPT ![p] = @ \cup {g \in S : StartsRun(p, g)}]
      BY <1>4, <2>1 DEF ObserveFlush
    <3>2. firstSeen'[p][f] = IF f \in S THEN now ELSE firstSeen[p][f]
      BY <3>1 DEF RunInv
    <3>3. inFlight'[p] = inFlight[p] \cup {g \in S : StartsRun(p, g)}
      BY <3>1 DEF RunInv
    <3>4. f \in Told(d)' <=> f \in Told(d) \/ f \in S
      BY <1>2, <2>1, <3>2 DEF Told
    <3> QED
      BY <2>1, <3>3, <3>4
  <2>2. CASE d # p
    <3>1. firstSeen'[d] = firstSeen[d] /\ inFlight'[d] = inFlight[d]
      BY <1>4, <2>0, <2>2 DEF ObserveFlush, RunInv
    <3> QED
      BY <2>2, <3>1 DEF Told
  <2> QED
    BY <2>1, <2>2
<1>8. ASSUME NEW d \in AutoPods, NEW f \in Told(d)'
      PROVE  f \in inFlight'[d] \/ outcome'[d][f] # "none"
  <2>0. d \in Pods /\ f \in Families
    BY <1>2, <1>8 DEF Told
  <2>1. CASE f \in Told(d)
    BY <1>5, <1>7, <2>0, <2>1 DEF RunInv
  <2>2. CASE f \notin Told(d)
    <3>1. d = p /\ f \in S /\ firstSeen[p][f] = Never
      BY <1>7, <1>8, <2>0, <2>2 DEF Told
    <3>2. CASE StartsRun(p, f)
      BY <1>7, <2>0, <3>1, <3>2
    <3>3. CASE ~StartsRun(p, f) /\ ~Fresh(p, f)
      BY <1>7, <2>0, <3>1, <3>3 DEF StartsRun, NewToPod
    <3>4. CASE Fresh(p, f)
      <4>1. PICK m \in DOMAIN cache[p] : cache[p][m].key = f
        BY <3>4 DEF Fresh, Holds
      <4>2. PICK i \in DOMAIN succeeded[p] : succeeded[p][i] = cache[p][m]
        BY DEF CacheInv, Remembers
      <4> QED
        BY <1>5, <3>1, <4>1, <4>2 DEF RunInv
    <3> QED
      BY <3>2, <3>3, <3>4
  <2> QED
    BY <2>1, <2>2
<1>9. ASSUME NEW d \in AutoPods PROVE OnlyOf(queue'[d], Told(d)')
  <2>0. d \in Pods /\ Told(d) \subseteq Told(d)'
    BY <1>2, <1>7 DEF Told
  <2>1. OnlyOf(queue[d], Told(d)')
    BY <2>0 DEF RunInv, OnlyOf
  <2>2. CASE queue'[d] = queue[d]
    BY <2>1, <2>2
  <2>3. CASE queue'[d] # queue[d]
    <3> DEFINE item == [at |-> now, size |-> Len(fams), fams |-> fams]
    <3>1. item \in Items /\ item.fams = fams
      BY <1>2 DEF Items
    <3> HIDE DEF item
    <3>2. queue' = [queue EXCEPT ![p] = Append(queue[p], item)]
      BY <1>1, <2>3 DEF Enqueue, TakeUp, item
    <3>3. d = p /\ queue[p] \in Seq(Items) /\ queue'[d] = Append(queue[p], item)
      BY <2>0, <2>3, <3>2 DEF IInv, Typed
    <3>4. ASSUME NEW k \in DOMAIN queue'[d]
          PROVE  queue'[d][k] = item \/ (k \in DOMAIN queue[d] /\ queue'[d][k] = queue[d][k])
      BY <3>1, <3>3, <3>4
    <3>5. \A i \in DOMAIN fams : fams[i] \in Told(d)'
      <4> TAKE i \in DOMAIN fams
      <4>1. fams[i] \in S /\ fams[i] \in Families
        BY <1>3, <1>4
      <4> QED
        BY <1>7, <3>3, <4>1
    <3> QED
      BY <2>1, <3>1, <3>4, <3>5 DEF OnlyOf
  <2> QED
    BY <2>2, <2>3
<1>10. \A d \in Pods : \A i \in DOMAIN succeeded'[d] : outcome'[d][succeeded'[d][i].key] # "none"
  BY <1>5 DEF RunInv
<1> QED
  BY <1>6, <1>8, <1>9, <1>10 DEF RunInv

LEMMA RunStep == IInv /\ CacheInv /\ RunInv /\ [Next]_vars => RunInv'
<1> SUFFICES ASSUME IInv, CacheInv, RunInv, [Next]_vars PROVE RunInv'
  OBVIOUS
<1>1. CASE Calm
  <2>1. \A p \in Pods : Told(p)' = Told(p)
    BY <1>1 DEF Calm, Told
  <2>2. \A p \in AutoPods : p \in Pods /\ OnlyOf(queue'[p], Told(p))
    BY <1>1, DiagnosisAssumption DEF Calm, RunInv, Told
  <2> QED
    BY <1>1, <2>1, <2>2 DEF Calm, RunInv
<1> QED
  BY <1>1, RunKinds, SettlesStep, FlushRuns

LEMMA RunInit == Init => RunInv
<1> SUFFICES ASSUME Init PROVE RunInv
  OBVIOUS
<1>1. AutoPods \subseteq Pods
  BY DiagnosisAssumption
<1>2. \A p \in Pods : succeeded[p] = <<>> /\ queue[p] = <<>> /\ Told(p) = {}
  BY DEF Init, DiagnosisInit, Empty, Told
<1>3. /\ inFlight \in [Pods -> SUBSET Families]
      /\ firstSeen \in [Pods -> [Families -> Nat \cup {Never}]]
  BY DEF Init, DiagnosisInit
<1> QED
  BY <1>1, <1>2, <1>3 DEF RunInv, OnlyOf

(* The invariant of the coordinator.                                       *)
LEMMA DiagnosisInv == Spec => [](IInv /\ CacheInv /\ RunInv)
<1>1. Spec => []IInv
  BY InitInv, Step, PTL DEF Spec
<1>2. Spec => []CacheInv
  BY <1>1, CacheInit, CacheStep, PTL DEF Spec
<1>3. Spec => []RunInv
  BY <1>1, <1>2, RunInit, RunStep, PTL DEF Spec
<1> QED
  BY <1>1, <1>2, <1>3, PTL

(* The automatic mode starts no run of a family that was diagnosed on the  *)
(* pod less than a TTL ago, unless so many others were since then that the *)
(* answer was evicted (onNewFamily: at most once per family per cache      *)
(* window).                                                                *)
THEOREM RunsOncePerWindow == Spec => DiagnosedOncePerWindow
<1>1. ASSUME IInv, CacheInv, RunInv, [Next]_vars
      PROVE  [\A p \in Pods, f \in Families :
                f \in inFlight'[p] \ inFlight[p] => ~StillKnown(p, f)]_inFlight
  <2> SUFFICES ASSUME NEW p \in Pods, NEW f \in Families, f \in inFlight'[p] \ inFlight[p]
               PROVE  ~StillKnown(p, f)
    OBVIOUS
  <2>1. ~Fresh(p, f)
    BY <1>1, RunsStartOnFlush DEF RunInv, StartsRun
  <2> QED
    BY <1>1, <2>1, KnownIsFresh DEF IInv, Typed
<1> QED
  BY <1>1, DiagnosisInv, PTL DEF Spec, DiagnosedOncePerWindow

(* A page in the making is the last of the pod's fires.                    *)
Making == \A p \in Pods : stage[p] = "building" => fires[p] # <<>>

LEMMA OnlyFireMakes ==
  ASSUME IInv, [Next]_vars, NEW p \in Pods, stage[p] # "building", stage'[p] = "building"
  PROVE  \E r, via : Fire(p, r, via)
<1>0. stage \in [Pods -> Stages]
  BY DEF IInv, Typed
<1>1. ASSUME NEW d \in Pods, NEW q, NEW already, TakeUp(d, q, already) PROVE FALSE
  BY <1>0, <1>1 DEF TakeUp
<1>2. \A d \in Pods : ~Advance(d) /\ ~GiveUp(d)
  BY <1>1 DEF Advance, GiveUp, LeaveQueue
<1>3. ASSUME NEW d \in Pods, NEW r, NEW via, Fire(d, r, via) PROVE d = p
  BY <1>0, <1>3 DEF Fire
<1>4. ASSUME NEW d \in Pods, Marked(d) \/ MarkFails(d) PROVE \E r, via : Fire(p, r, via)
  BY <1>0, <1>3, <1>4 DEF Marked, MarkFails, FireIfNew
<1>5. ASSUME NEW d \in Pods, Every(d) \/ BuildFails(d) \/ Grace(d) \/ Sent(d)
      PROVE  \E r, via : Fire(p, r, via)
  BY <1>0, <1>2, <1>3, <1>5 DEF Every, BuildFails, Grace, Sent
<1>6. ASSUME NEW d \in Pods, Built(d) PROVE FALSE
  BY <1>0, <1>6 DEF Built, AskForNote
<1>7. ASSUME NEW d \in Pods, Flush(d) PROVE FALSE
  BY <1>0, <1>1, <1>7 DEF Flush, Enqueue
<1>8. ASSUME NEW d \in Pods, NEW f \in Families, Diagnosed(d, f) \/ OnDemand(d, f) PROVE FALSE
  BY <1>0, <1>8 DEF Diagnosed, OnDemand, alerterVars, evaluationVars
<1>9. ASSUME Tick \/ UNCHANGED vars PROVE FALSE
  BY <1>0, <1>9 DEF Tick, vars, alerterVars, evaluationVars
<1> QED
  BY <1>4, <1>5, <1>6, <1>7, <1>8, <1>9 DEF Next, Evaluate

LEMMA MakingStep == IInv /\ Making /\ [Next]_vars => Making'
<1> SUFFICES ASSUME IInv, Making, [Next]_vars, NEW p \in Pods, stage'[p] = "building"
             PROVE  fires'[p] # <<>>
  BY DEF Making
<1>1. CASE stage[p] = "building"
  <2>1. PagesStay
    BY StepKeepsPages, NewRuleKinds, OtherKinds
  <2>2. 1 \in DOMAIN fires[p]
    <3>1. fires[p] \in Seq(Pages) /\ fires[p] # <<>>
      BY <1>1 DEF IInv, Typed, Making
    <3> QED
      BY <3>1
  <2>3. 1 \in DOMAIN fires'[p]
    BY <2>1, <2>2 DEF PagesStay
  <2> QED
    BY <2>3
<1>2. CASE stage[p] # "building"
  <2>1. PICK page : fires'[p] = Append(fires[p], page)
    <3>1. PICK r, via : Fire(p, r, via)
      BY <1>2, OnlyFireMakes
    <3> QED
      BY <3>1 DEF Fire, IInv, Typed
  <2>2. fires[p] \in Seq(Pages \cup {page})
    BY DEF IInv, Typed
  <2>3. Len(fires'[p]) = Len(fires[p]) + 1 /\ Len(fires[p]) \in Nat
    BY <2>1, <2>2, AppendProperties
  <2> QED
    BY <2>3
<1> QED
  BY <1>1, <1>2

LEMMA MakingInv == Spec => []Making
<1>1. Init => Making
  BY DEF Init, Making
<1> QED
  BY <1>1, InitInv, Step, MakingStep, PTL DEF Spec

(* The only step that takes a page from its reads to its channels.         *)
LEMMA OnlyBuiltSends ==
  ASSUME IInv, [Next]_vars, NEW p \in Pods, stage[p] = "building", stage'[p] = "sending"
  PROVE  Built(p)
<1>0. stage \in [Pods -> Stages]
  BY DEF IInv, Typed
<1>1. ASSUME NEW d \in Pods, NEW q, NEW already, TakeUp(d, q, already) PROVE FALSE
  BY <1>0, <1>1 DEF TakeUp
<1>2. \A d \in Pods : ~Advance(d) /\ ~GiveUp(d)
  BY <1>1 DEF Advance, GiveUp, LeaveQueue
<1>3. ASSUME NEW d \in Pods, NEW r, NEW via, Fire(d, r, via) PROVE FALSE
  BY <1>0, <1>3 DEF Fire
<1>4. ASSUME NEW d \in Pods, Marked(d) \/ MarkFails(d) PROVE FALSE
  BY <1>0, <1>3, <1>4 DEF Marked, MarkFails, FireIfNew
<1>5. ASSUME NEW d \in Pods, Every(d) \/ BuildFails(d) \/ Grace(d) \/ Sent(d) PROVE FALSE
  BY <1>0, <1>2, <1>3, <1>5 DEF Every, BuildFails, Grace, Sent
<1>6. ASSUME NEW d \in Pods, Built(d), d # p PROVE FALSE
  BY <1>0, <1>6 DEF Built, AskForNote
<1>7. ASSUME NEW d \in Pods, Flush(d) PROVE FALSE
  BY <1>0, <1>1, <1>7 DEF Flush, Enqueue
<1>8. ASSUME NEW d \in Pods, NEW f \in Families, Diagnosed(d, f) \/ OnDemand(d, f) PROVE FALSE
  BY <1>0, <1>8 DEF Diagnosed, OnDemand, alerterVars, evaluationVars
<1>9. ASSUME Tick \/ UNCHANGED vars PROVE FALSE
  BY <1>0, <1>9 DEF Tick, vars, alerterVars, evaluationVars
<1> QED
  BY <1>4, <1>5, <1>6, <1>7, <1>8, <1>9 DEF Next, Evaluate

(* A page of an automatic pod that goes without waiting carries the        *)
(* diagnosis, unless the last run failed or its answer is no longer known: *)
(* its family was shown to the coordinator when its flush was queued       *)
(* (onFlushStored's order), and what a run found is in the cache once the  *)
(* run is over (runDiagnosis' order).                                      *)
THEOREM NotesAreExplained == Spec => NoteExplained
<1>1. ASSUME IInv, CacheInv, RunInv, Making, [Next]_vars
      PROVE  [\A p \in AutoPods :
                stage[p] = "building" /\ stage'[p] = "sending" =>
                  \/ LastNote(p) = "attached"
                  \/ LastNote(p) \in {"ok", "failed"} /\ ~StillKnown(p, Family(p))]_vars
  <2> SUFFICES ASSUME NEW p \in AutoPods, stage[p] = "building", stage'[p] = "sending"
               PROVE  \/ LastNote(p) = "attached"
                      \/ LastNote(p) \in {"ok", "failed"} /\ ~StillKnown(p, Family(p))
    OBVIOUS
  <2>1. p \in Pods
    BY DiagnosisAssumption
  <2>2. Built(p) /\ Family(p) \in Families /\ stage \in [Pods -> Stages] /\ now \in Nat
    BY <1>1, <2>1, OnlyBuiltSends, HeadTyped DEF IInv, Typed
  <2> DEFINE f == Family(p)
             note == IF Fresh(p, f) THEN "attached" ELSE outcome[p][f]
  <2>3. Noted(p, note) /\ (Fresh(p, f) \/ f \notin inFlight[p])
    BY <2>1, <2>2 DEF Built, AskForNote
  <2>4. LastNote(p) = note
    <3> DEFINE n == Len(fires[p])
               last == fires[p][n]
    <3> HIDE DEF note
    <3>1. fires[p] \in Seq(Pages) /\ n \in 1 .. n /\ last \in Pages
      <4>1. fires[p] \in Seq(Pages) /\ fires[p] # <<>>
        BY <1>1, <2>1 DEF IInv, Typed, Making
      <4> QED
        BY <4>1
    <3>2. fires'[p][n] = [last EXCEPT !.note = note]
      <4>1. fires' = [fires EXCEPT ![p] = [fires[p] EXCEPT ![n] = [last EXCEPT !.note = note]]]
        BY <2>3 DEF Noted
      <4>2. fires \in [Pods -> Seq(Pages)]
        BY <1>1 DEF IInv, Typed
      <4> HIDE DEF last
      <4>3. fires'[p] = [fires[p] EXCEPT ![n] = [last EXCEPT !.note = note]]
        BY <2>1, <4>1, <4>2
      <4> QED
        BY <3>1, <4>3
    <3> HIDE DEF last, n
    <3>3. [last EXCEPT !.note = note].note = note
      BY <3>1 DEF Pages
    <3> QED
      BY <3>2, <3>3 DEF LastNote, n
  <2>5. CASE Fresh(p, f)
    BY <2>4, <2>5
  <2>6. CASE ~Fresh(p, f)
    <3>1. f \in Told(p)
      <4>1. queue[p] \in Seq(Items) /\ queue[p] # <<>> /\ OnlyOf(queue[p], Told(p))
        BY <1>1, <2>1 DEF IInv, Typed, RunInv
      <4>2. \A i \in DOMAIN Head(queue[p]).fams : Head(queue[p]).fams[i] \in Told(p)
        BY <4>1, TailOnly
      <4>3. Head(queue[p]) \in Items
        BY <4>1
      <4>4. Head(queue[p]).fams \in Seq(Families) /\ Head(queue[p]).fams # <<>>
        BY <4>3 DEF Items
      <4>5. 1 \in DOMAIN Head(queue[p]).fams /\ f = Head(queue[p]).fams[1]
        BY <4>4 DEF Family
      <4> QED
        BY <4>2, <4>5
    <3>2. outcome[p][f] \in {"ok", "failed"}
      BY <1>1, <2>1, <2>2, <2>3, <2>6, <3>1 DEF IInv, Typed, RunInv
    <3>3. ~StillKnown(p, f)
      BY <1>1, <2>1, <2>2, <2>6, KnownIsFresh
    <3> QED
      BY <2>4, <2>6, <3>2, <3>3
  <2> QED
    BY <2>5, <2>6
<1> QED
  BY <1>1, DiagnosisInv, MakingInv, PTL DEF Spec, NoteExplained
=============================================================================
