------------------------------ MODULE Profiler ------------------------------
(***************************************************************************)
(* core/profiling/profiler.service.ts with its only caller, the request    *)
(* middleware: which requests are profiled, under a cap on captures at one *)
(* time and a budget armed by hand, and how a capture ends.                *)
(*                                                                         *)
(* A profiler starts and stops asynchronously; a request may be answered   *)
(* before its profiler has started.  A response either finishes, or its    *)
(* connection closes before it is complete: Node emits `finish` only for   *)
(* the former, and `finish` is all the middleware listens to.              *)
(***************************************************************************)
EXTENDS Integers, FiniteSets, Sequences, SequencesExt, FiniteSetsExt, Folds

CONSTANTS
  Requests,       \* the requests the host serves, in any order
  Routes,         \* their normalized routes, the labels of captures
  RouteOf,        \* request -> route
  AnyRoute,       \* the target of an arm without a label
  MaxConcurrent,  \* profiling.maxConcurrent
  Sampling,       \* profiling.sampleRate > 0
  MaxArmed        \* bound: captures armed by hand in all

ASSUME ProfilerAssumption ==
  /\ IsFiniteSet(Requests)
  /\ RouteOf \in [Requests -> Routes]
  /\ AnyRoute \notin Routes
  /\ MaxConcurrent \in Nat \ {0}
  /\ Sampling \in BOOLEAN
  /\ MaxArmed \in Nat

VARIABLES
  active,    \* captures counted between begin() and end()
  manual,    \* arms in the order they were made: how many more, of what
  response,  \* request -> "none", "open", "finished" or "closed"
  handle,    \* request -> its ProfileHandle: "none", "open" or "ended"
  profiler,  \* request -> its profiler
  result,    \* request -> what end() made of the capture
  armed,     \* ghost: target -> captures armed in all
  charged    \* ghost: request -> targets of the arms its capture was charged to

vars == <<active, manual, response, handle, profiler, result, armed, charged>>

Targets == Routes \cup {AnyRoute}

Init ==
  /\ active = 0
  /\ manual = <<>>
  /\ response = [r \in Requests |-> "none"]
  /\ handle = [r \in Requests |-> "none"]
  /\ profiler = [r \in Requests |-> "off"]
  /\ result = [r \in Requests |-> "none"]
  /\ armed = [t \in Targets |-> 0]
  /\ charged = [r \in Requests |-> {}]

\* The captures still pending of target t: the k-th one of arm i, for each k.
Units(t) ==
  {u \in (1..Len(manual)) \X (1..MaxArmed) :
     manual[u[1]].target = t /\ u[2] <= manual[u[1]].count}

Pending(t) == Cardinality(Units(t))

\* Positions of the arms that match a request: labelled arms match exactly.
Matching(r) ==
  {i \in DOMAIN manual :
     manual[i].count > 0 /\ manual[i].target \in {RouteOf[r], AnyRoute}}

-----------------------------------------------------------------------------

\* POST profiles/arm.
Arm(t, n) ==
  /\ SumFunction(armed) + n <= MaxArmed
  /\ manual' = Append(manual, [count |-> n, target |-> t])
  /\ armed' = [armed EXCEPT ![t] = @ + n]
  /\ UNCHANGED <<active, response, handle, profiler, result, charged>>

\* mutant: the arm removed is the oldest one, not the one that was spent
SpendDropsFirst(i) ==
  manual' = IF manual[i].count > 1 THEN [manual EXCEPT ![i].count = @ - 1]
            ELSE Tail(manual)

\* An arm gives one capture, and goes when it has no more.
Spend(i) ==
  manual' = IF manual[i].count > 1 THEN [manual EXCEPT ![i].count = @ - 1]
            ELSE RemoveAt(manual, i)

\* mutant: the concurrency cap lets one capture too many begin
OneTooMany == active <= MaxConcurrent

HasSlot == active < MaxConcurrent

\* A request is served without a capture: nothing selects it, or the draw goes
\* against it, or the cap is reached, which costs no armed capture.
ServeUntouched(r) ==
  /\ response[r] = "none"
  /\ Matching(r) = {} \/ ~HasSlot
  /\ response' = [response EXCEPT ![r] = "open"]
  /\ UNCHANGED <<active, manual, handle, profiler, result, armed, charged>>

\* A request is served and profiled: by hand if an arm matches it, else drawn.
Begin(r) ==
  /\ response[r] = "none"
  /\ HasSlot
  /\ Matching(r) # {} \/ Sampling
  /\ IF Matching(r) # {}
       THEN /\ Spend(Min(Matching(r)))
            /\ charged' = [charged EXCEPT ![r] = {manual[Min(Matching(r))].target}]
       ELSE UNCHANGED <<manual, charged>>
  /\ active' = active + 1
  /\ response' = [response EXCEPT ![r] = "open"]
  /\ handle' = [handle EXCEPT ![r] = "open"]
  /\ profiler' = [profiler EXCEPT ![r] = "starting"]
  /\ UNCHANGED <<result, armed>>

\* CpuProfiler.start() resolves, or rejects and is caught.
StartSettles(r, how) ==
  /\ profiler[r] = "starting"
  /\ profiler' = [profiler EXCEPT ![r] = how]
  /\ UNCHANGED <<active, manual, response, handle, result, armed, charged>>

\* The response ends.
Ends(r, how) ==
  /\ response[r] = "open"
  /\ response' = [response EXCEPT ![r] = how]
  /\ UNCHANGED <<active, manual, handle, profiler, result, armed, charged>>

\* end() of a finished request's handle, at the await of handle.started.
\* mutant: end() does not wait for the start
EndingAtOnce(r) ==
  /\ response[r] = "finished"
  /\ handle[r] = "open"

\* mutant: a capture whose start failed is not ended
EndingRunning(r) ==
  /\ response[r] = "finished"
  /\ handle[r] = "open"
  /\ profiler[r] = "running"

Ending(r) ==
  /\ response[r] = "finished"
  /\ handle[r] = "open"
  /\ profiler[r] # "starting"

\* The finally of end().
Release(r) ==
  /\ handle' = [handle EXCEPT ![r] = "ended"]
  /\ active' = Max({0, active - 1})

\* stop() of a profiler that is not running: there is nothing to record.
EndsWithNothing(r) ==
  /\ Ending(r)
  /\ profiler[r] # "running"
  /\ result' = [result EXCEPT ![r] = "nothing"]
  /\ Release(r)
  /\ UNCHANGED <<manual, response, profiler, armed, charged>>

\* stop() of a running profiler: its profile is recorded, or below
\* minDurationMs, or stop() or record() fails.
EndsWithProfile(r, how) ==
  /\ Ending(r)
  /\ profiler[r] = "running"
  /\ profiler' = [profiler EXCEPT ![r] = "stopped"]
  /\ result' = [result EXCEPT ![r] = how]
  /\ Release(r)
  /\ UNCHANGED <<manual, response, armed, charged>>

-----------------------------------------------------------------------------

Next ==
  \/ \E t \in Targets, n \in 1..MaxArmed : Arm(t, n)
  \/ \E r \in Requests :
       \/ ServeUntouched(r)
       \/ Begin(r)
       \/ \E how \in {"running", "failed"} : StartSettles(r, how)
       \/ \E how \in {"finished", "closed"} : Ends(r, how)
       \/ EndsWithNothing(r)
       \/ \E how \in {"recorded", "short", "failed"} : EndsWithProfile(r, how)

Spec == Init /\ [][Next]_vars

\* The inspector answers every call: start() and stop() settle.
Fairness ==
  \A r \in Requests :
    /\ WF_vars(\E how \in {"running", "failed"} : StartSettles(r, how))
    /\ WF_vars(EndsWithNothing(r))
    /\ WF_vars(\E how \in {"recorded", "short", "failed"} : EndsWithProfile(r, how))

FairSpec == Spec /\ Fairness

-----------------------------------------------------------------------------

TypeOK ==
  /\ active \in 0..Cardinality(Requests)
  /\ manual \in Seq([count : 1..MaxArmed, target : Targets])
  /\ response \in [Requests -> {"none", "open", "finished", "closed"}]
  /\ handle \in [Requests -> {"none", "open", "ended"}]
  /\ profiler \in [Requests -> {"off", "starting", "running", "failed", "stopped"}]
  /\ result \in [Requests -> {"none", "nothing", "recorded", "short", "failed"}]
  /\ armed \in [Targets -> 0..MaxArmed]
  /\ charged \in [Requests -> SUBSET Targets]

\* No more profilers slow the process down than maxConcurrent, whether or not
\* their requests are over; the count that enforces it is exact, so that it
\* never keeps a capture out for one that has ended.
CapKept ==
  /\ Cardinality({r \in Requests : profiler[r] \in {"starting", "running"}})
       <= MaxConcurrent
  /\ active = Cardinality({r \in Requests : handle[r] = "open"})

\* An armed capture is spent once, by a request it was armed for, and never by
\* one that was not profiled: for every target, what was armed is what is still
\* pending and what captures were charged.
BudgetExact ==
  /\ \A t \in Targets :
       armed[t] = Pending(t) + Cardinality({r \in Requests : t \in charged[r]})
  /\ \A r \in Requests :
       charged[r] # {} => /\ charged[r] \subseteq {RouteOf[r], AnyRoute}
                          /\ handle[r] # "none"

\* A request answered before its profiler had started does not lose its
\* profile: end() finds nothing to record only if the start failed.
FastRequestKept ==
  \A r \in Requests : result[r] = "nothing" => profiler[r] = "failed"

\* A finished request gives its slot back, whatever its profiler did.
SlotReturns ==
  \A r \in Requests :
    response[r] = "finished" ~> handle[r] # "open"

=============================================================================
