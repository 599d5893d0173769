---------------------------- MODULE TelescopeHost ----------------------------
(***************************************************************************)
(* The recorder inside its process: the flush timer, the start-up and the  *)
(* graceful shutdown of nest/telescope.service.ts, the event-loop guard of *)
(* nest/telescope-overload-guard.service.ts and the process-crash handlers *)
(* of nest/telescope-crash-capture.service.ts.  They meet in one place:    *)
(* all of them call Recorder.flush(), pause() or record(), and a caller of *)
(* flush() that finds one pending only shares its promise.                 *)
(*                                                                         *)
(* A callback runs to its end before the next one starts, and whoever      *)
(* awaited a promise resumes before any other callback: `callback' is the  *)
(* crash handler on the stack, and Resuming holds while somebody's promise *)
(* has resolved.                                                           *)
(***************************************************************************)
EXTENDS Recorder

CONSTANTS
  Crashes,        \* the crashes a behaviour may see
  WarmupSamples,  \* samples the guard discards after boot (startupGraceMs)
  None            \* no crash

ASSUME HostAssumption ==
  /\ WarmupSamples \in Nat
  /\ None \notin Crashes

VARIABLES
  life,         \* where the module is between boot and the end of shutdown
  timer,        \* flushTimer is set
  alerter,      \* this.alerter is not null
  alerted,      \* history: entries handed to alerter.evaluateFlush()
  guard,        \* the guard's sampling timer is set
  warmup,       \* warmupSamplesRemaining
  exitOnCrash,  \* the resolved onCrash mode: 'exit', or 'passthrough'
  listening,    \* the process crash listeners are installed
  callback,     \* the crash whose handler is between record() and flush()
  crash,        \* crash -> "none", "awaiting", "settled" or "expired"
  crashEntry,   \* crash -> the entry recorded for it, 0 if none was
  crashTicket,  \* crash -> the value of `flushes' its promise resolves at
  crashMark,    \* history: crash -> what the flush it awaits drained
  shutTicket,   \* the same for the promise onApplicationShutdown awaits
  drainMark,    \* history: entries admitted when the last flush drained
  shutMark,     \* history: entries drained by the flush shutdown awaits
  exited        \* process.exit() was called

lifeVars  == <<life, timer, alerter, listening, shutTicket, shutMark>>
guardVars == <<guard, warmup>>
crashVars == <<exitOnCrash, callback, crash, crashEntry, crashTicket, crashMark, exited>>
hostVars  == <<vars, lifeVars, guardVars, crashVars, alerted, drainMark>>

HostInit ==
  /\ Init
  /\ life = "booting"
  /\ timer = FALSE
  /\ alerter \in BOOLEAN
  /\ alerted = {}
  /\ guard \in BOOLEAN
  /\ warmup = WarmupSamples
  /\ listening \in BOOLEAN
  /\ exitOnCrash \in BOOLEAN
  /\ callback = None
  /\ crash = [c \in Crashes |-> "none"]
  /\ crashEntry = [c \in Crashes |-> 0]
  /\ crashTicket = [c \in Crashes |-> 0]
  /\ crashMark = [c \in Crashes |-> 0]
  /\ shutTicket = 0
  /\ drainMark = 0
  /\ shutMark = 0
  /\ exited = FALSE

-----------------------------------------------------------------------------
(* Whose awaited flush has resolved.                                       *)

ShutdownResumes == life = "flushing" /\ shutTicket <= flushes
CrashResumes(c) == crash[c] = "awaiting" /\ crashTicket[c] <= flushes
Resuming        == ShutdownResumes \/ \E c \in Crashes : CrashResumes(c)

(* The event loop may start the next callback.                             *)
LoopFree == ~exited /\ callback = None /\ ~Resuming

(* recorder.flush() as its callers see it: the promise resolves when       *)
(* `flushes' reaches ticket; upTo is what the flush it stands for drained. *)
FlushCalledNoJoin(ticket, upTo) ==       \* mutant: a second flush() returns at once
  \/ /\ Flushing
     /\ ticket = flushes
     /\ upTo = drainMark
     /\ UNCHANGED <<vars, drainMark>>
  \/ /\ ~Flushing
     /\ count = 0
     /\ ticket = flushes
     /\ upTo = recorded
     /\ UNCHANGED <<vars, drainMark>>
  \/ /\ BeginFlush
     /\ ticket = flushes + 1
     /\ upTo = recorded
     /\ drainMark' = recorded

FlushCalledAwaitsNext(ticket, upTo) ==   \* mutant: an empty flush() awaits the next one
  \/ /\ Flushing \/ count = 0
     /\ ticket = flushes + 1
     /\ upTo = drainMark
     /\ UNCHANGED <<vars, drainMark>>
  \/ /\ BeginFlush
     /\ ticket = flushes + 1
     /\ upTo = recorded
     /\ drainMark' = recorded

FlushCalled(ticket, upTo) ==
  \/ /\ Flushing
     /\ ticket = flushes + 1
     /\ upTo = drainMark
     /\ UNCHANGED <<vars, drainMark>>
  \/ /\ ~Flushing
     /\ count = 0
     /\ ticket = flushes
     /\ upTo = recorded
     /\ UNCHANGED <<vars, drainMark>>
  \/ /\ BeginFlush
     /\ ticket = flushes + 1
     /\ upTo = recorded
     /\ drainMark' = recorded

Tickets == {flushes, flushes + 1}

-----------------------------------------------------------------------------
(* The recorder's own steps.                                               *)

HostRecords ==
  /\ LoopFree
  /\ Record
  /\ UNCHANGED <<lifeVars, guardVars, crashVars, alerted, drainMark>>

(* onFlushStored is handed the chunk: the alerter queues it if there is    *)
(* one.                                                                    *)
FlushAdvancesBatch ==                    \* mutant: the hook is given the whole batch
  /\ LoopFree
  /\ FlushStep
  /\ alerted' = IF alerter /\ observed' # observed
                  THEN alerted \cup {flight[i] : i \in 1 .. Len(flight)} ELSE alerted
  /\ UNCHANGED <<lifeVars, guardVars, crashVars, drainMark>>

FlushAdvances ==
  /\ LoopFree
  /\ FlushStep
  /\ alerted' = IF alerter /\ observed' # observed
                  THEN alerted \cup ChunkSet ELSE alerted
  /\ UNCHANGED <<lifeVars, guardVars, crashVars, drainMark>>

TimerFires ==
  /\ LoopFree
  /\ timer
  /\ \E ticket \in Tickets, upTo \in {drainMark, recorded} : FlushCalled(ticket, upTo)
  /\ UNCHANGED <<lifeVars, guardVars, crashVars, alerted>>

-----------------------------------------------------------------------------
(* Boot and shutdown.                                                      *)

(* storage.init() has resolved: the flush timer starts.                    *)
Boot ==
  /\ LoopFree
  /\ life = "booting"
  /\ life' = "running"
  /\ timer' = TRUE
  /\ UNCHANGED <<vars, alerter, listening, shutTicket, shutMark>>
  /\ UNCHANGED <<guardVars, crashVars, alerted, drainMark>>

(* onModuleDestroy: the crash listeners go before the application's        *)
(* shutdown hooks run.                                                     *)
DestroyModule ==
  /\ LoopFree
  /\ life = "running"
  /\ life' = "destroyed"
  /\ listening' = FALSE
  /\ UNCHANGED <<vars, timer, alerter, shutTicket, shutMark>>
  /\ UNCHANGED <<guardVars, crashVars, alerted, drainMark>>

(* await recorder.flush() of onApplicationShutdown.                        *)
FinalFlush ==
  /\ life' = "flushing"
  /\ alerter' = FALSE
  /\ \E ticket \in Tickets, upTo \in {drainMark, recorded} :
       /\ FlushCalled(ticket, upTo)
       /\ shutTicket' = ticket
       /\ shutMark' = upTo

(* onApplicationShutdown of the service and of the guard, up to the first  *)
(* await: that of alerter.idle() when there is an alerter.                 *)
BeginShutdown ==
  /\ LoopFree
  /\ life = "destroyed"
  /\ timer' = FALSE
  /\ guard' = FALSE
  /\ IF alerter
       THEN /\ life' = "draining"
            /\ UNCHANGED <<vars, alerter, shutTicket, shutMark, drainMark>>
       ELSE FinalFlush
  /\ UNCHANGED <<listening, warmup, crashVars, alerted>>

(* alerter.idle() resolves, the alerter is dropped and the ring flushed.   *)
AlerterIdle ==
  /\ LoopFree
  /\ life = "draining"
  /\ FinalFlush
  /\ UNCHANGED <<timer, listening, guardVars, crashVars, alerted>>

(* The awaited flush has resolved: storage.close() is called.              *)
CallCloseAtOnce ==                       \* mutant: the final flush is not awaited
  /\ LoopFree \/ ShutdownResumes
  /\ ~exited
  /\ life = "flushing"
  /\ life' = "closing"
  /\ UNCHANGED <<vars, timer, alerter, listening, shutTicket, shutMark>>
  /\ UNCHANGED <<guardVars, crashVars, alerted, drainMark>>

CallClose ==
  /\ ~exited
  /\ ShutdownResumes
  /\ life' = "closing"
  /\ UNCHANGED <<vars, timer, alerter, listening, shutTicket, shutMark>>
  /\ UNCHANGED <<guardVars, crashVars, alerted, drainMark>>

Closed ==
  /\ LoopFree
  /\ life = "closing"
  /\ life' = "down"
  /\ UNCHANGED <<vars, timer, alerter, listening, shutTicket, shutMark>>
  /\ UNCHANGED <<guardVars, crashVars, alerted, drainMark>>

-----------------------------------------------------------------------------
(* The overload guard: sample() reads and resets the lag histogram, lets   *)
(* the warm-up windows pass, then pauses or resumes the recorder.  A       *)
(* sample that changes nothing is a stuttering step.                       *)
Sample(lagging) ==
  /\ LoopFree
  /\ guard
  /\ \/ /\ warmup > 0
        /\ warmup' = warmup - 1
        /\ UNCHANGED vars
     \/ /\ warmup = 0
        /\ IF lagging THEN Pause ELSE Resume
        /\ warmup' = warmup
  /\ UNCHANGED <<guard, lifeVars, crashVars, alerted, drainMark>>

-----------------------------------------------------------------------------
(* Crash capture.                                                          *)

(* The synchronous half of capture(): the crash entry is recorded, unless  *)
(* the recorder is paused or record() throws.                              *)
CrashRecorded(c) ==
  /\ LoopFree
  /\ listening
  /\ crash[c] = "none"
  /\ RecordPaused \/ RecordThrows \/ RecordAdmitted
  /\ crashEntry' = [crashEntry EXCEPT ![c] = IF recorded' = recorded THEN 0 ELSE recorded']
  /\ callback' = c
  /\ UNCHANGED <<lifeVars, guardVars, exitOnCrash, crash, crashTicket, crashMark, exited, alerted,
                 drainMark>>

(* The rest of it up to its await: boundedFlush() calls flush() and starts *)
(* the budget timer.                                                       *)
CrashAwaits(c) ==
  /\ ~exited
  /\ callback = c
  /\ \E ticket \in Tickets, upTo \in {drainMark, recorded} :
       /\ FlushCalled(ticket, upTo)
       /\ crashTicket' = [crashTicket EXCEPT ![c] = ticket]
       /\ crashMark' = [crashMark EXCEPT ![c] = upTo]
  /\ crash' = [crash EXCEPT ![c] = "awaiting"]
  /\ callback' = None
  /\ UNCHANGED <<lifeVars, guardVars, exitOnCrash, crashEntry, exited, alerted>>

(* finish(): the exit contract.                                            *)
Finish(c, how) ==
  /\ crash' = [crash EXCEPT ![c] = how]
  /\ exited' = exitOnCrash
  /\ UNCHANGED <<vars, lifeVars, guardVars, exitOnCrash, callback, crashEntry, crashTicket,
                 crashMark>>
  /\ UNCHANGED <<alerted, drainMark>>

(* The flush wins the race against the budget ...                          *)
CrashSettles(c) ==
  /\ ~exited
  /\ CrashResumes(c)
  /\ Finish(c, "settled")

(* ... or flushTimeoutMs elapses first.                                    *)
CrashBudgetForgotten(c) ==               \* mutant: the flush is awaited without a budget
  /\ crash[c] = "awaiting"
  /\ FALSE
  /\ UNCHANGED hostVars

CrashBudgetElapses(c) ==
  /\ LoopFree
  /\ crash[c] = "awaiting"
  /\ Finish(c, "expired")

CrashStep(c) == CrashAwaits(c) \/ CrashSettles(c) \/ CrashBudgetElapses(c)

ShutdownStep == BeginShutdown \/ AlerterIdle \/ CallClose \/ Closed

HostNext ==
  \/ HostRecords
  \/ FlushAdvances
  \/ TimerFires
  \/ Boot
  \/ DestroyModule
  \/ ShutdownStep
  \/ \E lagging \in BOOLEAN : Sample(lagging)
  \/ \E c \in Crashes : CrashRecorded(c) \/ CrashStep(c)

HostSpec == HostInit /\ [][HostNext]_hostVars

(* Timers fire and resolved promises resume; the alerter's idle() and the  *)
(* storage's close() resolve.  Nothing is assumed of store().              *)
TimersFair ==
  /\ WF_hostVars(Boot)
  /\ WF_hostVars(TimerFires)
  /\ WF_hostVars(ShutdownStep)
  /\ \A c \in Crashes : WF_hostVars(CrashStep(c))

HostFairSpec == HostSpec /\ TimersFair

(* What a storage promises that answers: every call of a flush settles.    *)
StorageAnswers == WF_hostVars(FlushAdvances)

-----------------------------------------------------------------------------
(* Properties.                                                             *)

HostTypeOK ==
  /\ TypeOK
  /\ life \in {"booting", "running", "destroyed", "draining", "flushing", "closing", "down"}
  /\ timer \in BOOLEAN
  /\ alerter \in BOOLEAN
  /\ alerted \subseteq Entry
  /\ guard \in BOOLEAN
  /\ warmup \in 0 .. WarmupSamples
  /\ listening \in BOOLEAN
  /\ exitOnCrash \in BOOLEAN
  /\ callback \in Crashes \cup {None}
  /\ crash \in [Crashes -> {"none", "awaiting", "settled", "expired"}]
  /\ crashEntry \in [Crashes -> Nat]
  /\ crashTicket \in [Crashes -> Nat]
  /\ crashMark \in [Crashes -> Nat]
  /\ shutTicket \in Nat
  /\ drainMark \in Nat
  /\ shutMark \in Nat
  /\ exited \in BOOLEAN

(* storage.close() never overtakes a store(), a retry, a rollup or a hook, *)
(* whoever started the flush they belong to (onApplicationShutdown: "always*)
(* close after the final flush").  The state has its type throughout.      *)
CloseAfterStores ==
  /\ HostTypeOK
  /\ life \in {"closing", "down"} => ~Flushing

Gone(upTo) == \A e \in 1 .. upTo : ~Pending(e)

(* A promise flush() returned, shared or not, resolves only when all that  *)
(* its flush drained is stored or dropped: for the shutdown and for every  *)
(* crash that awaited one.                                                 *)
FlushPromisesKept ==
  /\ life \in {"closing", "down"} => Gone(shutMark)
  /\ \A c \in Crashes : crash[c] = "settled" => Gone(crashMark[c])

(* While the alerter lives it is given exactly what was stored: nothing of *)
(* a dropped chunk, and nothing stored passes it by (onFlushStored).       *)
AlertsMatchStored == alerter => alerted = RangeOf(observed)

(* A captured crash ends an 'exit'-mode process even if the storage never  *)
(* answers (boundedFlush).                                                 *)
CrashExits == \A c \in Crashes : exitOnCrash /\ crash[c] = "awaiting" ~> exited

(* A shutdown that has begun ends, if the storage answers.                 *)
ShutdownCompletes ==
  StorageAnswers => (life = "destroyed" ~> life = "down" \/ exited)

=============================================================================
