----------------------------- MODULE MemoryManager -----------------------------
(***************************************************************************)
(* The background worker of memory/core/memory_manager.py and the agent    *)
(* loop that feeds it (core/agent.py).                                     *)
(*                                                                         *)
(* After a turn the agent calls sync_all and queue_prefetch_all; each      *)
(* hands one task to a lazily created executor with a single worker, which *)
(* runs the task's per-provider calls in registration order.  shutdown_all *)
(* drops the executor, cancels what it finds queued, waits a bounded time  *)
(* for the task in flight and shuts the providers down in reverse order.   *)
(* A task that finds no usable executor runs inline on the caller.         *)
(*                                                                         *)
(* Turns that carry no text worth remembering (a bare skill invocation)    *)
(* return from both calls before any state is touched and are not counted. *)
(***************************************************************************)
EXTENDS Naturals, Sequences, FiniteSets

CONSTANTS
    NumProviders,      (* length of self._providers: the builtin, then at most one external *)
    MaxTurn,           (* bound: turns handed over in a behaviour *)
    FlushTurns,        (* bound: turns after which flush_pending may be called *)
    Threaded,          (* shutdown_all runs on another thread than the turns *)
    MaxFaults          (* bound: times creating the executor or starting its thread raises
                          (resource exhaustion) *)

ASSUME ProvidersAssumption == NumProviders \in Nat \ {0}
ASSUME BoundAssumption     == MaxTurn \in Nat /\ MaxFaults \in Nat
ASSUME ModeAssumption      == Threaded \in BOOLEAN

Providers == 1 .. NumProviders
Turns     == 1 .. MaxTurn

(* The executor dropped by shutdown_all and the one a later call creates.  *)
Executors == 1 .. 2
NoExecutor == 0

(* A copy is a queued sync that its caller runs inline as well.            *)
Task == [kind : {"sync", "copy", "prefetch"}, turn : Turns] \cup [kind : {"barrier"}, turn : 0 .. MaxTurn]
NoTask == [kind |-> "none", turn |-> 0]

VARIABLES
    turn,       (* turns handed to sync_all so far *)
    pc,         (* where the calling thread is in _submit_background / flush_pending *)
    todo,       (* tasks of this post-turn not yet handed over, first one in hand *)
    ref,        (* the executor _get_sync_executor returned to the caller *)
    current,    (* self._sync_executor *)
    made,       (* executors created so far *)
    open,       (* executors that accept submit() *)
    started,    (* executors whose worker thread runs *)
    queue,      (* each executor's work queue *)
    job,        (* the task each worker runs, and ... *)
    at,         (* ... the provider whose method it is in *)
    inlineAt,   (* the provider an inline task is in *)
    landed,     (* per provider, the turns whose sync_turn returned, in order *)
    missed,     (* per provider, the turns whose sync_turn raised *)
    repeated,   (* per provider, the turns it was given a second time *)
    cancelled,  (* turns whose queued sync was cancelled by shutdown *)
    faults,     (* times the executor or its thread could not be had *)
    flushed,    (* last turn a True result of flush_pending certified *)
    td,         (* progress of shutdown_all *)
    tdRef,      (* the executor being drained *)
    timedOut,   (* the drain window closed with the task still in flight *)
    closed,     (* providers whose shutdown() has been called *)
    exit        (* the interpreter: running, joining its workers, gone *)

callerVars == <<turn, pc, todo, ref, inlineAt, faults, flushed>>
execVars   == <<current, made, open, started, queue, job, at>>
logVars    == <<landed, missed, repeated, cancelled>>
tdVars     == <<td, tdRef, timedOut, closed, exit>>
vars == <<callerVars, execVars, logVars, tdVars>>

--------------------------------------------------------------------------------

Init ==
    /\ turn = 0 /\ pc = "idle" /\ todo = <<>> /\ ref = NoExecutor
    /\ inlineAt = 1 /\ faults = 0 /\ flushed = 0
    /\ current = NoExecutor /\ made = 0
    /\ open  = [e \in Executors |-> FALSE] /\ started = open
    /\ queue = [e \in Executors |-> <<>>]
    /\ job   = [e \in Executors |-> NoTask]
    /\ at    = [e \in Executors |-> 1]
    /\ landed = [p \in Providers |-> <<>>]
    /\ missed = [p \in Providers |-> {}] /\ repeated = missed
    /\ cancelled = {}
    /\ td = "up" /\ tdRef = NoExecutor /\ timedOut = FALSE /\ closed = {}
    /\ exit = "no"

(* A sync_turn call of turn t on provider p returns or raises.             *)
Returns(p, t) == /\ landed' = [landed EXCEPT ![p] = Append(@, t)]
                 /\ UNCHANGED <<missed, repeated>>
Raises(p, t)  == /\ missed' = [missed EXCEPT ![p] = @ \cup {t}]
                 /\ UNCHANGED <<landed, repeated>>
Repeats(p, t) == /\ repeated' = [repeated EXCEPT ![p] = @ \cup {t}]
                 /\ UNCHANGED <<landed, missed>>
Outcome(task, p) ==
    CASE task.kind = "sync" -> Returns(p, task.turn) \/ Raises(p, task.turn)
      [] task.kind = "copy" -> Repeats(p, task.turn)
      [] OTHER -> UNCHANGED <<landed, missed, repeated>>

(* The post-turn goes on with the next task, or is over.                   *)
HandedOver == /\ todo' = Tail(todo)
              /\ pc' = IF Tail(todo) = <<>> THEN "idle" ELSE "get"

--------------------------------------------------------------------------------
(* Mutants: each is the definition it is named after with a plausible bug  *)
(* in it.  They are not part of the specification.                         *)

AvailableDuringShutdown == exit = "no"

(* A refused task is handed to the same executor again and again.          *)
SubmitRejectedRetries == pc = "submit" /\ ~open[ref] /\ UNCHANGED vars

(* A refused task is dropped.                                              *)
SubmitRejectedDrops ==
    /\ pc = "submit" /\ ~open[ref]
    /\ HandedOver
    /\ UNCHANGED <<turn, ref, inlineAt, faults, flushed, execVars, logVars, tdVars>>

(* A timeout is reported as a drain.                                       *)
FlushFailsQuietly ==
    /\ pc = "await"
    /\ pc' = "idle" /\ flushed' = turn
    /\ UNCHANGED <<turn, todo, ref, inlineAt, faults, execVars, logVars, tdVars>>

(* The task stays in the queue it was taken from.                          *)
StartJobPeeks(e) ==
    /\ started[e] /\ job[e] = NoTask /\ queue[e] # <<>>
    /\ job' = [job EXCEPT ![e] = Head(queue[e])]
    /\ at' = [at EXCEPT ![e] = 1]
    /\ UNCHANGED <<callerVars, current, made, open, started, queue, logVars, tdVars>>

(* The fan-out runs past the last provider.                                *)
CallReturnsOverruns(e) ==
    /\ job[e].kind \in {"sync", "copy", "prefetch"} /\ at[e] \in Providers
    /\ Outcome(job[e], at[e])
    /\ at' = [at EXCEPT ![e] = @ + 1]
    /\ UNCHANGED <<callerVars, current, made, open, started, queue, job, cancelled, tdVars>>

(* Providers are shut down without waiting for the task in flight.         *)
DrainedAtOnce ==
    /\ td = "draining" /\ td' = "closing"
    /\ UNCHANGED <<callerVars, execVars, logVars, tdRef, timedOut, closed, exit>>

(* The sync in flight is cancelled with the queue.                         *)
CancelledAllAndRunning ==
    /\ td = "cancelling" /\ queue[tdRef] = <<>>
    /\ td' = "draining"
    /\ cancelled' = IF job[tdRef].kind = "sync" THEN cancelled \cup {job[tdRef].turn} ELSE cancelled
    /\ job' = [job EXCEPT ![tdRef] = NoTask]
    /\ UNCHANGED <<callerVars, current, made, open, started, queue, at, landed, missed, repeated>>
    /\ UNCHANGED <<tdRef, timedOut, closed, exit>>

(* The drain waits for the task in flight however long it takes.           *)
DrainTimeoutNever == FALSE /\ UNCHANGED vars

--------------------------------------------------------------------------------
(* The calling thread.                                                     *)

(* The agent still holds the manager.  On one event loop stop() blocks the *)
(* loop, so no turn overlaps shutdown_all; the manager is dropped after it. *)
Available == exit = "no" /\ IF Threaded THEN td # "down" ELSE td = "up"

PostTurn ==
    /\ Available /\ pc = "idle" /\ turn < MaxTurn
    /\ turn' = turn + 1
    /\ todo' = << [kind |-> "sync", turn |-> turn'], [kind |-> "prefetch", turn |-> turn'] >>
    /\ pc' = "get"
    /\ UNCHANGED <<ref, inlineAt, faults, flushed, execVars, logVars, tdVars>>

GetExecutor ==
    /\ pc = "get"
    /\ IF current = NoExecutor
       THEN /\ made' = made + 1 /\ current' = made'
            /\ open' = [open EXCEPT ![made'] = TRUE]
       ELSE UNCHANGED <<made, current, open>>
    /\ ref' = current'
    /\ pc' = "submit"
    /\ UNCHANGED <<turn, todo, inlineAt, faults, flushed, started, queue, job, at, logVars, tdVars>>

CreateFails ==
    /\ pc = "get" /\ current = NoExecutor
    /\ faults < MaxFaults /\ faults' = faults + 1
    /\ pc' = "inline" /\ inlineAt' = 1
    /\ UNCHANGED <<turn, todo, ref, flushed, execVars, logVars, tdVars>>

SubmitAccepted ==
    /\ pc = "submit" /\ open[ref]
    /\ queue' = [queue EXCEPT ![ref] = Append(@, Head(todo))]
    /\ started' = [started EXCEPT ![ref] = TRUE]
    /\ HandedOver
    /\ UNCHANGED <<turn, ref, inlineAt, faults, flushed, current, made, open, job, at, logVars, tdVars>>

(* submit() holds the lock under which shutdown() closes the executor and  *)
(* cancels its queue.                                                      *)
Locked(e) == td = "cancelling" /\ tdRef = e

SubmitRejected ==
    /\ pc = "submit" /\ ~open[ref] /\ ~Locked(ref)
    /\ pc' = "inline" /\ inlineAt' = 1
    /\ UNCHANGED <<turn, todo, ref, faults, flushed, execVars, logVars, tdVars>>

(* submit() queues the task and then cannot start the thread: it raises    *)
(* the same RuntimeError, the task runs inline and its copy stays queued   *)
(* until a later submit() starts the thread.                               *)
Copy(task) == [task EXCEPT !.kind = IF @ = "sync" THEN "copy" ELSE @]

SubmitHalfway ==
    /\ pc = "submit" /\ open[ref] /\ ~started[ref]
    /\ faults < MaxFaults /\ faults' = faults + 1
    /\ queue' = [queue EXCEPT ![ref] = Append(@, Copy(Head(todo)))]
    /\ pc' = "inline" /\ inlineAt' = 1
    /\ UNCHANGED <<turn, todo, ref, flushed, current, made, open, started, job, at, logVars, tdVars>>

InlineReturns ==
    /\ pc = "inline"
    /\ Outcome(Head(todo), inlineAt)
    /\ IF inlineAt < NumProviders
       THEN inlineAt' = inlineAt + 1 /\ UNCHANGED <<todo, pc>>
       ELSE HandedOver /\ inlineAt' = 1
    /\ UNCHANGED <<turn, ref, faults, flushed, execVars, cancelled, tdVars>>

(* The manager is dropped between the two calls of a post-turn: the second *)
(* raises on None and the agent logs it.                                   *)
ManagerDropped ==
    /\ pc = "get" /\ Head(todo).kind = "prefetch" /\ td = "down"
    /\ HandedOver
    /\ UNCHANGED <<turn, ref, inlineAt, faults, flushed, execVars, logVars, tdVars>>

(* flush_pending: True at once when there is no executor or it refuses the *)
(* sentinel, else a wait for the sentinel that may time out or be          *)
(* cancelled.  Bounds: it is called after the turns FlushTurns only, and   *)
(* puts no second sentinel of a turn in while one is queued.               *)
Sentinel == [kind |-> "barrier", turn |-> turn]
NoSentinelQueued == \A e \in Executors :
    /\ job[e] # Sentinel
    /\ \A i \in DOMAIN queue[e] : queue[e][i] # Sentinel

FlushBegin ==
    /\ Available /\ pc = "idle" /\ turn \in FlushTurns /\ NoSentinelQueued
    /\ IF current = NoExecutor THEN flushed' = turn /\ UNCHANGED <<ref, pc>>
                               ELSE ref' = current /\ pc' = "flush" /\ UNCHANGED flushed
    /\ UNCHANGED <<turn, todo, inlineAt, faults, execVars, logVars, tdVars>>

FlushSubmit ==
    /\ pc = "flush" /\ ~Locked(ref)
    /\ IF open[ref]
       THEN /\ queue' = [queue EXCEPT ![ref] = Append(@, Sentinel)]
            /\ started' = [started EXCEPT ![ref] = TRUE]
            /\ pc' = "await" /\ UNCHANGED flushed
       ELSE flushed' = turn /\ pc' = "idle" /\ UNCHANGED <<queue, started>>
    /\ UNCHANGED <<turn, todo, ref, inlineAt, faults, current, made, open, job, at, logVars, tdVars>>

(* The sentinel is queued, its thread does not start: "nothing pending".   *)
FlushHalfway ==
    /\ pc = "flush" /\ open[ref] /\ ~started[ref]
    /\ faults < MaxFaults /\ faults' = faults + 1
    /\ queue' = [queue EXCEPT ![ref] = Append(@, Sentinel)]
    /\ flushed' = turn /\ pc' = "idle"
    /\ UNCHANGED <<turn, todo, ref, inlineAt, current, made, open, started, job, at, logVars, tdVars>>

FlushFails ==
    /\ pc = "await"
    /\ pc' = "idle"
    /\ UNCHANGED <<turn, todo, ref, inlineAt, faults, flushed, execVars, logVars, tdVars>>

--------------------------------------------------------------------------------
(* The worker of executor e.                                               *)

StartJob(e) ==
    /\ started[e] /\ job[e] = NoTask /\ queue[e] # <<>>
    /\ job' = [job EXCEPT ![e] = Head(queue[e])]
    /\ at' = [at EXCEPT ![e] = 1]
    /\ queue' = [queue EXCEPT ![e] = Tail(@)]
    /\ UNCHANGED <<callerVars, current, made, open, started, logVars, tdVars>>

CallReturns(e) ==
    /\ job[e].kind \in {"sync", "copy", "prefetch"}
    /\ Outcome(job[e], at[e])
    /\ IF at[e] < NumProviders
       THEN at' = [at EXCEPT ![e] = @ + 1] /\ UNCHANGED job
       ELSE job' = [job EXCEPT ![e] = NoTask] /\ at' = [at EXCEPT ![e] = 1]
    /\ UNCHANGED <<callerVars, current, made, open, started, queue, cancelled, tdVars>>

BarrierRuns(e) ==
    /\ job[e].kind = "barrier"
    /\ job' = [job EXCEPT ![e] = NoTask]
    /\ IF pc = "await" /\ job[e] = Sentinel
       THEN flushed' = turn /\ pc' = "idle"
       ELSE UNCHANGED <<flushed, pc>>
    /\ UNCHANGED <<turn, todo, ref, inlineAt, faults, current, made, open, started, queue, at, logVars, tdVars>>

--------------------------------------------------------------------------------
(* shutdown_all, called once: the agent drops the manager after it.        *)

TakeExecutor ==
    /\ td = "up" /\ exit = "no"
    /\ Threaded \/ pc = "idle"
    /\ tdRef' = current /\ current' = NoExecutor
    /\ td' = IF current = NoExecutor THEN "closing" ELSE "taken"
    /\ UNCHANGED <<callerVars, made, open, started, queue, job, at, logVars, timedOut, closed, exit>>

(* executor.shutdown(wait=False, cancel_futures=True): no more submits,    *)
(* and the queued tasks are taken out and cancelled one by one, while the  *)
(* worker may be taking them too.                                          *)
StopAccepting ==
    /\ td = "taken" /\ td' = "cancelling"
    /\ open' = [open EXCEPT ![tdRef] = FALSE]
    /\ UNCHANGED <<callerVars, current, made, started, queue, job, at, logVars, tdRef, timedOut, closed, exit>>

CancelQueued ==
    /\ td = "cancelling" /\ queue[tdRef] # <<>>
    /\ queue' = [queue EXCEPT ![tdRef] = Tail(@)]
    /\ cancelled' = IF Head(queue[tdRef]).kind = "sync"
                    THEN cancelled \cup {Head(queue[tdRef]).turn} ELSE cancelled
    /\ UNCHANGED <<callerVars, current, made, open, started, job, at, landed, missed, repeated, tdVars>>

CancelledAll ==
    /\ td = "cancelling" /\ queue[tdRef] = <<>>
    /\ td' = "draining"
    /\ UNCHANGED <<callerVars, execVars, logVars, tdRef, timedOut, closed, exit>>

Drained ==
    /\ td = "draining" /\ job[tdRef] = NoTask
    /\ td' = "closing"
    /\ UNCHANGED <<callerVars, execVars, logVars, tdRef, timedOut, closed, exit>>

DrainTimeout ==
    /\ td = "draining" /\ job[tdRef] # NoTask
    /\ td' = "closing" /\ timedOut' = TRUE
    /\ UNCHANGED <<callerVars, execVars, logVars, tdRef, closed, exit>>

CloseProvider(p) ==
    /\ td = "closing" /\ p \notin closed
    /\ \A q \in Providers \ closed : q <= p
    /\ closed' = closed \cup {p}
    /\ td' = IF closed' = Providers THEN "down" ELSE "closing"
    /\ UNCHANGED <<callerVars, execVars, logVars, tdRef, timedOut, exit>>

--------------------------------------------------------------------------------
(* Interpreter exit: concurrent.futures joins every worker it ever started *)
(* and lets each finish its queue first.                                   *)

BeginExit ==
    /\ exit = "no" /\ pc = "idle" /\ td \in {"up", "down"}
    /\ exit' = "joining"
    /\ UNCHANGED <<callerVars, execVars, logVars, td, tdRef, timedOut, closed>>

EndExit ==
    /\ exit = "joining"
    /\ \A e \in Executors : job[e] = NoTask /\ (started[e] => queue[e] = <<>>)
    /\ exit' = "gone"
    /\ UNCHANGED <<callerVars, execVars, logVars, td, tdRef, timedOut, closed>>

Terminated == exit = "gone" /\ UNCHANGED vars

--------------------------------------------------------------------------------

Caller   == PostTurn \/ GetExecutor \/ CreateFails \/ SubmitAccepted \/ SubmitRejected
            \/ SubmitHalfway \/ InlineReturns \/ ManagerDropped
            \/ FlushBegin \/ FlushSubmit \/ FlushHalfway \/ FlushFails
Worker(e) == StartJob(e) \/ CallReturns(e) \/ BarrierRuns(e)
Teardown == TakeExecutor \/ StopAccepting \/ CancelQueued \/ CancelledAll
            \/ Drained \/ DrainTimeout
            \/ \E p \in Providers : CloseProvider(p)
Next == Caller \/ (\E e \in Executors : Worker(e)) \/ Teardown
        \/ BeginExit \/ EndExit \/ Terminated

Spec == Init /\ [][Next]_vars

(* Whatever a provider does, the caller moves on from a hand-over, an idle *)
(* worker takes the next task, a drain ends and the interpreter leaves     *)
(* once its workers are done.  Nothing obliges a turn, a flush or a        *)
(* shutdown to begin, nor any provider call to come back: neither a sync   *)
(* or prefetch nor a shutdown(), which shutdown_all calls inline with no   *)
(* bound.                                                                  *)
PlumbingFairness ==
    /\ WF_vars(GetExecutor \/ SubmitAccepted \/ SubmitRejected \/ FlushSubmit)
    /\ \A e \in Executors : WF_vars(StartJob(e) \/ BarrierRuns(e))
    /\ WF_vars(StopAccepting \/ CancelQueued \/ CancelledAll \/ Drained \/ DrainTimeout)
    /\ WF_vars(EndExit)

(* Provider calls may hang: only the plumbing is fair.                     *)
WedgeSpec == Spec /\ PlumbingFairness

(* Every sync and prefetch returns or raises in the end (a broken daemon   *)
(* was seen to take 298 s to fail, but it failed).                         *)
ReturnsFairness == /\ \A e \in Executors : WF_vars(CallReturns(e))
                   /\ WF_vars(InlineReturns)

--------------------------------------------------------------------------------
(* Properties.                                                             *)

CallerOK ==
    /\ turn \in 0 .. MaxTurn /\ faults \in 0 .. MaxFaults /\ flushed \in 0 .. MaxTurn
    /\ pc \in {"idle", "get", "submit", "inline", "flush", "await"}
    /\ todo \in Seq(Task) /\ Len(todo) <= 2
    /\ ref \in Executors \cup {NoExecutor} /\ inlineAt \in Providers
ExecOK ==
    /\ current \in Executors \cup {NoExecutor} /\ made \in 0 .. 2
    /\ open \in [Executors -> BOOLEAN] /\ started \in [Executors -> BOOLEAN]
    /\ queue \in [Executors -> Seq(Task)]
    /\ job \in [Executors -> Task \cup {NoTask}] /\ at \in [Executors -> Providers]
LogOK ==
    /\ landed \in [Providers -> Seq(Turns)]
    /\ missed \in [Providers -> SUBSET Turns] /\ repeated \in [Providers -> SUBSET Turns]
    /\ cancelled \in SUBSET Turns
TeardownOK ==
    /\ td \in {"up", "taken", "cancelling", "draining", "closing", "down"}
    /\ tdRef \in Executors \cup {NoExecutor} /\ timedOut \in BOOLEAN
    /\ closed \in SUBSET Providers /\ exit \in {"no", "joining", "gone"}

TypeOK == CallerOK /\ ExecOK /\ LogOK /\ TeardownOK

(* The turns a provider has been offered: its sync_turn returned or raised.*)
LandedAt(p) == {landed[p][i] : i \in DOMAIN landed[p]}
Offered(p)  == LandedAt(p) \cup missed[p]

(* The sync tasks not done yet, wherever they are.                         *)
QueuedSyncs(e) == {queue[e][i].turn : i \in {k \in DOMAIN queue[e] : queue[e][k].kind = "sync"}}
TodoSyncs   == {todo[i].turn : i \in {k \in DOMAIN todo : todo[k].kind = "sync"}}
RunningOn(p) == {job[e].turn : e \in {x \in Executors : job[x].kind = "sync" /\ at[x] <= p}}
Owed(p) == (UNION {QueuedSyncs(e) : e \in Executors}) \cup RunningOn(p)
           \cup IF pc = "inline" /\ inlineAt > p THEN {} ELSE TodoSyncs

(* sync_all: "Writes are serialized through a single worker so turn N      *)
(* lands before turn N+1" (memory_manager.py:579), for the first delivery  *)
(* of each turn: a copy may come again later.                              *)
TurnOrder ==
    \A p \in Providers : \A i, j \in DOMAIN landed[p] : i < j => landed[p][i] < landed[p][j]

(* _submit_background "never los[es] the write itself": whatever path      *)
(* (worker, refused submit, inline) its task takes, a turn handed over is, *)
(* for each provider, accepted once, refused, on its way or cancelled by a *)
(* shutdown that has begun, and only one of these.  Only a turn a provider *)
(* has already been offered is given to it again.                          *)
Accounted ==
    /\ \A p \in Providers :
        /\ \A i, j \in DOMAIN landed[p] : i # j => landed[p][i] # landed[p][j]
        /\ LandedAt(p) \cap missed[p] = {} /\ Offered(p) \cap Owed(p) = {}
        /\ 1 .. turn = Offered(p) \cup Owed(p) \cup cancelled
        /\ cancelled \cap (Offered(p) \cup Owed(p)) = {}
        /\ repeated[p] \subseteq Offered(p)
    /\ cancelled # {} => td \notin {"up", "taken"}

(* flush_pending returned True after turn n: every turn up to n has been   *)
(* offered to every provider.                                              *)
FlushCertifies == \A p \in Providers : 1 .. flushed \subseteq Offered(p)

(* The workers inside a provider's method.                                 *)
Inside == {e \in Executors : job[e].kind \in {"sync", "copy", "prefetch"}}
(* A provider that has been shut down is not called again, unless the      *)
(* drain window closed on a task still in flight.                          *)
QuietAfterShutdown == ~timedOut => \A e \in Inside : at[e] \notin closed

(* The promise as an abstract specification.  It has each provider offered *)
(* the oldest turn it is owed, and a turn written off by teardown only     *)
(* before any provider was offered it: the providers' stores never         *)
(* disagree on what was dropped.  A newer turn may still be delivered.     *)
Delivery == INSTANCE TurnDelivery WITH
    handed <- turn, log <- landed, owed <- [p \in Providers |-> Owed(p)],
    lost <- cancelled, ending <- td # "up"
DeliverySpec == Delivery!Spec

(* When provider calls come back, every turn handed over is in the end     *)
(* offered to every provider or cancelled by a shutdown.                   *)
EventuallyOffered ==
    ReturnsFairness =>
        \A t \in Turns : (turn >= t) ~> (t \in cancelled \/ \A p \in Providers : t \in Offered(p))

(* "a slow or broken provider can never stall the turn": the hand-over of  *)
(* a turn ends even if the worker's provider call never does; only a task  *)
(* that found no usable executor waits for its own call.                   *)
TurnNeverStalls == WF_vars(InlineReturns) => ((pc \in {"get", "submit", "inline"}) ~> (pc = "idle"))

(* "A wedged provider must never block process teardown" holds of a sync   *)
(* or prefetch call that never ends: shutdown_all ends all the same, if    *)
(* each provider's own shutdown(), called inline, returns or raises.       *)
TeardownEnds ==
    (\A p \in Providers : WF_vars(CloseProvider(p))) => ((td # "up") ~> (td = "down"))

(* "the worker threads are daemon, so anything still running past this     *)
(* window dies with the interpreter" (memory_manager.py:42): exit is not   *)
(* held up by a provider call.                                             *)
ExitEnds == (td = "down" /\ exit = "joining") ~> (exit = "gone")
================================================================================
