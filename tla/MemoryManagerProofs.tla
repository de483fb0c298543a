-------------------------- MODULE MemoryManagerProofs --------------------------
(***************************************************************************)
(* Theorems about MemoryManager for every number of providers and turns:   *)
(* it is type correct in both modes, and on one event loop turns land in   *)
(* order at every provider.                                                *)
(***************************************************************************)
EXTENDS MemoryManager, TLAPS

(* Which executors exist, who holds which, and what the caller has in hand.*)
ShapeInv ==
    /\ current \in {NoExecutor, made}
    /\ td = "up" => current = made /\ made <= 1
    /\ made = 2 => current = 2
    /\ pc \in {"get", "submit", "inline"} <=> todo # <<>>
    /\ pc \in {"submit", "flush", "await"} => ref \in Executors
    /\ td \in {"taken", "cancelling", "draining"} => tdRef \in Executors

TypeInv == TypeOK /\ ShapeInv

--------------------------------------------------------------------------------
(* Facts about sequences that the steps need.                              *)

LEMMA AppendFacts ==
    ASSUME NEW S, NEW s \in Seq(S), NEW x \in S
    PROVE  /\ Append(s, x) \in Seq(S)
           /\ Len(Append(s, x)) = Len(s) + 1
           /\ DOMAIN Append(s, x) = 1 .. Len(s) + 1
           /\ \A i \in DOMAIN s : i \in DOMAIN Append(s, x) /\ Append(s, x)[i] = s[i]
           /\ Append(s, x)[Len(s) + 1] = x
    OBVIOUS

LEMMA TailFacts ==
    ASSUME NEW S, NEW s \in Seq(S), s # <<>>
    PROVE  /\ Head(s) \in S /\ Head(s) = s[1] /\ 1 \in DOMAIN s
           /\ Tail(s) \in Seq(S) /\ Len(Tail(s)) = Len(s) - 1
           /\ DOMAIN Tail(s) = 1 .. Len(s) - 1
           /\ \A i \in DOMAIN Tail(s) : i + 1 \in DOMAIN s /\ Tail(s)[i] = s[i + 1]
    OBVIOUS

--------------------------------------------------------------------------------
(* Type correctness.                                                       *)

LEMMA TaskFacts ==
    /\ \A x \in Task : /\ x.turn \in 0 .. MaxTurn
                       /\ x.kind \in {"sync", "copy", "prefetch", "barrier"}
                       /\ x.kind \in {"sync", "copy", "prefetch"} => x.turn \in Turns
                       /\ Copy(x) \in Task /\ Copy(x).kind # "sync" /\ Copy(x).turn = x.turn
    /\ \A n \in Turns : /\ [kind |-> "sync", turn |-> n] \in Task
                        /\ [kind |-> "prefetch", turn |-> n] \in Task
    /\ \A n \in 0 .. MaxTurn : [kind |-> "barrier", turn |-> n] \in Task
    /\ NoTask.kind = "none" /\ NoTask.turn = 0
  BY BoundAssumption DEF Task, Turns, NoTask, Copy

(* A provider call, whichever thread makes it, keeps the logs well typed.  *)
LEMMA OutcomeType ==
    ASSUME NEW x, x.kind \in {"sync", "copy"} => x.turn \in Turns, NEW p \in Providers,
           landed \in [Providers -> Seq(Turns)], missed \in [Providers -> SUBSET Turns],
           repeated \in [Providers -> SUBSET Turns], Outcome(x, p)
    PROVE  /\ landed' \in [Providers -> Seq(Turns)]
           /\ missed' \in [Providers -> SUBSET Turns] /\ repeated' \in [Providers -> SUBSET Turns]
  <1>1. CASE x.kind = "sync" /\ Returns(p, x.turn)
    <2>1. Append(landed[p], x.turn) \in Seq(Turns)
      BY <1>1, AppendFacts
    <2>2. QED
      BY <1>1, <2>1 DEF Returns
  <1>2. CASE x.kind = "sync" /\ Raises(p, x.turn)
    BY <1>2 DEF Raises
  <1>3. CASE x.kind = "copy"
    BY <1>3 DEF Outcome, Repeats
  <1>4. CASE x.kind \notin {"sync", "copy"}
    BY <1>4 DEF Outcome
  <1>5. QED
    BY <1>1, <1>2, <1>3, <1>4 DEF Outcome

LEMMA InitTypeInv == Init => TypeInv
  <1> SUFFICES ASSUME Init PROVE TypeInv
    OBVIOUS
  <1>1. <<>> \in Seq(Task) /\ <<>> \in Seq(Turns) /\ Len(<<>>) = 0
    OBVIOUS
  <1>2. 1 \in Providers
    BY ProvidersAssumption DEF Providers
  <1>3. 0 \in 0 .. MaxTurn /\ 0 \in 0 .. MaxFaults
    BY BoundAssumption
  <1>4. TypeOK
    <2>1. /\ open \in [Executors -> BOOLEAN] /\ started \in [Executors -> BOOLEAN]
          /\ queue \in [Executors -> Seq(Task)]
          /\ job \in [Executors -> Task \cup {NoTask}] /\ at \in [Executors -> Providers]
      BY <1>1, <1>2 DEF Init
    <2>2. /\ landed \in [Providers -> Seq(Turns)]
          /\ missed \in [Providers -> SUBSET Turns] /\ repeated \in [Providers -> SUBSET Turns]
      BY <1>1 DEF Init
    <2>3. /\ pc \in {"idle", "get", "submit", "inline", "flush", "await"}
          /\ td \in {"up", "taken", "cancelling", "draining", "closing", "down"}
          /\ timedOut \in BOOLEAN /\ exit \in {"no", "joining", "gone"}
          /\ cancelled \in SUBSET Turns /\ closed \in SUBSET Providers
      BY DEF Init
    <2>4. /\ turn \in 0 .. MaxTurn /\ faults \in 0 .. MaxFaults /\ flushed \in 0 .. MaxTurn /\ made \in 0 .. 2
          /\ todo \in Seq(Task) /\ Len(todo) <= 2 /\ inlineAt \in Providers
      BY <1>1, <1>2, <1>3 DEF Init
    <2>5. /\ ref \in Executors \cup {NoExecutor} /\ current \in Executors \cup {NoExecutor}
          /\ tdRef \in Executors \cup {NoExecutor}
      BY DEF Init
    <2>6. QED
      BY <2>1, <2>2, <2>3, <2>4, <2>5 DEF TypeOK, CallerOK, ExecOK, LogOK, TeardownOK
  <1>5. ShapeInv
    BY DEF Init, ShapeInv, NoExecutor
  <1>6. QED
    BY <1>4, <1>5 DEF TypeInv

(* Removing the head of the tasks in hand.                                 *)
LEMMA HandedOverType ==
    ASSUME TypeInv, pc \in {"get", "submit", "inline"}, HandedOver
    PROVE  /\ todo' \in Seq(Task) /\ Len(todo') <= 2
           /\ pc' \in {"idle", "get"}
           /\ pc' = "get" <=> todo' # <<>>
           /\ Head(todo) \in Task
  BY TailFacts DEF TypeInv, TypeOK, CallerOK, ExecOK, LogOK, TeardownOK, ShapeInv, HandedOver

--------------------------------------------------------------------------------
(* One step per action.  The variables an action leaves alone keep their   *)
(* types by themselves.                                                    *)

(* An action that leaves a group of variables alone leaves its type alone. *)
LEMMA UnchangedGroups ==
    /\ CallerOK /\ UNCHANGED callerVars => CallerOK'
    /\ ExecOK /\ UNCHANGED execVars => ExecOK'
    /\ LogOK /\ UNCHANGED logVars => LogOK'
    /\ TeardownOK /\ UNCHANGED tdVars => TeardownOK'
  BY DEF CallerOK, ExecOK, LogOK, TeardownOK, callerVars, execVars, logVars, tdVars

LEMMA CallerStepType ==
    ASSUME TypeInv, Caller PROVE TypeInv'
  <1> USE DEF TypeInv, TypeOK
  <1>1. CASE PostTurn
    <2>1. turn' \in Turns
      BY <1>1, BoundAssumption DEF PostTurn, CallerOK, Turns
    <2>2. todo' \in Seq(Task) /\ Len(todo') = 2 /\ todo' # <<>>
      BY <1>1, <2>1, TaskFacts DEF PostTurn
    <2>3. CallerOK'
      BY <1>1, <2>1, <2>2, BoundAssumption DEF PostTurn, CallerOK, Turns
    <2>4. ShapeInv'
      BY <1>1, <2>2 DEF PostTurn, ShapeInv, execVars, tdVars
    <2>5. QED
      BY <1>1, <2>3, <2>4, UnchangedGroups DEF PostTurn
  <1>2. CASE GetExecutor
    <2>1. made' \in 0 .. 2 /\ current' \in Executors
      BY <1>2 DEF GetExecutor, ExecOK, ShapeInv, Executors, NoExecutor
    <2>1a. open' \in [Executors -> BOOLEAN]
      BY <1>2 DEF GetExecutor, ExecOK
    <2>1b. ExecOK' /\ CallerOK'
      BY <1>2, <2>1, <2>1a DEF GetExecutor, ExecOK, CallerOK
    <2>2. ShapeInv'
      BY <1>2 DEF GetExecutor, ExecOK, CallerOK, ShapeInv, Executors, NoExecutor, tdVars
    <2>3. QED
      BY <1>2, <2>1b, <2>2, UnchangedGroups DEF GetExecutor
  <1>3. CASE CreateFails \/ SubmitRejected
    <2>1. 1 \in Providers
      BY ProvidersAssumption DEF Providers
    <2>2. CallerOK' /\ ShapeInv'
      BY <1>3, <2>1, BoundAssumption DEF CreateFails, SubmitRejected, CallerOK, ShapeInv, execVars, tdVars
    <2>3. QED
      BY <1>3, <2>2, UnchangedGroups DEF CreateFails, SubmitRejected
  <1>3a. CASE SubmitHalfway
    <2>1. 1 \in Providers
      BY ProvidersAssumption DEF Providers
    <2>2. ExecOK'
      <3>1. Head(todo) \in Task
        BY <1>3a, TailFacts DEF SubmitHalfway, CallerOK, ShapeInv
      <3>2. Append(queue[ref], Copy(Head(todo))) \in Seq(Task)
        BY <1>3a, <3>1, TaskFacts, AppendFacts DEF SubmitHalfway, ExecOK, ShapeInv
      <3>3. QED
        BY <1>3a, <3>2 DEF SubmitHalfway, ExecOK
    <2>3. CallerOK' /\ ShapeInv'
      BY <1>3a, <2>1, BoundAssumption DEF SubmitHalfway, CallerOK, ShapeInv, tdVars
    <2>4. QED
      BY <1>3a, <2>2, <2>3, UnchangedGroups DEF SubmitHalfway
  <1>4. CASE SubmitAccepted
    <2>1. pc \in {"get", "submit", "inline"} /\ HandedOver
      BY <1>4 DEF SubmitAccepted
    <2>2. ExecOK'
      <3>1. Append(queue[ref], Head(todo)) \in Seq(Task)
        BY <1>4, <2>1, HandedOverType, AppendFacts DEF SubmitAccepted, ExecOK, ShapeInv
      <3>2. QED
        BY <1>4, <3>1 DEF SubmitAccepted, ExecOK
    <2>3. CallerOK' /\ ShapeInv'
      BY <1>4, <2>1, HandedOverType DEF SubmitAccepted, CallerOK, ShapeInv, tdVars
    <2>4. QED
      BY <1>4, <2>2, <2>3, UnchangedGroups DEF SubmitAccepted
  <1>5. CASE InlineReturns
    <2>1. Head(todo) \in Task
      BY <1>5, TailFacts DEF InlineReturns, CallerOK, ShapeInv
    <2>2. LogOK'
      <3>1. /\ Head(todo).kind \in {"sync", "copy"} => Head(todo).turn \in Turns
            /\ Outcome(Head(todo), inlineAt) /\ inlineAt \in Providers
        BY <1>5, <2>1, TaskFacts DEF InlineReturns, CallerOK
      <3>2. /\ landed' \in [Providers -> Seq(Turns)]
            /\ missed' \in [Providers -> SUBSET Turns] /\ repeated' \in [Providers -> SUBSET Turns]
        BY <3>1, OutcomeType DEF LogOK
      <3>3. QED
        BY <1>5, <3>2 DEF InlineReturns, LogOK
    <2>3. CallerOK' /\ ShapeInv'
      <3>1. CASE inlineAt < NumProviders
        BY <1>5, <3>1, ProvidersAssumption
           DEF InlineReturns, CallerOK, ShapeInv, Providers, execVars, tdVars
      <3>2. CASE ~(inlineAt < NumProviders)
        <4>1. HandedOver /\ inlineAt' = 1 /\ 1 \in Providers
          BY <1>5, <3>2, ProvidersAssumption DEF InlineReturns, Providers
        <4>2. QED
          BY <1>5, <4>1, HandedOverType DEF InlineReturns, CallerOK, ShapeInv, execVars, tdVars
      <3>3. QED
        BY <3>1, <3>2
    <2>4. QED
      BY <1>5, <2>2, <2>3, UnchangedGroups DEF InlineReturns
  <1>6. CASE ManagerDropped
    <2>1. CallerOK' /\ ShapeInv'
      BY <1>6, HandedOverType DEF ManagerDropped, CallerOK, ShapeInv, execVars, tdVars
    <2>2. QED
      BY <1>6, <2>1, UnchangedGroups DEF ManagerDropped
  <1>7. CASE FlushBegin
    <2>1. CallerOK' /\ ShapeInv'
      BY <1>7 DEF FlushBegin, CallerOK, ExecOK, ShapeInv, execVars, tdVars
    <2>2. QED
      BY <1>7, <2>1, UnchangedGroups DEF FlushBegin
  <1>8. CASE FlushSubmit \/ FlushHalfway
    <2>1. Sentinel \in Task
      BY TaskFacts DEF Sentinel, CallerOK
    <2>2. ExecOK'
      <3>1. Append(queue[ref], Sentinel) \in Seq(Task)
        BY <1>8, <2>1, AppendFacts DEF FlushSubmit, FlushHalfway, ExecOK, ShapeInv
      <3>2. QED
        BY <1>8, <3>1 DEF FlushSubmit, FlushHalfway, ExecOK
    <2>3. CallerOK' /\ ShapeInv'
      BY <1>8, BoundAssumption DEF FlushSubmit, FlushHalfway, CallerOK, ShapeInv, tdVars
    <2>4. QED
      BY <1>8, <2>2, <2>3, UnchangedGroups DEF FlushSubmit, FlushHalfway
  <1>9. CASE FlushFails
    <2>1. CallerOK' /\ ShapeInv'
      BY <1>9 DEF FlushFails, CallerOK, ShapeInv, execVars, tdVars
    <2>2. QED
      BY <1>9, <2>1, UnchangedGroups DEF FlushFails
  <1>10. QED
    BY <1>1, <1>2, <1>3, <1>3a, <1>4, <1>5, <1>6, <1>7, <1>8, <1>9 DEF Caller

LEMMA WorkerStepType ==
    ASSUME TypeInv, NEW e \in Executors, Worker(e) PROVE TypeInv'
  <1> USE DEF TypeInv, TypeOK
  <1>0. 1 \in Providers
    BY ProvidersAssumption DEF Providers
  <1>1. CASE StartJob(e)
    <2>1. Head(queue[e]) \in Task /\ Tail(queue[e]) \in Seq(Task)
      BY <1>1, TailFacts DEF StartJob, ExecOK
    <2>2. ExecOK' /\ ShapeInv'
      BY <1>0, <1>1, <2>1 DEF StartJob, ExecOK, ShapeInv, callerVars, tdVars
    <2>3. QED
      BY <1>1, <2>2, UnchangedGroups DEF StartJob
  <1>2. CASE CallReturns(e)
    <2>1. job[e].kind \in {"sync", "copy"} => job[e].turn \in Turns
      BY <1>2, TaskFacts DEF CallReturns, ExecOK
    <2>2. LogOK'
      <3>1. at[e] \in Providers /\ Outcome(job[e], at[e])
        BY <1>2 DEF CallReturns, ExecOK
      <3>2. /\ landed' \in [Providers -> Seq(Turns)]
            /\ missed' \in [Providers -> SUBSET Turns] /\ repeated' \in [Providers -> SUBSET Turns]
        BY <2>1, <3>1, OutcomeType DEF LogOK
      <3>3. QED
        BY <1>2, <3>2 DEF CallReturns, LogOK
    <2>3. at' \in [Executors -> Providers]
      <3>1. at[e] < NumProviders => at[e] + 1 \in Providers
        BY ProvidersAssumption DEF ExecOK, Providers
      <3>2. QED
        BY <1>0, <1>2, <3>1 DEF CallReturns, ExecOK
    <2>4. ExecOK' /\ ShapeInv'
      BY <1>2, <2>3 DEF CallReturns, ExecOK, ShapeInv, callerVars, tdVars
    <2>5. QED
      BY <1>2, <2>2, <2>4, UnchangedGroups DEF CallReturns
  <1>3. CASE BarrierRuns(e)
    <2>1. ExecOK'
      BY <1>3 DEF BarrierRuns, ExecOK
    <2>2. CallerOK' /\ ShapeInv'
      BY <1>3 DEF BarrierRuns, CallerOK, ShapeInv, tdVars
    <2>3. QED
      BY <1>3, <2>1, <2>2, UnchangedGroups DEF BarrierRuns
  <1>4. QED
    BY <1>1, <1>2, <1>3 DEF Worker

LEMMA TeardownStepType ==
    ASSUME TypeInv, Teardown \/ BeginExit \/ EndExit PROVE TypeInv'
  <1> USE DEF TypeInv, TypeOK
  <1>1. CASE TakeExecutor
    <2>1. ExecOK' /\ TeardownOK' /\ ShapeInv'
      BY <1>1 DEF TakeExecutor, ExecOK, TeardownOK, ShapeInv, Executors, NoExecutor, callerVars
    <2>2. QED
      BY <1>1, <2>1, UnchangedGroups DEF TakeExecutor
  <1>2. CASE StopAccepting
    <2>1. ExecOK' /\ TeardownOK' /\ ShapeInv'
      BY <1>2 DEF StopAccepting, ExecOK, TeardownOK, ShapeInv, callerVars
    <2>2. QED
      BY <1>2, <2>1, UnchangedGroups DEF StopAccepting
  <1>2a. CASE CancelQueued
    <2>1. Head(queue[tdRef]) \in Task /\ Tail(queue[tdRef]) \in Seq(Task)
      BY <1>2a, TailFacts DEF CancelQueued, ExecOK, ShapeInv
    <2>2. cancelled' \in SUBSET Turns
      BY <1>2a, <2>1, TaskFacts DEF CancelQueued, LogOK
    <2>3. ExecOK' /\ LogOK' /\ ShapeInv'
      BY <1>2a, <2>1, <2>2 DEF CancelQueued, ExecOK, LogOK, ShapeInv, callerVars, tdVars
    <2>4. QED
      BY <1>2a, <2>3, UnchangedGroups DEF CancelQueued
  <1>3. CASE CancelledAll \/ Drained \/ DrainTimeout
    <2>1. TeardownOK' /\ ShapeInv'
      BY <1>3 DEF CancelledAll, Drained, DrainTimeout, TeardownOK, ShapeInv, callerVars, execVars
    <2>2. QED
      BY <1>3, <2>1, UnchangedGroups DEF CancelledAll, Drained, DrainTimeout
  <1>4. ASSUME NEW p \in Providers, CloseProvider(p) PROVE TypeInv'
    <2>1. TeardownOK' /\ ShapeInv'
      BY <1>4 DEF CloseProvider, TeardownOK, ShapeInv, callerVars, execVars
    <2>2. QED
      BY <1>4, <2>1, UnchangedGroups DEF CloseProvider
  <1>5. CASE BeginExit \/ EndExit
    <2>1. TeardownOK' /\ ShapeInv'
      BY <1>5 DEF BeginExit, EndExit, TeardownOK, ShapeInv, callerVars, execVars
    <2>2. QED
      BY <1>5, <2>1, UnchangedGroups DEF BeginExit, EndExit
  <1>6. QED
    BY <1>1, <1>2, <1>2a, <1>3, <1>4, <1>5 DEF Teardown

LEMMA StepTypeInv == TypeInv /\ [Next]_vars => TypeInv'
  <1>1. TypeInv /\ UNCHANGED vars => TypeInv'
    BY UnchangedGroups DEF vars, TypeInv, TypeOK, ShapeInv, callerVars, execVars, tdVars
  <1>2. QED
    BY <1>1, CallerStepType, WorkerStepType, TeardownStepType DEF Next, Terminated

LEMMA TypeInvariance == Spec => []TypeInv
  BY InitTypeInv, StepTypeInv, PTL DEF Spec

(* Every variable stays in its range, with any number of providers and     *)
(* turns, with shutdown on the loop or on another thread.                  *)
THEOREM TypeCorrect == Spec => []TypeOK
  <1>1. TypeInv => TypeOK
    BY DEF TypeInv
  <1>2. QED
    BY <1>1, TypeInvariance, PTL

--------------------------------------------------------------------------------
(* Turn order on one event loop.                                           *)

SyncOf(x) == x.kind = "sync"

(* At most one executor is ever made, nothing runs inline beside its       *)
(* thread, no sync waits for a thread that has not started, and a          *)
(* post-turn is over before shutdown begins.                               *)
OneExecutor ==
    /\ made <= 1
    /\ td # "up" => pc = "idle"
    /\ td = "up" /\ made = 1 => open[1]
    /\ pc \in {"submit", "flush", "await"} => ref = 1 /\ made = 1
    /\ made = 0 => queue[1] = <<>> /\ ~started[1]
    /\ queue[2] = <<>> /\ job[2] = NoTask
    /\ pc = "inline" => ~started[1]
    /\ ~started[1] => job[1] = NoTask /\ \A k \in DOMAIN queue[1] : ~SyncOf(queue[1][k])

(* No turn from the future, and in hand only the current one's.            *)
NothingNewer ==
    /\ \A p \in Providers : \A i \in DOMAIN landed[p] : landed[p][i] <= turn
    /\ \A k \in DOMAIN queue[1] : queue[1][k].turn <= turn
    /\ job[1].turn <= turn
    /\ \A k \in DOMAIN todo : todo[k].turn <= turn
    /\ Len(todo) = 2 => todo[2].kind # "sync"

(* Work in the queue is newer than the job, the job newer than what has    *)
(* landed where it has still to go, and a sync in hand newer than all.     *)
QueueOrder ==
    /\ \A j, k \in DOMAIN queue[1] :
          j < k /\ SyncOf(queue[1][j]) /\ SyncOf(queue[1][k]) => queue[1][j].turn < queue[1][k].turn
    /\ \A k \in DOMAIN queue[1] : SyncOf(queue[1][k]) =>
          /\ SyncOf(job[1]) => job[1].turn < queue[1][k].turn
          /\ \A p \in Providers : \A i \in DOMAIN landed[p] : landed[p][i] < queue[1][k].turn
JobOrder ==
    SyncOf(job[1]) =>
        \A p \in Providers : p >= at[1] => \A i \in DOMAIN landed[p] : landed[p][i] < job[1].turn
HandOrder ==
    todo # <<>> /\ SyncOf(Head(todo)) =>
        /\ Head(todo).turn = turn
        /\ \A k \in DOMAIN queue[1] : SyncOf(queue[1][k]) => queue[1][k].turn < turn
        /\ SyncOf(job[1]) => job[1].turn < turn
        /\ \A p \in Providers : (pc = "inline" => p >= inlineAt) =>
              \A i \in DOMAIN landed[p] : landed[p][i] < turn

LoopInv == OneExecutor /\ NothingNewer /\ QueueOrder /\ JobOrder /\ HandOrder /\ TurnOrder

LEMMA InitLoopInv == Init => LoopInv
  <1> SUFFICES ASSUME Init PROVE LoopInv
    OBVIOUS
  <1>1. /\ queue[1] = <<>> /\ queue[2] = <<>> /\ job[1] = NoTask /\ job[2] = NoTask
        /\ \A p \in Providers : landed[p] = <<>>
        /\ ~started[1]
    BY DEF Init, Executors
  <1>2. /\ todo = <<>> /\ turn = 0 /\ made = 0 /\ td = "up" /\ pc = "idle"
    BY DEF Init
  <1>3. DOMAIN <<>> = {} /\ Len(<<>>) = 0 /\ NoTask.kind = "none" /\ NoTask.turn = 0
    BY DEF NoTask
  <1>4. OneExecutor /\ NothingNewer
    BY <1>1, <1>2, <1>3 DEF OneExecutor, NothingNewer
  <1>5. QueueOrder /\ JobOrder /\ HandOrder /\ TurnOrder
    BY <1>1, <1>2, <1>3 DEF QueueOrder, JobOrder, HandOrder, TurnOrder, SyncOf
  <1>6. QED
    BY <1>4, <1>5 DEF LoopInv

(* Steps that touch neither queue, job nor log keep the order of all three.*)
LEMMA OrderFrame ==
    ASSUME LoopInv, UNCHANGED <<queue, job, at, landed>>
    PROVE  QueueOrder' /\ JobOrder' /\ TurnOrder'
  BY DEF LoopInv, QueueOrder, JobOrder, TurnOrder, SyncOf

(* The next task in hand, if any, is no sync.                              *)
LEMMA HandedOverRest ==
    ASSUME TypeInv, LoopInv, todo # <<>>, HandedOver
    PROVE  /\ todo' # <<>> => ~SyncOf(Head(todo'))
           /\ Len(todo') < 2
           /\ \A k \in DOMAIN todo' : todo'[k].turn <= turn
           /\ pc' \in {"idle", "get"}
  <1>1. /\ todo \in Seq(Task) /\ Len(todo) <= 2 /\ todo' = Tail(todo)
        /\ Len(todo) = 2 => todo[2].kind # "sync"
    BY DEF TypeInv, TypeOK, CallerOK, LoopInv, NothingNewer, HandedOver
  <1>2. Len(todo') = Len(todo) - 1 /\ Len(todo) \in Nat /\ todo' \in Seq(Task)
    BY <1>1, TailFacts
  <1>3. todo' # <<>> => Head(todo') = todo[2] /\ Len(todo) = 2
    BY <1>1, <1>2, TailFacts
  <1>4. \A k \in DOMAIN todo' : todo'[k].turn <= turn
    BY <1>1, TailFacts DEF LoopInv, NothingNewer
  <1>5. QED
    BY <1>1, <1>2, <1>3, <1>4 DEF SyncOf, HandedOver

(* A task goes to the end of the queue; a sync is newer than all before it.*)
LEMMA EnqueueOrder ==
    ASSUME TypeInv, LoopInv, NEW x \in Task,
           queue[1] \in Seq(Task), queue'[1] = Append(queue[1], x),
           SyncOf(x) =>
              /\ \A k \in DOMAIN queue[1] : SyncOf(queue[1][k]) => queue[1][k].turn < x.turn
              /\ SyncOf(job[1]) => job[1].turn < x.turn
              /\ \A p \in Providers : \A i \in DOMAIN landed[p] : landed[p][i] < x.turn,
           UNCHANGED <<job, at, landed>>
    PROVE  QueueOrder' /\ JobOrder' /\ TurnOrder'
  <1> DEFINE q == queue[1]  n == Len(q)
  <1>1. /\ DOMAIN queue'[1] = 1 .. n + 1 /\ DOMAIN q = 1 .. n /\ n \in Nat
        /\ \A k \in 1 .. n : queue'[1][k] = q[k]
        /\ queue'[1][n + 1] = x
    BY AppendFacts
  <1>2. ASSUME NEW j \in DOMAIN queue'[1], NEW k \in DOMAIN queue'[1],
               j < k, SyncOf(queue'[1][j]), SyncOf(queue'[1][k])
        PROVE  queue'[1][j].turn < queue'[1][k].turn
    <2>1. CASE k \in 1 .. n
      BY <1>1, <1>2, <2>1 DEF LoopInv, QueueOrder
    <2>2. CASE k = n + 1
      BY <1>1, <1>2, <2>2
    <2>3. QED
      BY <1>1, <2>1, <2>2
  <1>3. ASSUME NEW k \in DOMAIN queue'[1], SyncOf(queue'[1][k])
        PROVE  /\ SyncOf(job[1]) => job[1].turn < queue'[1][k].turn
               /\ \A p \in Providers : \A i \in DOMAIN landed[p] : landed[p][i] < queue'[1][k].turn
    <2>1. CASE k \in 1 .. n
      BY <1>1, <1>3, <2>1 DEF LoopInv, QueueOrder
    <2>2. CASE k = n + 1
      BY <1>1, <1>3, <2>2
    <2>3. QED
      BY <1>1, <2>1, <2>2
  <1>4. QueueOrder'
    BY <1>2, <1>3 DEF QueueOrder, SyncOf
  <1>5. QED
    BY <1>4 DEF LoopInv, JobOrder, TurnOrder, SyncOf

(* A turn newer than all that landed at p lands at p.                      *)
LEMMA LandKeepsOrder ==
    ASSUME landed \in [Providers -> Seq(Turns)], NEW p \in Providers, NEW t \in Turns,
           landed' = [landed EXCEPT ![p] = Append(@, t)],
           \A i \in DOMAIN landed[p] : landed[p][i] < t, TurnOrder
    PROVE  /\ TurnOrder'
           /\ \A q \in Providers : q # p => landed'[q] = landed[q]
           /\ \A i \in DOMAIN landed'[p] : landed'[p][i] = t \/ (i \in DOMAIN landed[p] /\ landed'[p][i] = landed[p][i])
  <1> DEFINE n == Len(landed[p])
  <1>1. /\ landed'[p] = Append(landed[p], t)
        /\ \A q \in Providers : q # p => landed'[q] = landed[q]
    OBVIOUS
  <1>2. /\ n \in Nat /\ DOMAIN landed[p] = 1 .. n /\ DOMAIN landed'[p] = 1 .. n + 1
        /\ \A i \in 1 .. n : landed'[p][i] = landed[p][i]
        /\ landed'[p][n + 1] = t
    BY <1>1, AppendFacts
  <1>3. ASSUME NEW q \in Providers, NEW i \in DOMAIN landed'[q], NEW j \in DOMAIN landed'[q], i < j
        PROVE  landed'[q][i] < landed'[q][j]
    <2>1. CASE q # p
      BY <1>1, <1>3, <2>1, ZenonT(30) DEF TurnOrder
    <2>2. CASE q = p /\ j \in 1 .. n
      BY <1>2, <1>3, <2>2 DEF TurnOrder
    <2>3. CASE q = p /\ j = n + 1
      BY <1>2, <1>3, <2>3
    <2>4. QED
      BY <1>2, <2>1, <2>2, <2>3
  <1>4. QED
    BY <1>1, <1>2, <1>3 DEF TurnOrder

LEMMA CallerStepLoop ==
    ASSUME ~Threaded, TypeInv, LoopInv, Caller
    PROVE  LoopInv'
  <1> USE DEF callerVars, execVars, logVars, tdVars
  <1>0. /\ turn \in Nat
        /\ todo \in Seq(Task)
        /\ queue[1] \in Seq(Task) /\ queue[2] \in Seq(Task)
        /\ \A p \in Providers : landed[p] \in Seq(Turns)
    BY BoundAssumption DEF TypeInv, TypeOK, CallerOK, ExecOK, LogOK, Executors
  <1>1. CASE PostTurn
    <2>1. /\ turn' = turn + 1 /\ td = "up" /\ pc = "idle" /\ pc' = "get"
          /\ Len(todo') = 2 /\ Head(todo').turn = turn + 1 /\ todo'[2].kind = "prefetch"
          /\ DOMAIN todo' = 1 .. 2 /\ todo'[1].turn = turn + 1 /\ todo'[2].turn = turn + 1
          /\ UNCHANGED <<queue, job, at, landed, made, td, open, started, ref>>
      BY <1>1 DEF PostTurn, Available
    <2>2. OneExecutor'
      BY <2>1 DEF LoopInv, OneExecutor
    <2>3. NothingNewer'
      <3>1. \A p \in Providers : \A i \in DOMAIN landed[p] : landed[p][i] \in Nat
        BY <1>0, BoundAssumption DEF Turns
      <3>2. \A k \in DOMAIN queue[1] : queue[1][k].turn \in Nat
        BY <1>0, TaskFacts, BoundAssumption
      <3>3. job[1].turn \in Nat
        BY TaskFacts, BoundAssumption DEF TypeInv, TypeOK, ExecOK, Executors
      <3>4. QED
        BY <1>0, <2>1, <3>1, <3>2, <3>3 DEF LoopInv, NothingNewer
    <2>4. HandOrder'
      <3>1. \A p \in Providers : \A i \in DOMAIN landed[p] : landed[p][i] < turn + 1
        BY <1>0, BoundAssumption DEF Turns, LoopInv, NothingNewer
      <3>2. \A k \in DOMAIN queue[1] : queue[1][k].turn < turn + 1
        BY <1>0, TaskFacts, BoundAssumption DEF LoopInv, NothingNewer
      <3>3. job[1].turn < turn + 1
        BY <1>0, TaskFacts, BoundAssumption
           DEF LoopInv, NothingNewer, TypeInv, TypeOK, ExecOK, Executors
      <3>4. QED
        BY <2>1, <3>1, <3>2, <3>3 DEF HandOrder
    <2>5. QED
      BY <2>1, <2>2, <2>3, <2>4, OrderFrame DEF LoopInv
  <1>2. CASE GetExecutor
    <2>1. /\ pc = "get" /\ pc' = "submit" /\ td = "up" /\ td' = td
          /\ UNCHANGED <<queue, job, at, landed, todo, turn, inlineAt, started>>
      BY <1>2 DEF GetExecutor, LoopInv, OneExecutor
    <2>2. OneExecutor'
      BY <1>2, <2>1 DEF GetExecutor, LoopInv, OneExecutor, TypeInv, ShapeInv, NoExecutor,
         TypeOK, ExecOK, Executors
    <2>3. NothingNewer' /\ HandOrder'
      BY <2>1 DEF LoopInv, NothingNewer, HandOrder, SyncOf
    <2>4. QED
      BY <2>1, <2>2, <2>3, OrderFrame DEF LoopInv
  <1>3. CASE CreateFails
    <2>1. /\ pc = "get" /\ pc' = "inline" /\ inlineAt' = 1 /\ td = "up" /\ made = 0
          /\ UNCHANGED <<queue, job, at, landed, todo, turn, td, made, open, started, ref>>
      BY <1>3 DEF CreateFails, LoopInv, OneExecutor, TypeInv, ShapeInv, NoExecutor
    <2>2. OneExecutor' /\ NothingNewer'
      BY <2>1 DEF LoopInv, OneExecutor, NothingNewer
    <2>3. HandOrder'
      BY <2>1 DEF LoopInv, HandOrder, SyncOf, Providers
    <2>4. QED
      BY <2>1, <2>2, <2>3, OrderFrame DEF LoopInv
  <1>4. CASE SubmitAccepted
    <2> DEFINE x == Head(todo)
    <2>1. /\ pc = "submit" /\ ref = 1 /\ made = 1 /\ td = "up" /\ todo # <<>>
          /\ queue' = [queue EXCEPT ![1] = Append(@, x)] /\ started'[1] /\ HandedOver
          /\ UNCHANGED <<job, at, landed, turn, made, td, open, ref>>
      BY <1>4 DEF SubmitAccepted, LoopInv, OneExecutor, TypeInv, ShapeInv, TypeOK, ExecOK, Executors
    <2>2. /\ x \in Task /\ x.turn <= turn
          /\ queue'[1] = Append(queue[1], x) /\ queue'[2] = queue[2]
      <3>1. x \in Task /\ x.turn <= turn
        BY <1>0, <2>1, TailFacts DEF LoopInv, NothingNewer
      <3>2. queue'[1] = Append(queue[1], x) /\ queue'[2] = queue[2]
        BY <2>1 DEF TypeInv, TypeOK, ExecOK, Executors
      <3>3. QED
        BY <3>1, <3>2
    <2>3. /\ todo' # <<>> => ~SyncOf(Head(todo'))
          /\ Len(todo') < 2 /\ pc' \in {"idle", "get"}
          /\ \A k \in DOMAIN todo' : todo'[k].turn <= turn
      BY <2>1, HandedOverRest
    <2>4. QueueOrder' /\ JobOrder' /\ TurnOrder'
      <3>1. SyncOf(x) =>
              /\ x.turn = turn
              /\ \A k \in DOMAIN queue[1] : SyncOf(queue[1][k]) => queue[1][k].turn < x.turn
              /\ SyncOf(job[1]) => job[1].turn < x.turn
              /\ \A p \in Providers : \A i \in DOMAIN landed[p] : landed[p][i] < x.turn
        BY <2>1 DEF LoopInv, HandOrder
      <3>2. QED
        BY <1>0, <2>1, <2>2, <3>1, EnqueueOrder
    <2>5. NothingNewer'
      <3>1. \A k \in DOMAIN queue'[1] : queue'[1][k].turn <= turn
        BY <1>0, <2>2, AppendFacts DEF LoopInv, NothingNewer
      <3>2. QED
        BY <2>1, <2>3, <3>1 DEF LoopInv, NothingNewer
    <2>6. OneExecutor'
      BY <2>1, <2>2, <2>3 DEF LoopInv, OneExecutor
    <2>7. HandOrder'
      BY <2>3 DEF HandOrder, SyncOf
    <2>8. QED
      BY <2>4, <2>5, <2>6, <2>7 DEF LoopInv
  <1>5. CASE SubmitRejected
    <2>1. open[ref] /\ ~open[ref]
      BY <1>5 DEF SubmitRejected, LoopInv, OneExecutor
    <2>2. QED
      BY <2>1
  <1>5a. CASE SubmitHalfway
    <2> DEFINE x == Copy(Head(todo))
    <2>1. /\ pc = "submit" /\ ref = 1 /\ made = 1 /\ td = "up" /\ todo # <<>> /\ ~started[1]
          /\ queue' = [queue EXCEPT ![1] = Append(@, x)] /\ pc' = "inline" /\ inlineAt' = 1
          /\ UNCHANGED <<job, at, landed, todo, turn, made, td, open, started, ref>>
      BY <1>5a DEF SubmitHalfway, LoopInv, OneExecutor, TypeInv, ShapeInv
    <2>2. /\ x \in Task /\ ~SyncOf(x) /\ x.turn <= turn
          /\ queue'[1] = Append(queue[1], x) /\ queue'[2] = queue[2]
      <3>1. Head(todo) \in Task /\ Head(todo).turn <= turn
        BY <1>0, <2>1, TailFacts DEF LoopInv, NothingNewer
      <3>2. queue'[1] = Append(queue[1], x) /\ queue'[2] = queue[2]
        BY <2>1 DEF TypeInv, TypeOK, ExecOK, Executors
      <3>3. QED
        BY <3>1, <3>2, TaskFacts DEF SyncOf
    <2> HIDE DEF x
    <2>3. /\ \A k \in DOMAIN queue'[1] : queue'[1][k].turn <= turn
          /\ \A k \in DOMAIN queue'[1] : ~SyncOf(queue'[1][k])
      BY <1>0, <2>1, <2>2, AppendFacts DEF LoopInv, NothingNewer, OneExecutor
    <2>4. QueueOrder' /\ JobOrder' /\ TurnOrder'
      BY <1>0, <2>1, <2>2, EnqueueOrder
    <2>5. OneExecutor' /\ NothingNewer'
      BY <2>1, <2>2, <2>3 DEF LoopInv, OneExecutor, NothingNewer, SyncOf
    <2>6. HandOrder'
      BY <2>1, <2>3 DEF LoopInv, HandOrder, SyncOf, Providers
    <2>7. QED
      BY <2>4, <2>5, <2>6 DEF LoopInv
  <1>6. CASE InlineReturns
    <2> DEFINE x == Head(todo)
    <2>1. /\ pc = "inline" /\ ~started[1] /\ job[1] = NoTask /\ todo # <<>>
          /\ \A k \in DOMAIN queue[1] : ~SyncOf(queue[1][k])
          /\ Outcome(x, inlineAt)
          /\ UNCHANGED <<queue, job, at, turn, made, td, open, started, ref>>
      BY <1>6 DEF InlineReturns, LoopInv, OneExecutor, TypeInv, ShapeInv
    <2>2. /\ inlineAt \in Providers /\ td = "up" /\ x \in Task
      BY <1>0, <2>1, TailFacts DEF TypeInv, TypeOK, CallerOK, LoopInv, OneExecutor
    <2>3. \/ landed' = landed
          \/ SyncOf(x) /\ landed' = [landed EXCEPT ![inlineAt] = Append(@, x.turn)]
      BY <2>1 DEF Outcome, Returns, Raises, Repeats, SyncOf
    <2>4. SyncOf(x) =>
             /\ x.turn = turn /\ x.turn \in Turns
             /\ \A p \in Providers : p >= inlineAt =>
                   \A i \in DOMAIN landed[p] : landed[p][i] < turn
      BY <2>1, <2>2, TaskFacts DEF LoopInv, HandOrder, SyncOf
    <2>5. TurnOrder' /\ \A p \in Providers : \A i \in DOMAIN landed'[p] : landed'[p][i] <= turn
      <3>1. CASE landed' = landed
        BY <3>1 DEF LoopInv, TurnOrder, NothingNewer
      <3>2. CASE SyncOf(x) /\ landed' = [landed EXCEPT ![inlineAt] = Append(@, x.turn)]
        <4>1. /\ x.turn \in Turns /\ x.turn = turn
              /\ \A i \in DOMAIN landed[inlineAt] : landed[inlineAt][i] < x.turn
          BY <2>2, <2>4, <3>2 DEF Providers
        <4>2. /\ TurnOrder'
              /\ \A q \in Providers : q # inlineAt => landed'[q] = landed[q]
              /\ \A i \in DOMAIN landed'[inlineAt] : landed'[inlineAt][i] = turn \/
                    (i \in DOMAIN landed[inlineAt] /\ landed'[inlineAt][i] = landed[inlineAt][i])
          <5>1. PICK p \in Providers, t \in Turns : p = inlineAt /\ t = x.turn
            BY <2>2, <4>1
          <5>2. /\ landed \in [Providers -> Seq(Turns)]
                /\ landed' = [landed EXCEPT ![p] = Append(@, t)]
                /\ \A i \in DOMAIN landed[p] : landed[p][i] < t
                /\ TurnOrder
            BY <3>2, <4>1, <5>1 DEF LoopInv, TypeInv, TypeOK, LogOK
          <5>3. /\ TurnOrder'
                /\ \A q \in Providers : q # p => landed'[q] = landed[q]
                /\ \A i \in DOMAIN landed'[p] :
                      landed'[p][i] = t \/ (i \in DOMAIN landed[p] /\ landed'[p][i] = landed[p][i])
            BY <5>2, LandKeepsOrder, ZenonT(30)
          <5>4. QED
            BY <4>1, <5>1, <5>3
        <4>3. QED
          BY <1>0, <2>2, <4>2, SMTT(20) DEF LoopInv, NothingNewer
      <3>3. QED
        BY <2>3, <3>1, <3>2
    <2>6. QueueOrder' /\ JobOrder'
      BY <2>1, TaskFacts DEF QueueOrder, JobOrder, SyncOf
    <2>7. CASE inlineAt < NumProviders
      <3>1. inlineAt' = inlineAt + 1 /\ UNCHANGED <<todo, pc>>
        BY <1>6, <2>7 DEF InlineReturns
      <3>2. OneExecutor' /\ NothingNewer'
        BY <2>1, <2>5, <3>1 DEF LoopInv, OneExecutor, NothingNewer
      <3>3. HandOrder'
        <4>1. ASSUME SyncOf(x), NEW p \in Providers, p >= inlineAt + 1, NEW i \in DOMAIN landed'[p]
              PROVE  landed'[p][i] < turn
          <5>1. p # inlineAt /\ p >= inlineAt
            BY <2>2, <4>1 DEF Providers
          <5>2. landed'[p] = landed[p]
            BY <2>2, <2>3, <5>1 DEF TypeInv, TypeOK, LogOK
          <5>3. QED
            BY <2>4, <4>1, <5>1, <5>2
        <4>2. QED
          BY <2>1, <2>4, <3>1, <4>1, TaskFacts DEF HandOrder, SyncOf
      <3>4. QED
        BY <2>5, <2>6, <3>2, <3>3 DEF LoopInv
    <2>8. CASE ~(inlineAt < NumProviders)
      <3>1. HandedOver
        BY <1>6, <2>8 DEF InlineReturns
      <3>2. /\ todo' # <<>> => ~SyncOf(Head(todo'))
            /\ Len(todo') < 2 /\ pc' \in {"idle", "get"}
            /\ \A k \in DOMAIN todo' : todo'[k].turn <= turn
        BY <2>1, <3>1, HandedOverRest
      <3>3. OneExecutor' /\ NothingNewer' /\ HandOrder'
        BY <2>1, <2>2, <2>5, <3>2 DEF LoopInv, OneExecutor, NothingNewer, HandOrder, SyncOf
      <3>4. QED
        BY <2>5, <2>6, <3>3 DEF LoopInv
    <2>9. QED
      BY <2>7, <2>8
  <1>7. CASE ManagerDropped
    <2>1. pc = "get" /\ td = "down"
      BY <1>7 DEF ManagerDropped
    <2>2. QED
      BY <2>1 DEF LoopInv, OneExecutor
  <1>8. CASE FlushBegin \/ FlushFails
    <2>1. /\ pc \in {"idle", "await"} /\ pc' \in {"idle", "flush"} /\ td = td'
          /\ pc' # "idle" => td = "up" /\ ref' = current /\ current = made /\ made = 1
          /\ UNCHANGED <<queue, job, at, landed, todo, turn, inlineAt, made, open, started>>
      BY <1>8 DEF FlushBegin, FlushFails, Available, TypeInv, ShapeInv, NoExecutor,
         TypeOK, ExecOK, Executors
    <2>2. OneExecutor' /\ NothingNewer'
      BY <2>1 DEF LoopInv, OneExecutor, NothingNewer
    <2>3. HandOrder'
      BY <2>1 DEF LoopInv, HandOrder, SyncOf
    <2>4. QED
      BY <2>1, <2>2, <2>3, OrderFrame DEF LoopInv
  <1>9. CASE FlushSubmit \/ FlushHalfway
    <2>1. /\ pc = "flush" /\ td = "up" /\ pc' \in {"idle", "await"} /\ todo = <<>> /\ ref \in Executors
          /\ ref = 1 /\ made = 1 /\ started' \in {started, [started EXCEPT ![1] = TRUE]}
          /\ UNCHANGED <<job, at, landed, todo, turn, made, open, td, ref>>
      BY <1>9 DEF FlushSubmit, FlushHalfway, LoopInv, OneExecutor, TypeInv, ShapeInv
    <2>2. HandOrder'
      BY <2>1 DEF HandOrder
    <2>1a. started'[1] = started[1] \/ started'[1]
      BY <2>1 DEF TypeInv, TypeOK, ExecOK, Executors
    <2>3. CASE UNCHANGED queue
      BY <2>1, <2>1a, <2>2, <2>3, OrderFrame DEF LoopInv, OneExecutor, NothingNewer
    <2>4. CASE open[ref] /\ queue' = [queue EXCEPT ![ref] = Append(@, Sentinel)]
      <3>1. Sentinel \in Task /\ ~SyncOf(Sentinel) /\ Sentinel.turn = turn
        BY TaskFacts DEF Sentinel, SyncOf, TypeInv, TypeOK, CallerOK
      <3>2. ref = 1 /\ made = 1
        BY <2>1 DEF LoopInv, OneExecutor
      <3>3. queue'[1] = Append(queue[1], Sentinel) /\ queue'[2] = queue[2]
        BY <2>4, <3>2 DEF TypeInv, TypeOK, ExecOK, Executors
      <3>4. QueueOrder' /\ JobOrder' /\ TurnOrder'
        BY <1>0, <2>1, <3>1, <3>3, EnqueueOrder
      <3>5. \A k \in DOMAIN queue'[1] : queue'[1][k].turn <= turn
        BY <1>0, <3>1, <3>3, AppendFacts DEF LoopInv, NothingNewer
      <3>5a. ~started[1] => \A k \in DOMAIN queue'[1] : ~SyncOf(queue'[1][k])
        BY <1>0, <3>1, <3>3, AppendFacts DEF LoopInv, OneExecutor
      <3>6. OneExecutor' /\ NothingNewer'
        BY <2>1, <2>1a, <3>2, <3>3, <3>5, <3>5a DEF LoopInv, OneExecutor, NothingNewer, SyncOf
      <3>7. QED
        BY <2>2, <3>4, <3>6 DEF LoopInv
    <2>5. QED
      BY <1>9, <2>3, <2>4 DEF FlushSubmit, FlushHalfway
  <1>10. QED
    BY <1>1, <1>2, <1>3, <1>4, <1>5, <1>5a, <1>6, <1>7, <1>8, <1>9 DEF Caller

LEMMA WorkerStepLoop ==
    ASSUME ~Threaded, TypeInv, LoopInv, NEW e \in Executors, Worker(e)
    PROVE  LoopInv'
  <1> USE DEF callerVars, execVars, logVars, tdVars
  <1>0. /\ turn \in Nat
        /\ queue[1] \in Seq(Task) /\ queue[2] = <<>> /\ job[2] = NoTask /\ at[1] \in Providers
        /\ job[1] \in Task \cup {NoTask} /\ NoTask.kind = "none" /\ NoTask.turn = 0
        /\ \A p \in Providers : landed[p] \in Seq(Turns)
    BY BoundAssumption, TaskFacts
       DEF TypeInv, TypeOK, CallerOK, ExecOK, LogOK, Executors, LoopInv, OneExecutor
  <1>1. e = 1
    BY <1>0 DEF Worker, StartJob, CallReturns, BarrierRuns, Executors
  <1>2. CASE StartJob(e)
    <2>1. /\ started[1] /\ queue[1] # <<>> /\ job[1] = NoTask
          /\ job'[1] = Head(queue[1]) /\ job'[2] = job[2] /\ at'[1] = 1
          /\ queue'[1] = Tail(queue[1]) /\ queue'[2] = queue[2]
          /\ UNCHANGED <<landed, todo, turn, pc, inlineAt, made, td, open, started, ref>>
      BY <1>1, <1>2 DEF StartJob, TypeInv, TypeOK, ExecOK, Executors
    <2>2. /\ 1 \in DOMAIN queue[1] /\ job'[1] = queue[1][1]
          /\ \A k \in DOMAIN queue'[1] : k + 1 \in DOMAIN queue[1] /\ queue'[1][k] = queue[1][k + 1]
          /\ \A k \in DOMAIN queue'[1] : k \in Nat /\ 1 < k + 1
      BY <1>0, <2>1, TailFacts
    <2>3. QueueOrder'
      <3>1. ASSUME NEW j \in DOMAIN queue'[1], NEW k \in DOMAIN queue'[1],
                   j < k, SyncOf(queue'[1][j]), SyncOf(queue'[1][k])
            PROVE  queue'[1][j].turn < queue'[1][k].turn
        <4>1. j + 1 < k + 1
          BY <2>2, <3>1
        <4>2. QED
          BY <2>2, <3>1, <4>1 DEF LoopInv, QueueOrder
      <3>2. ASSUME NEW k \in DOMAIN queue'[1], SyncOf(queue'[1][k])
            PROVE  /\ SyncOf(job'[1]) => job'[1].turn < queue'[1][k].turn
                   /\ \A p \in Providers : \A i \in DOMAIN landed[p] : landed[p][i] < queue'[1][k].turn
        BY <2>2, <3>2 DEF LoopInv, QueueOrder
      <3>3. QED
        BY <2>1, <3>1, <3>2 DEF QueueOrder, SyncOf
    <2>4. JobOrder' /\ TurnOrder'
      BY <2>1, <2>2 DEF LoopInv, QueueOrder, JobOrder, TurnOrder, SyncOf
    <2>5. NothingNewer'
      BY <2>1, <2>2 DEF LoopInv, NothingNewer
    <2>6. HandOrder'
      BY <2>1, <2>2 DEF LoopInv, HandOrder, SyncOf
    <2>7. OneExecutor'
      BY <2>1 DEF LoopInv, OneExecutor
    <2>8. QED
      BY <2>3, <2>4, <2>5, <2>6, <2>7 DEF LoopInv
  <1>3. CASE CallReturns(e)
    <2>1. /\ Outcome(job[1], at[1]) /\ job[1].kind \in {"sync", "copy", "prefetch"}
          /\ \/ at[1] < NumProviders /\ at'[1] = at[1] + 1 /\ job' = job
             \/ at'[1] = 1 /\ job'[1] = NoTask /\ job'[2] = job[2]
          /\ UNCHANGED <<queue, todo, turn, pc, inlineAt, made, td, open, started, ref>>
      BY <1>1, <1>3 DEF CallReturns, TypeInv, TypeOK, ExecOK, Executors
    <2>2. pc # "inline" /\ started[1]
      BY <1>0, <2>1 DEF LoopInv, OneExecutor
    <2>3. SyncOf(job[1]) =>
             /\ job[1].turn \in Turns /\ job[1].turn <= turn
             /\ \A i \in DOMAIN landed[at[1]] : landed[at[1]][i] < job[1].turn
      BY <1>0, TaskFacts DEF SyncOf, LoopInv, NothingNewer, JobOrder, Providers
    <2>4. /\ TurnOrder'
          /\ \A q \in Providers : q # at[1] => landed'[q] = landed[q]
          /\ \A i \in DOMAIN landed'[at[1]] :
                \/ i \in DOMAIN landed[at[1]] /\ landed'[at[1]][i] = landed[at[1]][i]
                \/ SyncOf(job[1]) /\ landed'[at[1]][i] = job[1].turn
      <3>1. CASE UNCHANGED landed
        BY <3>1 DEF LoopInv, TurnOrder
      <3>2. CASE SyncOf(job[1]) /\ landed' = [landed EXCEPT ![at[1]] = Append(@, job[1].turn)]
        <4>1. PICK p \in Providers, t \in Turns : p = at[1] /\ t = job[1].turn
          BY <1>0, <2>3, <3>2
        <4>2. /\ landed \in [Providers -> Seq(Turns)]
              /\ landed' = [landed EXCEPT ![p] = Append(@, t)]
              /\ \A i \in DOMAIN landed[p] : landed[p][i] < t
              /\ TurnOrder
          BY <2>3, <3>2, <4>1 DEF LoopInv, TypeInv, TypeOK, LogOK
        <4>3. /\ TurnOrder'
              /\ \A q \in Providers : q # p => landed'[q] = landed[q]
              /\ \A i \in DOMAIN landed'[p] :
                    landed'[p][i] = t \/ (i \in DOMAIN landed[p] /\ landed'[p][i] = landed[p][i])
          BY <4>2, LandKeepsOrder, ZenonT(30)
        <4>4. QED
          BY <3>2, <4>1, <4>3
      <3>3. QED
        BY <2>1, <3>1, <3>2 DEF Outcome, Returns, Raises, Repeats, SyncOf
    <2>5. ASSUME NEW b, SyncOf(job[1]) => job[1].turn < b,
                 \A p \in Providers : \A i \in DOMAIN landed[p] : landed[p][i] < b
          PROVE  \A p \in Providers : \A i \in DOMAIN landed'[p] : landed'[p][i] < b
      BY <1>0, <2>4, <2>5
    <2>6. QueueOrder'
      <3>1. ASSUME NEW k \in DOMAIN queue[1], SyncOf(queue[1][k])
            PROVE  /\ SyncOf(job'[1]) => job'[1].turn < queue[1][k].turn
                   /\ \A p \in Providers : \A i \in DOMAIN landed'[p] : landed'[p][i] < queue[1][k].turn
        BY <1>0, <2>1, <2>5, <3>1 DEF LoopInv, QueueOrder, SyncOf
      <3>2. QED
        BY <2>1, <3>1 DEF LoopInv, QueueOrder, SyncOf
    <2>7. JobOrder'
      <3>1. ASSUME SyncOf(job'[1]), NEW p \in Providers, p >= at'[1], NEW i \in DOMAIN landed'[p]
            PROVE  landed'[p][i] < job'[1].turn
        <4>1. job' = job /\ p # at[1] /\ p >= at[1]
          BY <1>0, <2>1, <3>1 DEF SyncOf, Providers
        <4>2. QED
          BY <2>4, <3>1, <4>1 DEF LoopInv, JobOrder, SyncOf
      <3>2. QED
        BY <3>1 DEF JobOrder, SyncOf
    <2>8. NothingNewer'
      <3>1. \A p \in Providers : \A i \in DOMAIN landed'[p] : landed'[p][i] <= turn
        BY <1>0, <2>3, <2>4 DEF LoopInv, NothingNewer
      <3>2. QED
        BY <1>0, <2>1, <3>1 DEF LoopInv, NothingNewer
    <2>9. HandOrder'
      <3>1. SUFFICES ASSUME todo # <<>>, SyncOf(Head(todo)) PROVE HandOrder'
        BY <2>1 DEF HandOrder, SyncOf
      <3>2. \A p \in Providers : \A i \in DOMAIN landed'[p] : landed'[p][i] < turn
        BY <2>2, <2>5, <3>1 DEF LoopInv, HandOrder
      <3>3. QED
        BY <1>0, <2>1, <3>1, <3>2 DEF LoopInv, HandOrder, SyncOf
    <2>10. OneExecutor'
      BY <2>1, <2>2 DEF LoopInv, OneExecutor
    <2>11. QED
      BY <2>4, <2>6, <2>7, <2>8, <2>9, <2>10 DEF LoopInv
  <1>4. CASE BarrierRuns(e)
    <2>1. /\ job'[1] = NoTask /\ job'[2] = job[2]
          /\ pc' = pc \/ (pc = "await" /\ pc' = "idle")
          /\ UNCHANGED <<queue, at, landed, todo, turn, inlineAt, made, td, open, started, ref>>
      BY <1>1, <1>4 DEF BarrierRuns, TypeInv, TypeOK, ExecOK, Executors
    <2>2. QueueOrder' /\ JobOrder' /\ TurnOrder'
      BY <1>0, <2>1 DEF LoopInv, QueueOrder, JobOrder, TurnOrder, SyncOf
    <2>3. NothingNewer' /\ OneExecutor'
      BY <1>0, <2>1 DEF LoopInv, NothingNewer, OneExecutor
    <2>4. HandOrder'
      BY <1>0, <2>1 DEF LoopInv, HandOrder, SyncOf
    <2>5. QED
      BY <2>2, <2>3, <2>4 DEF LoopInv
  <1>5. QED
    BY <1>2, <1>3, <1>4 DEF Worker

LEMMA TeardownStepLoop ==
    ASSUME ~Threaded, TypeInv, LoopInv, Teardown \/ BeginExit \/ EndExit
    PROVE  LoopInv'
  <1> USE DEF callerVars, execVars, logVars, tdVars
  <1>1. CASE CancelQueued
    <2>1. tdRef \in Executors /\ td = "cancelling" /\ queue[tdRef] # <<>>
      BY <1>1 DEF CancelQueued, TypeInv, ShapeInv
    <2>2. tdRef = 1 /\ queue[1] \in Seq(Task)
      BY <2>1 DEF LoopInv, OneExecutor, Executors, TypeInv, TypeOK, ExecOK
    <2>3. /\ queue'[1] = Tail(queue[1]) /\ queue'[2] = queue[2]
          /\ UNCHANGED <<job, at, landed, todo, turn, pc, ref, inlineAt, made, td, open, started>>
      BY <1>1, <2>1, <2>2 DEF CancelQueued, TypeInv, TypeOK, ExecOK, Executors
    <2>4. /\ \A k \in DOMAIN queue'[1] : k + 1 \in DOMAIN queue[1] /\ queue'[1][k] = queue[1][k + 1]
          /\ \A j, k \in DOMAIN queue'[1] : j < k => j + 1 < k + 1
      BY <2>1, <2>2, <2>3, TailFacts
    <2>5. QueueOrder'
      <3>1. ASSUME NEW j \in DOMAIN queue'[1], NEW k \in DOMAIN queue'[1],
                   j < k, SyncOf(queue'[1][j]), SyncOf(queue'[1][k])
            PROVE  queue'[1][j].turn < queue'[1][k].turn
        BY <2>4, <3>1 DEF LoopInv, QueueOrder
      <3>2. QED
        BY <2>3, <2>4, <3>1 DEF LoopInv, QueueOrder, SyncOf
    <2>6. JobOrder' /\ TurnOrder'
      BY <2>3 DEF LoopInv, JobOrder, TurnOrder, SyncOf
    <2>7. HandOrder' /\ NothingNewer'
      BY <2>3, <2>4 DEF LoopInv, HandOrder, NothingNewer, SyncOf
    <2>8. OneExecutor'
      BY <2>1, <2>2, <2>3, <2>4 DEF LoopInv, OneExecutor, SyncOf
    <2>9. QED
      BY <2>5, <2>6, <2>7, <2>8 DEF LoopInv
  <1>1a. CASE StopAccepting
    <2>1. /\ td = "taken" /\ td' = "cancelling"
          /\ UNCHANGED <<queue, job, at, landed, todo, turn, pc, ref, inlineAt, made, started>>
      BY <1>1a DEF StopAccepting
    <2>2. QED
      BY <2>1 DEF LoopInv, QueueOrder, JobOrder, TurnOrder, HandOrder, NothingNewer, OneExecutor, SyncOf
  <1>2. ASSUME td' = "up" => td = "up", td' # "up" => pc = "idle",
               UNCHANGED <<queue, job, at, landed, todo, turn, pc, ref, inlineAt, made, open, started>>
        PROVE  LoopInv'
    BY <1>2 DEF LoopInv, QueueOrder, JobOrder, TurnOrder, HandOrder, NothingNewer, OneExecutor, SyncOf
  <1>3. CASE TakeExecutor
    BY <1>2, <1>3 DEF TakeExecutor
  <1>4. CASE CancelledAll \/ Drained \/ DrainTimeout
    <2>1. pc = "idle"
      BY <1>4 DEF CancelledAll, Drained, DrainTimeout, LoopInv, OneExecutor
    <2>2. QED
      BY <1>2, <1>4, <2>1 DEF CancelledAll, Drained, DrainTimeout
  <1>5. ASSUME NEW p \in Providers, CloseProvider(p) PROVE LoopInv'
    <2>1. pc = "idle"
      BY <1>5 DEF CloseProvider, LoopInv, OneExecutor
    <2>2. QED
      BY <1>2, <1>5, <2>1 DEF CloseProvider
  <1>6. CASE BeginExit \/ EndExit
    BY <1>2, <1>6 DEF BeginExit, EndExit, LoopInv, OneExecutor
  <1>7. QED
    BY <1>1, <1>1a, <1>3, <1>4, <1>5, <1>6 DEF Teardown

LEMMA StepLoopInv == ~Threaded /\ TypeInv /\ LoopInv /\ [Next]_vars => LoopInv'
  <1>1. LoopInv /\ UNCHANGED vars => LoopInv'
    BY DEF vars, callerVars, execVars, logVars, tdVars, LoopInv, QueueOrder, JobOrder,
           TurnOrder, HandOrder, NothingNewer, OneExecutor, SyncOf
  <1>2. QED
    BY <1>1, CallerStepLoop, WorkerStepLoop, TeardownStepLoop DEF Next, Terminated

(* sync_all: "turn N lands before turn N+1", at every provider, for any    *)
(* number of providers and turns, when shutdown shares the turns' loop.    *)
THEOREM TurnsLandInOrder == ~Threaded => (Spec => []TurnOrder)
  <1> SUFFICES ASSUME ~Threaded PROVE Spec => []TurnOrder
    OBVIOUS
  <1>1. Init => LoopInv
    BY InitLoopInv
  <1>2. TypeInv /\ LoopInv /\ [Next]_vars => LoopInv'
    BY StepLoopInv
  <1>3. LoopInv => TurnOrder
    BY DEF LoopInv
  <1>4. QED
    BY <1>1, <1>2, <1>3, TypeInvariance, PTL DEF Spec
================================================================================
