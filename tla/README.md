# CoBWeaverClaw in TLA+

A verification development for CoBWeaverClaw, a Python personal agent with a
trading memory and a multi-agent simulator: TLA+ modules translated from the
code under `src/`, TLC configurations that check them on small instances, and
theorems that TLAPS proves for every instance. `PROJECT.json` lists the
components, the runs, the hazards each property is aimed at, the lines every
definition stands for, and for each property a plausible bug that breaks it.

    tlc -workers 2 -config MM_loop.cfg MCMemoryManager
    tlapm MemoryManagerProofs.tla

| module | about | runs | proofs |
| --- | --- | --- | --- |
| `TurnDelivery` | abstract: what the memory manager promises | (property of `mm_loop`) | `MemoryDeliveryProofs` |
| `MemoryManager` | `memory/core/memory_manager.py`, `core/agent.py` | `mm_loop` `mm_threads` `mm_exit` | `MemoryManagerProofs` `MemoryDeliveryProofs` |
| `TradeGuard` | `memory/trading/` | `tg_race` | `TradeGuardProofs` |
| `SessionMemory` | `memory/sqlite_store.py` | `sm_turns` | `SessionMemoryProofs` |
| `DecisionFeed` | SimCore's decision log and its sync | `df_one` `df_malformed` | `DecisionFeedProofs` |
| `SimulationIPC` | file protocol of SimCore v2 | `ipc_serve` `ipc_open` | `SimulationIPCProofs` |
| `BoundedStore` | abstract: what the compression store promises | (property of `cs_stores`) | `CompressionStoreProofs` |
| `CompressionStore` | `cobweaverclaw_compress/cache/` | `cs_stores` `cs_shared` | `CompressionStoreProofs` |
| `UserMemory` | `memory/core/builtin_provider.py`, `memory/learning/review_adapter.py`, `/confirm` | `um_threads` | `UserMemoryProofs` |

Each component module holds, in this order: constants and their assumptions,
state, helpers, *mutants* (definitions with a deliberate bug, outside the
specification, used to test the properties), actions, the specification and
the properties. `MC...` modules give TLC its instances.

## 1. Inventory

What runs beside what. One process may hold the HTTP gateway
(`core/gateway_server.py`, a single-threaded `TCPServer`), a Telegram polling
thread with an agent of its own, the dreaming scheduler, background reviews
and the memory manager's one-worker executor. A CLI call, a second bot, the
SimCore v2 backend (Flask, one thread per request) and the simulations it
starts are other processes. They share files in `~/.cobweaverclaw` (SQLite
stores, JSON and JSON-lines files) and, inside a process, module-level
dictionaries. There is no message broker and no lock across processes:
interaction is by files, by SQLite transactions and by signals.

| component | state | operations | hard behaviour | what makes it correct |
| --- | --- | --- | --- | --- |
| memory manager | executor and its queue, providers | `sync_all`, `queue_prefetch_all`, `flush_pending`, `shutdown_all` | three routes to a provider, teardown racing a turn, hung providers | every turn to every provider, in order; what teardown drops it drops for all; a flush certifies; teardown ends |
| trade log and brake | trades, pattern statistics, emergency log | `log_trade`, `close_trade`, `is_trading_allowed` | check, then insert, in separate transactions; fail-open guard; time windows | no trade under a limit that holds; few late trades |
| session memory | messages, episodes, interests, facts | `save`, `maybe_summarize`, `_track_interest`, `clear` | four transactions per check, turns of several processes, clears | summaries tile the session; facts follow their hits |
| decision log and feed | `decisions.jsonl`, marker file, memory | `_save_decision`, `feedback`, `simcore_sync_decisions` | unlocked read-modify-write by several processes, marker moved after the batch, crashes, failed writes | each decision stays in the log, is fed once, none skipped, all in the end |
| SimCore v2 simulation IPC | command and response files, `env_status.json`, process handles | `send_command`, `check_env_alive`, `poll_command`, `send_response`, start, stop, kill | time-outs racing answers, torn files, successive runs over one directory | served once, for a client that waits, in the end; status tells the truth; a close ends its run |
| SimCore v2 runner | `run_state.json`, monitor threads | `start_simulation`, `stop_simulation`, `_monitor_simulation` | the monitor of an old run winds up beside a new one | a live run is known as running; one run per simulation |
| user memory | `memories` table, `USER.md`, the pending memory | add, delete, prune, migrate, review, `/confirm` | read-modify-write of a file by several reviews, one pending slot, a flag written after its transaction | permanent memories stay; nothing confirmed is lost; migration once; facts stay; the question asked is the one answered |
| compression store | rows, a lock, an eviction heap and a stale count per process | `store`, `retrieve`, `get_metadata`, `exists`, `get_stats` | heap items outlive their rows, several workers on one file, failed calls read as misses | capacity; the oldest goes first; the heap stays exact and bounded |
| pairing and Telegram polling | `pairing.json`, update offset | request, approve, reject, unpair, poll | file rewritten in place and read unlocked | an approved user stays approved |
| workboard | `workboard.json` | add, move, clear | a lock per process, a file shared by several | no task lost |
| updater and notifier | `update_log` | `check_and_notify` | marked before done | one notice per version |
| SimCore v1 engine and agents | none but the log above | `run_cycle` | – | – |
| gateway, dashboard, accounts, tokens, devices | configuration files | request handlers | – | – |
| model router, browser, web tools | – | HTTP calls | – | – |
| learning, skills, plugins, market analysis, stream scrubber | text | – | chunk boundaries (scrubber) | – |
| rest of context compression | a vendored proxy of its own | – | – | – |

Section 10 says why the ones without a module have none.

## 2. Memory manager

`TurnDelivery` is the promise without executors: a turn handed over is owed to
every provider, a provider is offered what it is owed oldest first, and once
teardown has begun no turn comes in and one may be written off, for all
providers at once and before any was offered it. `MemoryManager` is the code.
The calling thread is `pc` (`_submit_background`: get the executor, submit, or
run inline; `flush_pending`: submit a sentinel and wait), the executors are
`open`, `started`, `queue`, `job` and `at` (the provider whose method the worker
is in), and the teardown is `td` (`shutdown_all`: take the executor, close it,
cancel what is queued, wait a bounded time, close the providers in reverse).

The library's part is modelled as it is written: `shutdown(cancel_futures=True)`
takes the queued tasks out one by one while the worker takes them too
(`StopAccepting`, `CancelQueued`, `CancelledAll`), and it excludes `submit()`
only (`Locked`). So a turn in the middle may be dropped and a newer one land;
what `TurnDelivery` promises is that the providers agree on what was dropped.
Creating an executor may fail, and so may starting its thread, after the task
was queued: the task then runs inline and its copy stays queued (`Copy`,
`SubmitHalfway`, `FlushHalfway`), for a second delivery later (`repeated`). A
provider call may return, raise or never come back, its `shutdown()` too, and
interpreter exit joins the workers as `concurrent.futures` does.

`mm_loop` has turns and shutdown on one event loop (the agent's `stop()`
blocks it), two providers and three turns: `TurnOrder`, `FlushCertifies` (a
`True` of `flush_pending` means every turn before it was offered),
`QuietAfterShutdown`, and the refinement of `TurnDelivery` (`owed` is mapped to
`Owed`, computed from the queue, the job and the hand-over in progress, `lost`
to the cancelled turns, `ending` to a teardown begun).
`mm_threads` puts `shutdown_all` on another thread, the race the code's
comments name: each turn is accepted once, refused, on its way or cancelled by
a shutdown, and only one of these, and what is given again was offered already
(`Accounted`); a hand-over (`TurnNeverStalls`) and a teardown
(`TeardownEnds`) end, and if provider calls come back every turn is offered or
cancelled (`EventuallyOffered`). A hand-over that runs inline ends when its own
provider call does, and `shutdown_all`, which calls each `provider.shutdown()`
inline and with no bound, ends when those do: both are premises of the
properties. `mm_exit` refutes "the worker is daemon, so an over-running task
dies with the interpreter".

Bounds: the second executor (created by a call after `shutdown_all`) is the
last one possible, as the manager is dropped afterwards; three turns give a
running, a queued and a handed-over task at once; three failures are a
thread that cannot be started for both tasks of a turn nor for the sentinel
after them; the code registers two providers at most, the builtin one and one
external. `mm_threads` has two turns, one failure and flushes after the first
turn only (`FlushTurns`), for its temporal properties.

## 3. Trade log and brake

`trades`, `stats` and `log` are the tables; each caller is in one step of
`log_trade` (`call`), one SQL transaction per step: the guard's question, its
three queries, the activation in two statements, the simulator, the insert.
`Closings`, prices and patterns are abstracted to a result and a ratio class;
ticks of `now` stand for hours. `faults` are exceptions in the guard, which
fails open. The second look at the limits that `activate_emergency_stop` takes
serves its report and the end of the cool-down, and is the step `Arm`. `hot` is history: a limit was exceeded since the caller asked.

`tg_race` (two processes): `LateTradesBounded`, at most one trade per other
process slips in under a cool-down, plus one per failed guard;
`BrakeNeverMissed`, a caller passes the guard only if at some moment since it
asked no limit was exceeded, or a trade was closed meanwhile (the three sums are
read by three queries, and a closing between two of them can hide an emergency).

Bounds: two losses on end reach the streak limit, two in a day the daily one,
three in a week the weekly one, so three trades reach each limit alone and
together; two ticks span the day, the week and a cool-down.

## 4. Session memory

`history`, `episodes`, `hits` and `fact` are the three layers for one user and
one topic; each turn in progress is in one statement of
`process` → `save` → `_track_interest` → `maybe_summarize`. Messages are
numbered by insertion; a summary is the sequence of messages it was made of.

`sm_turns` has two turns at once, turns cut short after any statement
(`CutShort`: an exception, which the check for a summary swallows, or a kill),
saves that skip the check and clears of every layer at any moment. The history variable `events` says which of these
have happened, and each property names the ones it cannot stand.
`EpisodesConsecutive` stands all: a summary is of consecutive messages.
`FactBacked` (a fact has its hits) only minds a clear of the facts,
`FactNeverRegresses` overlapping turns as well. `SessionTiled` is for
turns that follow one another to their end, with no history or summaries cleared: the k-th
summary is of exactly the k-th batch (`EpisodesTile`) and fewer than
`memory_size` messages wait (`BacklogBounded`). Bounds: batches of two and three batches; the
promotion threshold is two instead of five, one hit below it and several above
are reached.

## 5. Decision log and feed

Oracles take a decision (`pen`) and append it to `file` later, `feedback` reads
the file and rewrites it (truncate, then write), and a syncer reads the lines,
reads the marker, feeds what is newer to the memory and writes the marker
(empty, then filled). They are spread over `Processes`, the gateway, v2 and any
other process, each of which may die with what it is doing (`Crash`). A write
of the log may fail once the file is empty and leave any part of it
(`WriteLogFails`), the memory may refuse a decision, and the marker's write may
fail. A decision is usable, mute (fed nowhere) or malformed (the feed raises).

`df_one` has an oracle and a syncer in the gateway, an oracle and a rater in
v2, and a syncer in a process of its own; two decisions of one second or of
two. While every line can be fed, a decision comes again at most once per
process that died, write or feed that failed, and sync begun while another one
was under way (`OnceWhileReadable`). A saved decision leaves the log only with
a feedback that was under way when it was saved, or that was cut off between
emptying and writing the file (`LogKept`; `risked` is the history of these).
The marker passes over a usable decision only if it is `forgone`
(`NoneSkipped`): it was there when a sync found no marker or an empty one; it
was saved when a sync had its second or a later one already, by the other
oracle or within the same second; it was not in the log, emptied or lost, when
a sync read it; or its feed failed. Every other one is fed in the end
(`EventuallyFed`, with what is `risked` excused and while no line is malformed).
`df_malformed` refutes "once per decision": a malformed line ends every sync
before the marker moves. Bounds: two decisions are one at the marker and one
behind it, at the same or the next second; one of each disturbance (a rewrite,
a failure, a death, an overlap) at any moment. A second feedback at the same
time (`mixed`) is left to the proofs.

## 6. Simulation IPC

A request thread checks `env_status.json`, writes a command file, polls for
the response and removes both, or gives up at its deadline and removes its
command (`req`). A run does its rounds, announces itself, then polls: list the
directory, look up each file's time, take the first file that parses, work,
write the response, remove the command (`at`, `todo`, `hand`). A file is torn
between open and close; a torn file that is long enough (`Long`) may end inside
a character, and then the reader does not skip it: the run leaves its loop
(`DecodeFails`) and the client raises to its caller (`DecodeResponseFails`).
A run may be killed anywhere, and so may the backend.

The backend starts and stops runs. A run that waits for commands counts as
completed, so an ordinary restart starts another one beside it (`Start`).
Besides, the backend may lose a run's handle: two starts pass the same
check, or the monitor thread of an earlier run, up to two seconds late, drops
the entry of the new one; these and failed writes are `mishaps`.
`overlapped` is the history of the runs that were up together with another one.

`ipc_serve` (a close and a long interview, two runs, one mishap): `ServedOnce`,
`ServedWhileWanted`, `CloseEnds`, `EventuallyServed` (an unreadable file at the
head does not starve the ones behind it) and `ListeningIsAdvertised`. The last
two excuse runs that overlapped: two runs over one directory write one response
file, and the 'stopped' of one hides the other's 'alive'.
`ipc_open` refutes "waiting for commands, the environment keeps running": a
client's clean-up between the listing and the look-up of the time ends the
loop. Bounds: two requests are one in work or torn and one behind it; two runs
are one and its successor, or the one beside it; request ids are fresh, so more
requests only lengthen the queue.

## 7. Compression store

`table` is what the backend holds (a dictionary of one process, or an SQLite
file that several workers share: `backend` and `workers` are chosen in `Init`),
`heap` and `stale` are each process's eviction heap and its count of items
whose entry is gone. One action is one call of the backend: in a process the
lock is held over all of them, in different processes they interleave anywhere.
`store` cleans up what expired, evicts, looks at the row it replaces and writes
(`BeginStore` to `Write`), and `retrieve`, `get_metadata`, `exists` and
`get_stats` find, touch or forget. An entry is stamped before its call waits
for the lock. A call of SQLite may fail, which the code logs and reads as a
miss; a worker may restart with an empty heap.

A write that fails leaves its connection inside the transaction that Python's
`sqlite3` began for it, as the code neither commits nor rolls back (`txn`). From
its next read on such a worker goes on seeing one state of the file
(`snapshot`, `Seen`), and once another worker has written, its own writes are
refused for ever (`Refuse`); until then its next write commits and heals it. A
purge after a write may fail too, with the row already there.

`cs_stores` checks both backends in one run. In memory: the counter is exact
and every entry is in the heap whenever the lock is free (`HeapExact`), the
heap stays below twice the capacity (`HeapBounded`), and the store implements
`BoundedStore`, a cache that drops what is too old or, when it is full, what
was *stored* longest ago (`BoundedRefined`). That is what the comment in
`_evict_if_needed` says ("remove oldest entries", `compression_store.py:686`);
the class comment's "LRU-style eviction" (203) is not what the code does, see
Observed. On the file: the capacity is exceeded by one row at most per further
worker, restart, failed call and key whose row a retrieval wrote back
(`CapacityKept`). `cs_shared` refutes "remove oldest entries" for workers that
share a file.

Bounds: in memory three keys over a capacity of two, six stores and three ticks
past a time-to-live of one, so every key is replaced, expires and is evicted
and the heap is rebuilt; on the file two workers, a capacity of one, three
stores, one restart or failed call and two refused writes. With a mishap the
capacity, the further worker and the mishap already allow three rows, which is
all of the keys: what the run shows of `CapacityKept` is the race of two
workers, and the theorem `CapacityHolds` covers failures, restarts and
write-backs.

## 8. User memory

`rows` and `lastId` are the memories table, `flag` is `.migrated`, `exists` and
`user` are USER.md, `pending` is each process's slot for the memory that waits
for `/confirm`. A thread's place in its call is `call`, with the locals that
live across steps. A step is one statement outside a transaction, one
transaction from its first write on (the earlier reads hold no lock), or one
operation on a file: opening for writing empties it, writing fills it.
`initialize` runs the migration and creates USER.md; a review rewrites USER.md
and inserts memories; `memory_add`, `memory_delete`, `memory_prune`, the
proposal and its answer are the rest. Any of them may meet an exception where
the code catches one, and a process may be killed; a review is a daemon thread,
so an exit of its process cuts it short the same way. The flag and the first
USER.md are one step each: the flag counts from the moment it exists, whatever
is in it, and an empty USER.md holds the same facts as the header, none.

`um_threads` has two threads, in one process or in two:
`PermanentStays` (a delete or prune that read the level earlier never removes a
permanent memory), `MigratedOnce` (no line comes back, deleted by the user
meanwhile or not, unless migrations overlapped or one left no flag),
`SurplusBounded` (overlapping migrations add less than one row each beyond the
lines), `FactsKept` (facts leave USER.md only to two writers at once, an
unreadable file or a write cut short: the run shows that nothing else loses one), `QuestionWaits` (while the slot serves
one thread, the proposal asked about is the one that waits) and
`ConfirmedSaved` (a confirmed memory is lost only with a failed save or a
killed process). `asked`, `owed`, `moved`, `kept` and `events` are history.
How weak a row is depends on weights and age: a prune may pick any row that is
not permanent.

Bounds: two lines to migrate are one inserted and one checked under the lock;
four calls are two overlapping and two that follow; one exception and one kill.

## 9. Fairness, proofs and what only TLC shows

**Fairness.** `MemoryManager.WedgeSpec`: the plumbing of threads that are
scheduled (hand-over, an idle worker, a bounded wait, the steps
of `executor.shutdown`); no turn, flush or shutdown need begin and no provider
call need come back, `provider.shutdown()` included. `EventuallyOffered`,
`TurnNeverStalls` and `TeardownEnds` name the returns they need as their own
premise (`ReturnsFairness`; the inline call's; each provider's `shutdown()`).
`DecisionFeed`: a sync always comes again (after each cycle, at each look at
the status, weekly in a loop without end), and a rewrite of the log goes on; a
process that dies loses what it had begun. `SimulationIPC`: a run in its loop
goes on (it polls twice a second and its handlers catch what an interview
raises) and a client polls; nobody need send, start, stop or time out.
`TradeGuard`, `SessionMemory`, `CompressionStore` and `UserMemory` have safety
properties only: nothing in them waits for anything but a lock or a file.

**Proved by TLAPS**, for every value of the constants that satisfies the named
assumptions. They are what the code's types give, but for these: processes,
threads and keys are finite sets (the proofs about counts need it, and what
runs is finite), there is a thread (`UserMemory`), and `MaxFed` of
`DecisionFeed`, a bound, is above what the faults and crashes allow.

- `MemoryManagerProofs`: `TypeCorrect` (`TypeInv` adds to `TypeOK` which
  executor is current and that a hand-over has a task in hand, without which
  `Head(todo)` has no type) and, with shutdown on the turns' thread,
  `TurnsLandInOrder`. Its invariant `LoopInv` says that one executor is in use
  at a time and an inline task never has a worker beside it (`OneExecutor`),
  nothing is newer than the turn counter, the queue
  is ordered, the job is older than the queue, and the task in hand is newer
  than all of it: `TurnOrder` alone says nothing of a task on its way.
- `MemoryDeliveryProofs`: `TurnsAccounted`, in both threading modes. `Accounted`
  is not inductive: a sync in two places would be offered twice, so `OnePlace`
  says it waits in one only, and `CopiesLate` that the copy of a half-failed
  `submit()` cannot run before its caller has run the task inline. On one loop `DeliveryInv` adds that the queue holds
  its syncs oldest first, that a sentinel is behind what it vouches for and what
  the drain leaves open; from it come `FlushesCertify`, `QuietOnceClosed` and
  `ImplementsTurnDelivery`: `Ledger` says of each step what it hands over,
  offers or writes off of `Owed` (a turn in the queue is owed to all), and that is a step of `TurnDelivery` or none.
- `TradeGuardProofs`: `TypeCorrect` (with the rows, `RowsOK`), `LateTradesAreFew`
  and `BrakeHolds`. The bound on late trades is not inductive: `LateInv` counts,
  while the newest cool-down is active, the callers past their check together
  with the trades already under it, and these stay fewer than the processes and
  the faults. `HotInv` says where the exceeded limit still is when a
  caller is between its reads: in what it has to read yet, or in `bad`.
- `SessionMemoryProofs`, each for any number of turns at once, silent saves,
  clears and turns cut short: `TypeCorrect` (the hits and the turns about to count one are together
  no more than the messages saved); `SummariesAreConsecutive` (the stored history is an interval that
  ends at the newest message, and so is a batch in hand); `SummariesTile` while
  `events` has no overlap, clear, silent save or cut (`Due`, the size at which the
  next summary is made, follows the number of summaries); `FactsAreBacked`
  while the core layer is not cleared (a count in hand is at least the
  threshold and at most the hits); `FactsNeverRegress` (`NotStale`: with no
  overlap the count in hand is not older than the fact).
- `DecisionFeedProofs`, for any number of oracles, raters, syncers and
  processes, with no hypothesis but the named assumptions. `DecisionsKept`:
  `LogKept` says nothing of a rater that has read the log and not yet emptied
  it; `CopyKept` adds that what every feedback under way will write back is all
  that is not at risk already. `TypeCorrect` (`Past`: no time in hand or in the
  marker is yet to come). `FedOncePerDecision`: a decision has one line
  (`OneLineEach`), and `OnceFor` is an account: what a decision was fed plus the
  syncs under way that may feed it yet (`Threats`) stays within the deaths,
  failures and overlaps (`Budget`), with one to spare while the marker is behind
  it and no sync is under way. `NoDecisionSkipped` (`SkipInv`): a decision that
  waits and is not forgone is ahead of the marker and of everything a sync may
  set it to, or in that sync's hand (`Ahead`); two oracles, decisions of one
  second and two syncs are covered, because what they skip is what `forgone`
  names.
- `SimulationIPCProofs`: `CommandsServedOnce` and `CommandsServedWhileWanted`
  for any number of requests, runs and mishaps. `FileInv` relates the
  directory to its users: before its client writes a command and after the
  client is done there is no file; torn is what is being written or was left by
  a client that fell over; a run took up only what was whole; an idle run has
  nothing in hand. `AppendFile` and `RemoveFile` are the lemmas about the
  directory as a sequence without repetition. `ListeningAdvertised`: a
  run that was never up beside another one is the only one up (`StatusInv`), so
  nobody overwrites its status. `TypeCorrect` (`Rest`): the listing sorted by
  time is stated as an order of the files (`Older`), of which the provers can
  say that it repeats none.
- `CompressionStoreProofs`: `TypesKept` on either backend; in memory, for any
  capacity, keys and calls, `HeapIsExact`, `HeapStaysBounded` and the
  refinement `BoundedRefinement`, step by step. `LockInv` says what the holder of
  the lock owes the books at each place (an item popped and not yet accounted
  for, a row deleted and not yet counted), `SizeInv` bounds the heap there,
  and `StampInv` says that no entry in hand is newer than the clock.
  `CapacityHolds` is about the shared file, where a worker whose heap is empty
  adds a row to a full file, but only once: that row is then in its heap.
  `FitsInv` says so as a matching: some workers can be given a row each that
  their heap knows, a different one to each, such that the other rows fit, with
  one more for each of those workers that is past its eviction. A worker whose
  transaction a failed write left open is given no row (`Covers`): the failure
  has paid for it.
- `UserMemoryProofs`, for any number of threads, processes and calls:
  `TypeCorrect`, `PermanentsStay` (`IdsOK` and `DoomedOK`: an id names one row and is
  never given again, so an id in hand cannot come to name a permanent memory),
  `FactsAreKept` (what a writer holds covers what was ever in the file),
  `QuestionsWait` (a thread that asked shares its slot with none that asks),
  `MigratesOnce` (a line inserted is in a migration still under way, or the
  flag is set), `ConfirmedAreSaved` (`ConfirmInv` counts the confirmed contents
  that are neither in the table nor in a hand: one per failed save, one per
  thread of a killed process) and `FewDuplicates` (`SurplusInv`: the migrated
  rows and the threads past their check, which will insert one each, are
  together fewer than the lines and the threads; once a row is there, every
  line is, so no further check passes).

**Only model-checked:** liveness (`EventuallyOffered`, `TurnNeverStalls`,
`TeardownEnds`, `EventuallyFed`, `EventuallyServed`, `CloseEnds`), which rests
on fairness and `ENABLED` and is out of the prover's reach. Every safety
property a passing run checks is also a theorem. The one hypothesis of a theorem
is `~Threaded`; the run that checks the property has it too, and it cannot be
dropped: with `MM_threads.cfg`'s constants TLC violates `TurnOrder`,
`FlushCertifies`, `QuietAfterShutdown` and `DeliverySpec`.

**Observed while modelling**, and left out of the runs (each is a weakening a
property above had to make, or a trace TLC gave):

- with `Threaded`, an inline task overtakes the worker (`memory_manager.py:639`),
  so `TurnOrder` is stated for one loop;
- the last turn's queued sync is cancelled at shutdown although the drain
  window is still open (`memory_manager.py:1072`, comment at 1038);
- the queue is cancelled item by item while the worker takes from it, so a
  newer turn may land after an older one was dropped, in every provider alike
  (`memory_manager.py:1072`);
- `submit()` may queue a task and then fail to start its thread: the inline
  fallback runs it, and a later submit starts the queued copy as well
  (`memory_manager.py:638`);
- `shutdown_all` calls each provider's `shutdown()` inline and waits for it
  without a bound, where it says that a wedged provider must never block
  teardown (`memory_manager.py:1047`; comments at 43 and 1057);
- `close_trade` on a closed trade counts it again (`trade_memory.py:89`);
- the losing streak has no window, so the brake is activated again when its
  cool-down ends with no trade closed since (`emergency_stop.py:62`, docstring
  at 140);
- with two writers, silent saves or a turn cut short before its check, summaries no longer tile
  (`sqlite_store.py:181`, `gateway_server.py:233`); after a clear of the
  history the next summary waits for all the earlier batches to be filled again
  (`sqlite_store.py:188`, docstring at 178); a fact cleared while a promotion is
  under way comes back (`sqlite_store.py:249`); a topic is promoted at five
  hits where the docstring says three (`sqlite_store.py:245`, 230);
- two syncs at once feed a decision twice; `feedback` loses a decision that is
  appended while it rewrites the log (`oracle_agent.py:104`), and all of them
  when it is killed, or its write fails, once the file is empty: v1 raises, v2
  logs a warning and goes on (v2's `oracle_agent.py:94`);
- a decision saved in the second of the marker, or late by another oracle, is
  never fed (`dashboard_api.py:615`), nor is one whose feed failed (620), nor
  any that is in the log when the marker is missing or was cut empty (611);
- rows that SQLite purges or another worker deletes are not counted as stale,
  so a worker's heap has no bound on a shared file (`backends/sqlite.py:162`);
  storing a key that is present evicts another one when the cache is full
  (`compression_store.py:350`); an expired entry is deleted by its key, which
  may have been stored anew (`compression_store.py:715`); a `set()` that fails
  is only logged and `store` answers with the hash (`backends/sqlite.py:130`);
- the class comment of the store promises "LRU-style eviction"
  (`compression_store.py:203`), but what goes is what was stored longest ago:
  `record_access` (409) keeps the time of the last access and eviction never
  looks at it;
- a failed INSERT or DELETE leaves its connection inside a transaction
  (`backends/sqlite.py:182`-207 neither commits nor rolls back), so the worker
  reads one state of the file and, once another worker has written, fails to
  write until it is restarted; "treat the operation as a miss" (131) is not
  what that failure amounts to;
- a simulation that waits for commands is COMPLETED for the backend
  (`simulation_runner.py:648`), so a restart starts a second one beside it: both
  poll one directory and write one status file;
- a file that is torn inside a character raises `UnicodeDecodeError`, which
  neither side catches with `JSONDecodeError`: the run ends its loop
  (`run_parallel_simulation.py:275`), the client raises to its caller
  (`simulation_ipc.py:174`);
- with one slot per process, `/confirm` may save a proposal another user was
  asked about, and a proposal made between its copy and its clearing is lost
  (`core/agent.py:169`); SimCore v1's memory agent logs an entry of level
  confirm as saved although nothing keeps it (`memory_agent.py:100`);
  migrations that overlap insert the first line twice
  (`builtin_provider.py:63`), and a flag that cannot be written brings deleted
  lines back (75); a review that is killed between emptying and writing leaves
  USER.md empty (`review_adapter.py:202`);
- read, not modelled yet: `pairing.json` is emptied and rewritten while
  `pairing_is_approved` reads it without the lock (`dashboard_api.py:692`), its
  next id may be one that was rejected (704), the workboard's lock is its own
  process's (470), and Telegram's updates are acknowledged before the ones
  behind them are handled (`telegram.py:52`);
- SimCore v2: `ZepGraphMemoryManager` is `None` when `start_simulation` first
  calls it, so a run's graph memory is switched off (`simulation_runner.py:388`,
  loaded at 694 only); the API passes a `platform` that `create_simulation` does
  not accept (`api/simulation.py:224`, `simulation_manager.py:207`).

## 10. What is not modelled, and why

- Inside the modelled components: what messages, decisions and interviews say;
  ranking, keyword extraction and prices; provider registration and the hooks
  that only fan a notification out; a log or marker of the feed that is read
  while one write of it is half done; the transaction that a failed statement
  leaves open in the session memory; `_drain_sync_executor` on a Python before
  3.9 or with an `executor.shutdown` that raises (both return without a drain,
  `memory_manager.py:1073`-1082), and a drain whose watcher thread cannot start.
- The stateless parts (model router, browser, market analysis, prompts, skill
  text, set-up, pages) keep nothing between calls: there is no interleaving to
  check.
- `cobweaverclaw_compress/` (but for its store of originals) and most of
  `simcore-v2/` are forks of other projects and would be developments of their
  own. They are nine tenths of the repository's lines: request handlers,
  command lines and text transforms, whose control is a pipeline of calls.
- `CompressionStore`: the feedback events, entries with a time-to-live of their
  own, a corrupt file that is recreated, the store in memory that a worker falls
  back to when the file cannot be opened (`compression_store.py:964`: from then on
  it is the in-memory instance). `UserMemory`: weights and their decay, contexts,
  the prompt block, and two writes of USER.md that mix (the later one is taken to
  replace the other).
- `AlertAgent` is started by nobody.

## 11. Plan

In this order; the first group is code of the same kind as what is modelled
(files rewritten in place, several processes), so the idioms carry over.

1. `SimulationRuns`: `start_simulation`, `stop_simulation`, the monitor thread,
   `run_state.json` and the in-memory tables; composed with `SimulationIPC`
   through the process handle. Abstract specification: at most one live run per
   simulation, and its state says so. Two runs, one backend death, two
   overlapping requests.
2. `Pairing`: `pairing.json` (and the workboard, the same pattern with another
   payload) with two processes and torn reads; Telegram's acknowledged batch
   with a crash.
3. `StreamScrubber`: the chunk parser against a reference definition on whole
   texts, over all splits of short inputs.
4. Proofs: the properties of the modules above as they are written, each with
   the invariant it needs; for what is there, the safety half of the liveness
   properties (that the measure they descend never grows, as an action
   property) and `TurnsAccounted` as a second refinement: with `Threaded`, the
   manager implements `TurnDelivery` without its order.
5. `TradeGuard` with its statistics feeding the signal score over several
   patterns, and the updater.
6. Of the compression proxy, what has state and concurrency: background
   compression, the WebSocket session registry, the rate limiter.

Every run is kept under a few minutes, and a new one takes the place of one
that asks the same question; a finding's run goes when the code changes.
