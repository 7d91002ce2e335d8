# TLA+ models of the tealscript runtime

This directory holds TLA+ specifications of the tealscript interpreter in `src/`, the TLC
configurations that check them, and TLAPS proofs of their main properties. tealscript is a
header-only C++ library that runs a *graph of nodes*: every node has a body (a script
function), arguments that name other nodes, inputs or constants, and one output value. Threads
of a pool execute the nodes over and over; the host program feeds inputs, reads outputs, starts
and stops the pool.

The models are written from the code. Where a document of the repository says something else,
`PROJECT.json` records it under `findings`, with a run in which TLC shows the difference.

## Inventory

Paths are relative to `src/src/`.

| component | files | state | operations | what is hard |
|---|---|---|---|---|
| Node scheduler | `tealscript_runtime.hpp` 1395-1690, `tealscript_cells.hpp` | `thread_mode_`, `termination_requested_`, `failure_`, `threads_`, the shared index, per node: `locker_`, jump requests, `return_result_`, value; `outputs_` | `run_mt`, `stop_mt`, `wait`, `terminate`, `set_input`, the pool thread's loop | interleaving of threads, flags read at different points, restart after an interrupted execution |
| Values of a running graph | `tealscript_value.hpp`, `tealscript_expr.hpp` 1302-1342, `tealscript_exec_ctx.hpp`, `tealscript_runtime.hpp` 1544-1617, 1790-1806 | boxes (`valbox::box_`) shared by cells, frames, instance variables, results, literals, outputs | argument passing, assignment, return, publish, `set_output` | aliasing between nodes that run in parallel |
| Single-threaded execution | `tealscript_runtime.hpp` 1306-1393 | the same tables | `run_cycle`, `run` | order of nodes, mode switching |
| Statements and execution context | `tealscript_statement.hpp`, `tealscript_exec_ctx.hpp` | jump flags, frames, barriers, function depth | `exec` of each statement, function call | requests that leak out of the construct they belong to |
| Lexer, parser, code generation | `tealscript_lexer.hpp`, `tealscript_parser.hpp`, `tealscript_codegen.hpp` | none over time | translation | grammar |
| Readers-writer spin locks | `inc/mt_synchro.hpp`, `tealscript_value.hpp` 200-243 | a counter and two pending counters | lock, try_lock, unlock, upgrade, downgrade | preference, starvation |
| Worker pool, command queues | `inc/threaded_queue_processing_base.hpp`, `inc/command_queue.hpp` | two job queues, the list of workers, load averages | enqueue, dequeue, spawn, kill, destroy | counters checked and changed in separate steps, jobs that enqueue themselves |
| Packet fragmentation | `inc/net/net_data_transfer.hpp` | outgoing messages by 16-bit id, partial incoming messages | `add_message`, `fetch_out_chunk`, `add_data` | loss, duplication, reordering, id reuse |
| UDP server and client | `inc/net/udp_server_muxed.hpp`, `inc/net/udp_client_muxed.hpp` | connections, muxers, flags of the workers | accept, receive, send, time out, close | check-then-insert, lock order, workers that stop re-enqueueing themselves |
| TCP server and client | `inc/net/tcp_server.hpp`, `inc/net/tcp_client.hpp`, `inc/net/socket_*.hpp` | connections, buffers | the same over streams | the operating system's part |
| External values | `tealscript_net.hpp`, `tealscript_runtime.hpp` 2198-2439 | subscriptions, caches of external cells, connected clients | subscribe, unsubscribe, push, poll, reconnect | self-re-enqueueing chains, lost packets, stop flags |
| Containers | `inc/containers/*.hpp` | ring buffers, queues | push, pop, resize | index arithmetic |
| Persistence, regulators, other extensions | `ext/*.hpp` | files, PID state | load, save, step | crash between steps |

Components call one another directly. The scheduler calls a node's body through the statement
tree; the tree uses the node's execution context; arguments and results move as `valbox`es. The
external-values part and the network classes run their handlers as jobs of command queues, in
threads of their own, and touch the runtime's cells through the same locks as the pool.

The hazards this code is exposed to are listed in `PROJECT.json` under `hazards`, each at its
line with the properties that watch it, or with the module that will.

## What is modelled so far

### CellScheduler: the threads of run_mt

`CellScheduler.tla` models `runtime::run_mt`, `stop_mt`, `wait`, `terminate`, `set_input` and the
loop of every pool thread, at the grain at which threads can see one another: one action per
atomic access to shared state.

| state | code |
|---|---|
| `mode`, `started`, `host` | `thread_mode_`, `threads_` not empty, where the host thread is |
| `term`, `failed` | `termination_requested_`, `failure_` |
| `pc`, `cur`, `loop`, `got` | a thread's program counter, node, `loop_ctr`, and what it put on the node's frame |
| `index` | `worker_cells_flat_array_index_` (only its value modulo the number of nodes matters) |
| `lock` | the owner of every node's `locker_` |
| `ret`, `jump`, `res` | `return_requested_`, break or continue requests, `return_result_` of a node's context |
| `val`, `out`, `inp` | `cell_base::val_` of nodes and inputs, `outputs_` |

An execution of a node by a thread is `Fetch` (take an index), `TryLock`, `ReadArg` for each
argument (each a separate read of another node's value) or `SkipUndefined`, `EnterBody`, `Return`
/ `NoReturn` / `Throw` / `ScriptExit`, then `BreakOut` when the termination flag is up, else `GoOn`,
`Publish`, `SetOutput`, `Unlock`. The termination check after the body and the publication are
separate steps, so the flag can rise in between.

Values are abstract: a value is the number of the newest host input it depends on, 0 is
`undefined`, and what a body computes is the constant `Body`. `Traits` says which nodes' bodies may
throw, call `exit()`, return nothing, or be cut short by termination. Left out: `run_mt` for a graph
without nodes, nodes without a definition, timeouts of `wait` (a wait that times out changes
nothing), and more than one host thread, except that `terminate()` may come at any time.

### NodeDataflow: what the scheduler promises

`NodeDataflow.tla` is the abstract specification of one pool run: a node is at rest, or it has seen
the values of some of its arguments, one by one and each as published at that moment, or it is
computing, or it has published and owes the output. What it publishes is its body applied to
exactly what it saw. There are no threads, indices, locks or jump flags. `CellScheduler` implements it
with the refinement mapping `Stage` (how far the holder of the node's lock is) and `Seen` (what the
holder has put on the frame); `scheduler_flow` checks it with TLC, `DataflowProofs` proves it.

### NodeValues: who shares a box with whom

`NodeValues.tla` models the heap. `ref` gives, for each place that can hold a `valbox` (a node's or
input's published value, an output, the argument / local variable / instance variable of a node,
its `return_result_`, a literal of the script), the box it refers to; `heap` what each box holds. A
copy of a `valbox` shares the box, assignment writes the box in place, only `set_output` clones,
and a box nothing refers to is freed (`Become`). Each node executes in one thread at a time, which
is `CellExclusive` of the scheduler; different nodes interleave freely. What bodies may assign and
return are constants, so the same module answers both "what if scripts do anything" and "which
discipline makes parallel execution safe". Arrays and objects count as one box.

### WorkerPool: the threads behind command_queue

`WorkerPool.tla` models `threaded_queue_processing_base` and the part of `command_queue` it calls.

| state | code |
|---|---|
| `term`, `told` | the termination flags of the pool and of each `worker_thread` |
| `queue` | the jobs in `hp_q_` and `lp_q_` |
| `list` | `workers_`, its length `num_workers_` |
| `born` | a worker whose thread has started and which is not yet in `workers_` |
| `wpc`, `job` | where each worker thread is, the job it runs |
| `epc`, `ejob` | where a thread is in `enqueue`, and the item it enqueues |
| `ctl`, `victim` | the control thread, the worker it has taken off the list to kill |
| `owner` | where the destructor is |

`enqueue` is `Submit` (from outside) or `Resubmit` (from a running job), then `Push`, `Notify`,
`Look` (reads the number of workers), `Create` and `Created`. A worker is made in two steps, as its
thread starts in the constructor: `StartThread`, after which it may already run a job, and `ListWorker`,
which counts it; the list's mutex is held from one to the other. A worker goes through `Loop`, `Take` or
`TakeNothing`, `WaitFor`, `TimeOut` or a notification, and `Served`. The control thread reads the
counters in one step and acts on them in a later one; a killed worker leaves the list in `CtlKill`
and is joined only in `CtlJoin`. The destructor joins the workers it pops (`PopWorker`,
`JoinPopped`) with the list's mutex held; `ListFree` says that nobody holds it.

The normal and the urgent queue are one set of jobs: the concurrent queue promises an order only
among the jobs of one producer, and nothing in `src/` calls `enqueue_urgent`. The load averages are
data that decide nothing but when workers come and go, so a comparison with one may come out either
way. Destroying the pool while an outside thread is inside `enqueue` is a misuse of the object and
excluded by the guard of `Terminate`; a running job may be inside `enqueue`. Jobs end.
`deferred_command_queue` is not modelled.

### PacketsMux: messages over datagrams

`PacketsMux.tla` models one direction of a UDP connection: `send` of `udp_server_muxed` (the client's
differs only in that a failing `sendto` closes the socket), `packets_muxer`, the network, and
`packets_demuxer` behind `set_incoming_data`.

| state | code |
|---|---|
| `count`, `sid`, `pos`, `pending`, `key` | `stream_id_gen_`, and of each message its `stream_id_`, its `packet_no_` and whether it is in `out_buffers_`; `out_buffers_key_` |
| `pc`, `chunk` | where a thread is in `send`, the datagram it has fetched and not handed out |
| `net` | every datagram handed to the socket so far |
| `parts`, `delivered` | `in_buffers_` by stream id, what `add_data` has returned |

The network is a set nothing is removed from: any datagram may arrive at any time, any number of
times or never, so a failing `sendto` is a datagram that never arrives. Time is abstract: with any
arrival any set of partial messages may be old enough to be thrown away. A message is data that
only its identity tells from others, so what the demuxer composes is a function from datagram
numbers to messages, and `Whole(m)` is the one that is right. `PacketsTurns.tla` adds a history
variable: how often, while a message waits for its turn, each other one has been served
(`overtaken`), which is what `NoHeadOfLine` speaks of.

### RWSpinMutex and SharedLock: the readers-writer spin locks

`RWSpinMutex.tla` models `mt::atomic_rw_spin_mutex` (`inc/mt_synchro.hpp`) and the lock inside
every value box (`tealscript_value.hpp` 200-243), which is the same algorithm with writers
preferred. The box lock is always compiled in; the mutex stands behind `mt::shared_mutex` only with
`TEAL_USE_CUSTOM_SHARED_MUTEX` (`tealscript_util.hpp` 115).

| state | code |
|---|---|
| `current`, `pendingR`, `pendingW` | `current_`, `pending_readers_`, `pending_writers_` |
| `policy` | `RW_MUTEX_PRIORITIES` and `prefer_writers_` |
| `pc`, `curr` | where a thread is in a locking call, the value of `current_` it saw last |
| `overtook` | history, for `OvertakenOnce`: the readers let in since a writer began to wait |

Every atomic access is a step, so between a look at `current_` and the compare-exchange anything may
happen, and the attempt is made with the old sight (`curr`). `upgrade()` waits without announcing
itself. It has no caller in `src/`; two threads in it would wait for each other for ever, which
`LockAssumption` excludes. A compare-exchange that fails without reason is one more round of the
same loop and is not modelled. `SharedLock.tla` is the abstract readers-writer lock, one variable
that says what each thread holds; `ImplementsLock` maps the program counters to it.

### BoxAssign: assignments under a box's lock

`BoxAssign.tla` models `valbox::assign` and `valbox::assign_preserving_type`: which box a value has
(`box`), which boxes are defined (`defined`), who holds a box's lock (`holder`), and the assignment
a thread is in (`job`), with whether its source was defined when it began. The lock is `SharedLock` as
writers see it. It is a module apart from
`NodeValues` because that one takes an assignment as one step, which is what the lock is for; here
the question is whether the lock taken is the lock given back.

### StructuredExec and ExecContext: what running a body means, and how it is done

`ExecContext.tla` models the `exec` functions of the statements over one `execution_context`.

| state | code |
|---|---|
| `ctl`, `pc`, `at` | the C++ calls of `exec` in progress, where the innermost one is, which of its expressions it evaluates |
| `frames`, `barriers` | `stack_` up to `stack_ptr_`, `stack_barriers_` |
| `ret`, `brk`, `cont`, `result` | `return_requested_`, `break_requested_`, `continue_requested_`, `return_result_` |
| `exc` | the C++ exception in flight |
| `acc` | the value of the expression evaluated so far |
| `term`, `outcome` | `termination_requested_`, what `run_mt` made of the execution |

There is no program: at each point any construct, expression or jump the parser lets stand there may
come next, so a run covers all bodies up to the bound. One variable name stands for all, since
names do not interact; a value is the label of the variable it was read from. Each construct has one
frame here; the two a script function opens, for its arguments and for its body, are merged, as no
barrier lies between them. An unnamed handler runs in the frame of its `try`. Calls have enough
arguments. What flags a termination leaves behind for the next `run_mt` is `CellScheduler`'s subject.

`StructuredExec.tla` is the meaning: constructs nested in one another, jumps that go straight to
their target, names looked up in the running function's constructs. `ImplementsStructured` maps a
context with a jump under way to the state *after* the jump: `Kept` says how many constructs are left
when it arrives. Once termination is requested the abstract program is stopped; that the concrete one
gets out too is `TerminationUnwinds`.

### ExternValues: a node of one runtime as an input of another

`ExternValues.tla` composes the publishing runtime, the network and the subscribing process, for one
node and one external cell.

| state | code |
|---|---|
| `case` | fixed in the initial state: what happens besides starting the server, the network's capacity, whether the publishing runtime has external cells (`ext_cells_processor_needed_`) |
| `host` | where the host is in `start_net_server` / `stop_net_server` |
| `term` | `termination_requested_` of the publishing runtime |
| `enabled`, `running` | `pp_subs_functor_enabled_`, `pp_subs_functor_running_` |
| `chain` | each chain of the self-re-enqueueing `pp_subs_functor_`: queued, asleep after its pass, about to end |
| `server`, `conns` | `ppserver_`, the server's connections |
| `sub`, `late` | `net_subs_`: the value sent last; who has not been heard for a period |
| `node`, `cell` | the published value, the external cell |
| `port`, `heard` | the client object by its socket, whether it received anything since the last round |
| `reqs`, `pubs` | datagrams under way |

`Pass` is the part of the publishing job under `net_subs_mtp_`, `Decide` its choice to enqueue itself
again or not, `End` the clearing of the subscriptions. A pass that has something to send while
`ppserver_` is null ends the process (`PassWithoutServer`). `StartSubs` enqueues one more chain, also
when the server is there. A stop goes through `StopSubs` (which looks at nothing), `StopWait` (until
no chain runs; at once when none has had its first pass, or the last has ended at a termination request)
and `StopServer`, before which a runtime without external cells (`case.keeps` false) destroys its queue
with what waits in it. `Terminate` and `RunMt` are `stop_mt` and `run_mt` as far as the chain sees them.
`Receive` is a datagram with the `process_input` it causes; `Round` is `ext_cells_processor_`, which
replaces a silent client object (`Renew`) or not (`Keep`) and subscribes again; `Arrive` is a value with
`on_data_arrived`. At each `Sends` any part of what is sent or under way may get lost. `Crash` and
`ClientCrash` end a process, which may start again.

`ExternStops.tla` adds a history variable that no action reads: `waited` says that no stop since the
server was last started has found a subscriber and no chain running. `SenderHasServer` is stated with it, because
without it the code does not have the property: see the divergences below.

Assumed: a connection is named by the port it was made for; the name asked for is published; the
pool of the runtime has two threads or more, so the two chains do not wait for each other; one host
thread starts and stops; the subscribing runtime is not terminated otherwise than with its process.
Nothing is assumed of the time `StopServer` takes: the UDP server's `stop` may wait for ever for a
worker job that was drained with the queue. `Served` states the code's timing: while a chain goes on,
passes come every millisecond and rounds every five seconds, so a subscription is served before the
next round. Duplicated datagrams change nothing here and are left to `PacketsMux`.

## Runs

All runs finish within three minutes with two TLC workers. `CHECK_DEADLOCK FALSE` is set in
the runs of the scheduler, the values, the pool, the muxer, the lock and the interpreter because
the system may really stop there: the host never has to call again, the bounds on `run_mt` calls and
inputs run out, a destroyed pool does nothing more, all messages have been sent, nobody has to take a
lock, and a terminated body does not start again.

| run | instance | what it shows |
|---|---|---|
| `scheduler_restart` | 2 threads, sequential traversal, a chain of 2 nodes that both read the input, 1 input value, 2 `run_mt`s; bodies throw, exit, are cut short, return nothing | `TypeOK`, `CellExclusive`, `OutputMatchesValue`, `StoppedIsQuiet`, and under fairness `StopReturns`, `FailureStopsAll` |
| `scheduler_flow` | 2 threads, undefined inputs disabled, node 0 waits for the input and for node 1 | `PublishesOwnResult` within one `run_mt`, `ValuesNeverRegress` along the graph, `Settles`: under fairness every node that may execute ends with the value of its current sources, although another one waits; and `ImplementsDataflow`: the scheduler implements `NodeDataflow` |
| `scheduler_stale` | the same graph in the default traversal, 2 input values, 2 `run_mt`s, ordinary bodies | *violated*: `PublishesOwnResult` after a restart |
| `values_own` | 2 nodes in a chain, bodies that assign only locals and instance variables and return no instance variable | `TypeOK`, `NoSharedWrites`, `PublishedStable`, `LiteralsConstant` |
| `values_field` | bodies that return their instance variable | *violated*: `PublishedStable` |
| `values_literal` | a literal as argument, which the body assigns | *violated*: `LiteralsConstant` |
| `pool_fair` | a caller with two jobs, one of which enqueues a third when it runs; `max_workers_` 1, three worker threads at one time | `TypeOK`, `Accounted`, `NothingLeft`, and under fairness `JobsServed`, `SurplusGoes` and `DestroyReturns`, which excepts one deadlock of the code (`Entangled`) |
| `mux_wrap` | two threads send three messages of 3, 2 and 1 datagrams; two stream ids, so ids come round | `TypeOK`, `Intact`, `QuietMeansSent`, `NoHeadOfLine`, `NeverReplaced` |
| `rw_mixed` | 3 threads that between them lock, try, lock shared, upgrade and downgrade, in the three policies | `TypeOK`, `LockCounts`, `OvertakenOnce`, under fairness `WritersGetIn` and `SomeoneGetsIn`, and `ImplementsLock` |
| `box_rebind` | `assign()` to a value that is or was undefined | *violated*: `NoCountingError` |
| `exec_nested` | any body nested four deep, two variables, exceptions and termination at any point | `TypeOK`, `ScopeIsActivation`, `JumpsAreTaken`, under fairness `TerminationUnwinds`, and `ImplementsStructured` |
| `extern_lossy` | two sockets, one chain at a time, in three cases (`MCCases`): the server stopped at any moment and the runtime terminated and run again; both processes crash, with two datagrams each way; a stop that destroys the queue | `TypeOK`, `SenderHasServer`, and under fairness `Reflected`, `GoneAreForgotten` |

**Bounds.** `MaxInput` = 2 gives an older and a newer input, what a regression needs; `scheduler_restart` asks
nothing of the order of inputs and has one. `MaxRuns` = 2
gives one restart: nothing in the state counts restarts, so a third adds only repetitions. Two
threads suffice for every race on one node's lock and for one thread's publication between two
reads of another. Two nodes give a chain and, with the input read by both, two paths of different
length. In `NodeValues` five boxes are enough for every place of the instance to hold a box of its
own at the moments that matter; when they run out, steps that need one are not taken, which only
removes behaviours. `Contents` has `undefined` and one other value, enough to see a change.
In `WorkerPool` one worker is the limit, so a second one is already a surplus; three worker threads
allow one running in the list, one being killed and one being created at the same moment. A caller
and a running job are the two kinds of threads that enqueue, and can both find no worker. When all
worker identifiers are in use `StartThread` waits for one: the identifiers are the only bound.
In `PacketsMux` two ids for three messages make ids wrap while a message is pending, and two threads
are as many as `NeverReplaced` allows with two ids (the code has 65536). Three datagrams are the
fewest with a first, a last and one in between. README.md:53 of the repository claims
`NoHeadOfLine`.
In `RWSpinMutex` three threads are one that waits, one that is preferred and one that holds; the roles
overlap so that each mixture of calls occurs. In `ExecContext` four constructs hold a call inside a
loop inside a `try` of the node's body (a named handler is a fifth, pushed without a bound), and two
labels tell the right variable from a wrong one. In `ExternValues` two sockets are an old and a new
client object, and two datagrams an old and a new value or a "subscribe" that passes a "close"; what the
host does to the server needs no second datagram. One value besides `undefined` suffices for `Reflected`,
since the cell and the subscription also hold `undefined` and `NotSent`. The three cases keep the graph
under fairness within TLC's reach. With one chain a second start waits until the last chain has ended, which is
how a terminated runtime publishes again. Starts that come earlier add a chain each: the invariants
also hold of two chains when stops, terminations and crashes all occur (1,279,524 states), and
by the theorem of any number.

**Fairness.** `FairSpec` asks for weak fairness of each thread's `Step` (the operating system
schedules every thread, and a body ends), and of the return of the joins in `stop_mt` and `wait`. No
action of the scheduler has strong fairness, no particular thread has to win a `try_lock`, and the host is never
obliged to call anything. In the pool each worker, the control thread, each thread inside `enqueue`
and the destructor's steps are weakly fair: threads are scheduled, jobs end, `wait_for` times out;
nobody has to submit a job or destroy the pool. `Settles` speaks of behaviours in which the pool
keeps running from some point on. In the lock, threads inside a call are scheduled (weakly fair
`Goes`), and whoever holds the lock gives it back (strongly fair `Ends`, as it may upgrade and downgrade
meanwhile); nobody has to begin. In the interpreter the thread runs (`Step`), and an expression has
finitely many operators and calls (strongly fair `Consume`). In the external values the
jobs go on and the host is obliged to nothing; the network is fair in the sense that what is sent
again and again gets through again and again, which for this protocol means the request of a round and its answer before the next round
(`RoundKept`, `HeardKept`, `NextKept`, `PassKept`, `Arrive`: the request is sent and received, the connection
is there until the pass, and what the pass sends arrives); and a silent subscriber's ten seconds pass
(`PassWithout`). No such promise is made for any single datagram.

**What the violations mean.**

* *A restart publishes an old result.* A thread that sees the termination flag after a body leaves
  the loop before `clear_all_jumps_request()` (runtime.hpp:1608-1610). The node keeps its return
  request, so in the next `run_mt` its first execution returns at once and publishes the old
  `return_result_` although newer arguments are on its frame. If the body was cut short inside a
  function call, that result may be `undefined`; hence `ValuesNeverRegress` speaks of nodes that no
  such body feeds (`NeverCutShort`).
* *A published value changes under its readers.* `return this.n` publishes the variable's own box.
  Assigning an argument writes the source's box in the same way.
* *A literal changes.* A literal given as an argument is the literal's own box; `v = v + 1` in the
  body counts up in the literal.
* *`assign()` unlocks a box it never locked.* Where the destination's box is undefined,
  `assign_preserving_type` gives the value a new box (value.hpp:6719) between locking and unlocking.
  The guard unlocks the new one and throws out of a destructor; the old box stays locked.

`PublishesOwnResult` holds until the first restart (`scheduler_flow`, and the theorem below) and fails
after it (`scheduler_stale`): it is stated once and used by both runs.

**Known divergences without a run.** In sequential traversal with undefined inputs disabled, the
`continue` for an undefined argument (runtime.hpp:1601-1603) skips the advance of `loop_ctr`, so one node that
waits keeps its thread from the nodes behind it, where README.md:58 has nodes execute independently.
The chain that fetches external values ends at a termination request in the same way as the publishing
one, and nothing revives it. The publishing chain is revived by a second `start_net_server` only: after
`stop_mt` it has ended (runtime.hpp:2432-2437), `run_mt` (1475-1523) starts none, and the server goes on
taking subscriptions and publishes nothing, where README.md:178 has changes reflected on the client.
`Reflected` therefore speaks of a server whose chain is alive (`Publishing`).

`stop_net_server` waits for a chain that runs, and only for that. When it comes before the first pass, or
after a termination has ended the chain, subscriptions stay in `net_subs_` and `ppserver_` is reset; the
next pass, of a chain still queued or of the one that `start_net_server` enqueues (runtime.hpp:1834) before it
creates the server (1840), sends through the null pointer at 2421. `SenderHasServer` without `waited` is
violated in both ways; no document promises it.

A job of the pool may have to create a worker: it enqueues, and reads that there is none (line 74 of
`inc/threaded_queue_processing_base.hpp`). That happens when its own worker runs before it is counted
(331-333). If the destructor takes the list's mutex first, it joins that worker, whose job waits for the
mutex, and both wait for ever. `DestroyReturns` names the state (`Entangled`) and shows that nothing else
keeps the destructor; without that exception it is violated. No document says that destruction returns.

## Proofs

The eight proof modules are checked by TLAPS to the last leaf. They hold for all values of the
constants that satisfy `SchedulerAssumption`, `BodyAssumption`, `ValuesAssumption`, `PoolAssumption`,
`MuxAssumption`, `LockAssumption`, `ExecAssumption` and `ExternAssumption`. A hypothesis beyond these
is named in the theorem: `MonotoneBody` and `FewSenders`, which the MC modules assume of their
instances and TLC evaluates there, `MaxRuns = 1`, and the disciplines of `NodeValues`.

*Scheduler* (`CellSchedulerProofs`). `Invariance` proves the inductive invariant `IInv`: the types;
`LockHeld`, a thread inside an execution owns the lock of the node it is at; `ArgsRead`, a body starts
with exactly its arguments on the frame; `OutputLag`, value and output of a node agree unless its
holder is between `Publish` and `SetOutput`, and then the value is the one about to be handed out;
`PoolMode`, a host not in multi mode has no thread running. `OutputMatchesValue` alone is not
inductive, since it says nothing of a locked node. From `IInv` follow `TypeCorrect`, `CellExclusion`
(two threads inside one node would both own its lock), `OutputAgreement` and the action property
`StopIsQuiet`.

`NoRegress` proves `ValuesNeverRegress` for bodies that return something as new for newer arguments
(`MonotoneBody`; without it an older value may be the right one). It holds for any number of restarts
and for graphs with cycles. What makes it hard is that a node reads its arguments one at a time while
their nodes go on, and that a restart publishes what an interrupted execution has left. The invariant
compares three readings of the arguments: `InOrder`, a node's value, and a result still to be
published by whichever run, are no newer than the body applied to the arguments as they are *now*;
`FrameInOrder`, the arguments read so far, completed with those not yet read, are no newer than now
and still new enough for the value the node already has. An argument's step forward keeps both, by
monotonicity, and that arguments only step forward is the same property of the other nodes.
`NeverCutShort` is the largest set of nodes that no body cut short feeds, so the induction stays in it.

*Dataflow* (`DataflowProofs`). With `MaxRuns = 1`, that is until a second `run_mt`, `Implementation`
proves that the scheduler implements `NodeDataflow`, and `FirstRunPublishesOwnResult` that what a node
publishes was computed from what this execution read. The invariant adds to `IInv`: `HolderInside`, the
owner of a lock is inside that node (so `Stage` is well defined by the holder); `ArgsKept`, the
arguments stay on the frame until the result is out; `OwnReturn`, a return request is this
execution's own and its result the body applied to its frame, or termination is requested and
nothing is published any more; `FirstRun`, before the first `run_mt` no thread has left anything
behind. A second `run_mt` lowers the termination flag while a request may still be there, which
breaks `OwnReturn`; `scheduler_stale` shows the behaviour, so the theorem's hypothesis is needed.

*Values* (`NodeValuesProofs`). `TypeCorrect` and `OutputsIsolated` hold whatever scripts do: the
invariant says that an output's box is referred to by no other place. `OutputsIsolated`
is the one theorem whose property has no run. `DisciplinedPublish`,
`DisciplinedLiterals` and `DisciplinedWrites` assume a discipline, that no body assigns its argument
or returns an instance variable it assigns, and prove that published values and literals are never
written in place and that no running node can write a box another one reaches. The two violated runs
break the discipline in one point each, so each half of it is needed.

*Pool* (`WorkerPoolProofs`). `Accounted` needs, to be inductive, that the control thread has a victim
exactly while it kills (`HasVictim`), that the destructor touches the list only after the control
thread has ended (`OwnsList`) and that only running jobs and, while the pool lives, callers are
inside `enqueue` (`InCall`); two lemmas say what appending a worker to a list of distinct ones and
taking the first off do. `NoThreadLost` and `DestroyedIsEmpty` follow: no worker can be created after
the destructor saw an empty list, because only a running job could do it, and a running job is a
worker that is still in the list. Between its two steps a new worker is in neither place: `HasBorn` ties
`born` to the one thread that is at `listing`, and only while nobody else holds the list's mutex.

*Muxer* (`PacketsMuxProofs`). `MessagesIntact` holds for every number of ids, also when they come
round: it speaks of data whose stream id has named one message so far. The invariant adds that a
datagram carries the id its message was given (`OwnId`) and that a partial message holds only data
of messages with its id, each under a number it has (`PartsOfId`). As many parts as the last datagram
announces are then all parts of that message: a subset of its numbers with their cardinality
(`Complete`). That ids do come round early is a hazard the property does not cover: parts of a
message that lost a datagram may complete the next message with their id.

`QuietIsSent` and `NoneReplaced` need that no more threads send than there are ids (`FewSenders`; the
code has 65536). A thread returns from `send` only when nothing is pending, so while a message waits
each thread adds at most one, and the ids of pending messages lie within as many numbers as there are
threads in `send` (`RecentIds`): the next id is free. From this, `Fetched` (a datagram taken is on the
network or in a thread's hands), `InHand` and `LeftComplete` give that nothing is left behind.
`NoBlocking` needs no hypothesis. The cursor goes up through the ids and starts over at the lowest, so
waiting messages are ordered by their distance from it, round the circle (`InTurn`): one that has been
served since another's last turn is farther off than that other, and cannot be served again before it.
That the cursor survives the message it stands at (`KeyNamed`) and that pending ids are distinct
(`Distinct`) are the rest of the invariant.

*Spin locks* (`RWSpinMutexProofs`). `CountsHolders` rests on `Alone`, a writer holds the lock with nobody
else, and `CurrentInv`, what the counter is in terms of who holds; `PendingInv` counts the announced
in the same way and makes the waiting counters natural numbers. `OvertakenAtMostOnce` needs `SeenInv`,
that `try_lock_shared` goes on only after a sight of the counter that was not negative, and
`OvertakeInv`: a reader that has overtaken a waiting writer has no attempt left (its `pc` is neither
`rcas` nor `tryr3`), so it must pass the check again and finds the writer announced. `SpinMutexIsALock`
maps every step to a step of `SharedLock` or a stutter. Of `LockAssumption` the
proofs use that the threads are finitely many; that at most one upgrades is for `SomeoneGetsIn`.

*Interpreter* (`ExecContextProofs`). `StackInv` says that there are as many frames as constructs in
progress, that the node's is the outermost and only it (`NodeOutermost`), and that the barriers are,
in order, the numbers of frames below the functions in progress (`BarriersAtCalls`); `ScopeCorrect`
follows, with lemmas on what pushing, popping and calling do to the stack. `JumpsTaken` needs besides
that no jump is requested with an exception in flight (`ExcInFlight`), which expression a construct may
be in (`ExprPlaces`), and that a jump under way has its target on the stack (`JumpsUnderWay`).

`MeansStructured` is the refinement `ImplementsStructured`, for every program and depth. Besides the
invariant it needs that no value is in hand between expressions (`HandEmpty`). The proof first says
what is visible of a state, in one lemma for each kind of jump under way (`LooksWhenQuiet`, `...Returning`,
`...Breaking`, `...Continuing`, `...Thrown`, `...Stopped`): the constructs up to the jump's target
(`View`), seen as already left. A request of a jump is then the one abstract step, from the whole stack
to its target (`TargetSeen`, `LoopTargetSeen`), and every construct left on the way is a stutter,
because the innermost construct of the target's kind stays the same when one of another kind is
popped (`TargetKept`). That a lookup between the barrier and the top finds what the running function's
constructs declare is `FoundIsOwner` and `KnownIsOwned`, from `ScopeCorrect`'s invariant.

*External values* (`ExternValuesProofs`). `SenderHasServer` alone is not inductive: nothing in it says that no
subscription is there when the next server starts. `HostInv` relates `enabled` and the server to where the
host is; `ClearInv` says that a stop which found the chain running passes its wait only when an end of a
chain has cleared the subscriptions, that none comes before the next server, and that this holds whichever
chain ends first. `ServerThere` follows for any number of chains. Its hypothesis, `waited`, is what the
last stop found, not an assumption on the order of the host's calls: terminations, second starts and early
starts are steps of `SpecStops`. `HistoryOnly` says that the history variable adds no behaviour.

*Only model-checked:* everything under fairness (`Settles`, `StopReturns`, `FailureStopsAll`,
`JobsServed`, `DestroyReturns`, `SurplusGoes`, `WritersGetIn`, `SomeoneGetsIn`, `TerminationUnwinds`,
`Reflected`, `GoneAreForgotten`), which is out of the prover's reach. Every other property of a
passing run is the subject of a theorem.

## Plan

In this order; each with its runs, bounds and theorems.

1. *Done:* `CellScheduler`, `NodeDataflow`, `NodeValues`, `WorkerPool`, `PacketsMux`, `RWSpinMutex` with
   `SharedLock`, `BoxAssign`, `ExecContext` with `StructuredExec`, `ExternValues`, and their proofs.
2. *Done:* the proofs of `ValuesNeverRegress`, `ImplementsStructured` and the sending side of `PacketsMux`.
3. `NodeDataflow` extended with what an interrupted execution leaves behind, so that `ImplementsDataflow`
   needs no `MaxRuns = 1`.
4. `UdpSession`: the threads of the UDP server and client, their start, stop and time limits; the
   termination of a subscribing runtime.
5. `deferred_command_queue` on top of `WorkerPool`: a job is handed over not before its time, and once.
6. `RunCycle`: one pass of the single-threaded mode compared with the scheduler.
7. Containers and `data_fragments_buffer` as operators checked against reference definitions.

## Not modelled

The lexer, parser and code generator translate text once and keep no state between steps. JSON and
serialization are encoders. The extension libraries wrap the operating system or compute pure
functions. Loading, instantiation and reset run before or between the executions modelled and decide
the constants of `CellScheduler`. The TCP classes repeat over streams what the UDP ones do; what is
hard in them is the operating system's. Threads of the UDP server and client, encryption and time
limits are cut out of `ExternValues` and `PacketsMux` as said there.

Most lines of the repository are not tealscript's own: `3rd/` holds copies of a physics engine, a
message queue, a graphics library and others that example programs and extensions link, and files such
as `inc/unicode_operations.hpp` are generated tables. tealscript calls into them and defines nothing
of what they do.
