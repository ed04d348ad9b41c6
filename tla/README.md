# A TLA+ model of EMB²

EMB² (Embedded Multicore Building Blocks) is a library for parallel programs.
Its core is `mtapi_c`, an implementation of the MTAPI task API in C: a work
stealing scheduler, tasks, groups and queues, built on spin locks, id pools and
bounded rings.  On it rest C++ layers (algorithms, data flow networks,
continuations), lock-free containers, and a plugin that runs tasks on other
nodes.  This project models the core and these layers: the data structures
statement by statement, the rest at the level of the steps that other threads
can see.

Paths below are relative to the repository; line numbers of single definitions
are in the `map` of `PROJECT.json`.

## 1. Inventory

| Component | State | Operations | Who touches it |
|---|---|---|---|
| id pool (`embb_mtapi_id_pool_t.c`) | ring of ids, count, two positions, lock | allocate, deallocate | every pool, any thread |
| object pools (`embb_mtapi_pool_template-inl.h`) | storage, handles `(id, tag)` | allocate, deallocate, is_handle_valid | tasks, groups, actions, queues |
| spin lock (`embb_mtapi_spinlock_t.c`) | one word | acquire, acquire with a spin count, release | id pool, task queue, task state |
| task queue (`embb_mtapi_task_queue_t.c`) | ring of task pointers, count, two positions, lock | push, pop, process | workers, starters, waiters |
| node (`embb_mtapi_node_t.c`) | singleton, pools, `is_scheduler_running` | initialize, finalize | the application |
| thread context (`embb_mtapi_thread_context_t.c`) | `run`, `is_sleeping`, queues per priority | start, stop, finalize, process_tasks | main thread, worker, thieves |
| scheduler (`embb_mtapi_scheduler_t.c`) | workers, mode, `affine_task_counter` | worker loop, get_next_task (two orders), schedule_task, wait_for_task, execute_task_or_yield | all threads |
| task (`embb_mtapi_task_t.c`, `..._task_context_t.c`) | state, `instances_todo`, `current_instance`, error code, action, group, queue | start, enqueue, execute, wait, cancel, status_set | starter, workers, waiters |
| group (`embb_mtapi_group_t.c`) | `num_tasks`, queue of completed tasks | create, delete, wait_all, wait_any | starter, workers, waiters |
| action, plugin (`embb_mtapi_action*_t.c`) | `num_tasks`, enabled, function | create, delete, enable, disable | application, scheduler |
| queue (`embb_mtapi_queue_t.c`) | `num_tasks`, enabled, retain, ordered affinity | create, delete, enable, disable, get | application, scheduler |
| job (`embb_mtapi_job_t.c`) | list of actions | get, add, remove | application |
| attributes, affinity (`mtapi_*attributes*_t.c`, `mtapi_affinity_t.c`) | plain data | init, get, set | application |
| lock-free containers (`containers_cpp`: `lock_free_stack`, `lock_free_mpmc_queue`, `object_pool`) | linked nodes from a pool, top or head and tail | try push, try pop | application threads |
| hazard pointers (`hazard_pointer-inl.h`, `thread_index.c`) | guards and retired nodes per thread index | guard, retire, scan, help scan, deactivate | the two containers above |
| value pools (`lock_free_tree_value_pool`, `wait_free_array_value_pool`) | cells, a tree of counters | allocate, free | object pools, any thread |
| single-producer queue (`wait_free_spsc_queue`) | ring, two indices | try enqueue, try dequeue | one producer, one consumer |
| network plugin (`mtapi_network_c`) | sockets, a send buffer and mutex per connection, one thread | initialize, finalize, create action, start task, complete, read | applications and workers of two nodes |
| data flow (`dataflow_cpp`) | inputs of each node per slice, clocks of ordered nodes, counts of sinks | run, receive, on-clock, spawn, enqueue, wait for slice | the thread that runs the network, workers |
| algorithms (`algorithms_cpp`), tasks (`tasks_cpp`) | the range, values of halves, a tree of tasks | for each, reduce, count, scan, merge sort, quick sort, invoke; spawn, then, wait | caller, workers |
| `base_c`, `base_cpp` | threads, mutexes, conditions, atomics, allocation, counters | wrappers of the operating system | everything |
| `mtapi_cpp`, `mtapi_opencl_c` | wrappers; device queues | plugin start, cancel, finalize | applications |

How they interact.  `mtapi_task_start` takes a slot from the task pool, fills it
in, counts it in its group and pushes one pointer per instance to the queues of
the workers.  A worker takes pointers from its private queue, its public one,
and the public ones of the others, and calls the action function.  The instance
that finds `instances_todo = 1` completes the task and pushes it to the queue of
its group.  A thread that waits for a task, or for a group, executes other tasks
meanwhile if it is a worker, *on top of* its wait.  `mtapi_task_wait` deletes
the task and gives its slot back; for a task in a group the waiter of the group
does it.

A queue is a policy and a count: its tasks go to the same queues of the workers,
and to disable or delete it, or an action, is to visit those, to change the
state of what belongs to it, and to wait for the count.  A network action
replaces the push by a frame on a socket; the thread of the plugin on the other
side starts a local task whose completion sends the result back.  Data flow
networks use ordered queues for serial nodes and sinks, groups to wait for a
slice; the algorithms use tasks and waits only.

What is hard here: bare pointers in queues while the slots are reused; a count
of instances shared by workers; nested execution; notifications that may be
lost; starts that fail half way; cancellation that only changes a state; the
order in which a node comes up and goes down.  The list with lines is under
`hazards` in `PROJECT.json`.

What makes each part correct:

* id pool: no id is lost and none is given to two callers;
* task queue: it is a bounded first-in first-out queue;
* node: queues outlive the last worker that looks into them; calls return;
* tasks: each instance runs once, on an allowed worker; a successful wait comes
  after all instances; the pointers to a task are the instances it has left;
* groups: the count is the number of tasks not collected, what is collected has
  completed, waits end.
* queues, actions, jobs: no function of a deleted action runs, an empty count
  means that nothing is left, ordered queues keep their order, the list of a
  job is the actions that exist;
* containers: each is a bounded stack, queue or pool to every caller; no freed
  node is read, none is lost;
* network: a result reaches the task that asked for it, every request is
  answered, waits return;
* data flow: one token per slice, ordered nodes see tokens in order, runs end;
* algorithms: tasks do not overlap, the limit of tasks holds, results are those
  of the sequential definition.

## 2. Modules

| Module | Models |
|---|---|
| `IdPool` | `embb_mtapi_id_pool_t.c`, one action per statement group between lock and unlock |
| `IdPoolProofs` | its inductive invariant and five theorems |
| `TaskFifo` | a bounded first-in first-out queue with calls and returns: what a task queue promises |
| `TaskQueue` | `embb_mtapi_task_queue_t.c`; `Fifo` is `TaskFifo` under a refinement mapping |
| `TaskQueueProofs` | its inductive invariant and the proof that it implements `TaskFifo` |
| `NodeLifecycle` | `mtapi_initialize`, `mtapi_finalize`, thread context start, stop, finalize, the frame of the worker loop |
| `NodeLifecycleProofs` | its inductive invariant and three theorems |
| `MtapiState` | state of the runtime: slots, handles, queues of workers, actions, groups, queues, jobs, call stacks |
| `MtapiScheduler` | scheduling, both search orders, sleep and wake-up, dispatch of scheduled, retained and cancelled tasks, `embb_mtapi_task_execute` |
| `MtapiTask` | start, enqueue, wait, cancel, the status an action sets |
| `MtapiGroup` | create, delete, wait_all, wait_any |
| `MtapiQueue` | queues, actions and jobs: create, delete, disable, enable, the visitors and `process_tasks` |
| `MtapiRuntime` | the composition, fairness, and the properties |
| `ForkJoinFrames` | fork-join programs, and the inductive invariant of the runtime for them |
| `ForkJoinProofs` | lemmas about frames, slots and queues; every step of the runtime keeps that invariant; six of the runtime's properties |
| `LinearContainer` | a bounded stack or queue whose operations take effect at once, between call and return |
| `HazardPointer` | hazard pointers, thread indices, the pool of nodes |
| `LockFree` | the lock-free stack and queue over them |
| `ValuePool` | the wait-free array pool and the lock-free tree pool |
| `ValuePoolProofs` | who holds which cell of a value pool: `SharedOut`; the counts of the tree pool: `TreeCounts`, `PromiseKept`; the wait-free queue as a `LinearContainer` |
| `LockFreeCalls` | the inductive invariant of the lock-free stack and queue, lemmas about lists, the steps that retire no node and scan no list |
| `LockFreeProofs` | the steps that retire and scan: `SafeAccess`, `NodesAccounted`; the stack and the queue as a `LinearContainer`: `ImplementsContainer` |
| `SpscQueue` | the wait-free single-producer queue |
| `Containers` | the three side by side; `C` and `W` are `LinearContainer` under refinement mappings |
| `Network` | the network plugin between nodes, with what it uses of the runtime |
| `Dataflow` | data flow networks on MTAPI |
| `DataflowProofs` | types and order of data flow networks: `TokensInOrder` |
| `Partition` | the partitioners and the checks of the number of tasks |
| `ParallelAlgorithms` | the algorithms, invoke and continuations as trees of tasks |
| `MC*` | instances for TLC: threads, programs, networks, ranges |

### State and steps of the runtime

`task[s]` is slot `s` of the task pool: the fields of `embb_mtapi_task_t` that
anything depends on.  A handle is the slot number and the tag, which the
deletion of a task increases.  `free` is the id pool in the order in which ids
come out of it; `IdPool` shows that the code under its lock behaves like that.
`wqueue[<<w, kind, p>>]` are the queues; they are sequences with atomic
operations, which `TaskQueue` justifies.  `stack[t]` is the call stack of thread
`t`: user code, an API call, a piece of the scheduler.  Nested execution is a
frame on top of a waiting frame.

One action is one access to state that another thread can see, with the local
computation around it.  Thus `embb_mtapi_task_execute` is `ExecRun` (instance
number and RUNNING), `ExecCall`, the body of the action function,
`BodyReturns`, `ExecTodo` (the atomic decrement), `ExecDone` (COMPLETED),
`ExecCount` (the action's count), `ExecGroup` (the check of the group handle)
and `Report` (the push to the group).  The reads after COMPLETED are steps of
their own since the slot may belong to another task by then.  In
`embb_mtapi_task_start` all that happens before the first pointer is visible is
one step, `Start`; the pushes are one by one, and the number of instances is
read from the slot each time, as the code does.

User code is data: `Program` gives the statements of action functions and of
scripts, `Mains` says which scripts the application threads may run.  A `start`
statement of a job includes its attributes.

Abstracted: argument and result buffers, task ids, logging, time (a timeout may
strike whenever it is tested), the number of idle rounds before a worker sleeps
(it may sleep after any of them), the 128 spins of a pop (with `Contention` a
pop may give up at any time).  `instances_todo` is an unsigned int that wraps;
`UIntMod` stands for 2^32 and has to exceed the number of instances only.

`MtapiQueue` is built from frames too: a deletion is `Process` (one step per
worker queue that is visited, under its lock), `Drain` (the wait, which executes
tasks) and `Drained`.  `wqueue` has no positions, so `VisitRing` chooses the
position of the oldest task; the code visits by the wrong index and the choice
covers what it may miss.  Enqueuing is two steps, the test of `enabled` and the
start, since the code holds nothing in between.

External: condition variables, mutexes, atomics and threads of `base_c`, by
what `mtapi_c` uses of them.  Sequential consistency is assumed; the atomics of
`base_c` are full barriers.

### Containers

One step per load, store or compare-and-swap of shared memory.  A call is a
record of its locals; an operation that needs the index of its thread takes it
first (`TakeIndex`) and throws if there is none.  Nodes are numbers of a pool
that is as large as the code makes it, so that the claim on the capacity is
checked and not assumed.  The refinement mapping takes the list as the contents
at every moment.  `LinearContainer` lets a put fail only if the values and the
other puts under way use up the guaranteed capacity, so nodes that are retired and
not yet free are no excuse, and lets a get fail only if the container was empty at
some time during the call, which `saw` notes.  The width of the indices of the
single-producer queue is `IndexMod`, so that they wrap around.
`active_hazard_pointer--` is a plain integer in the code, so the thread that
leaves reads it (`LeaveRead`) and writes it (`LeaveWrite`) in two steps; in one
program two threads leave at once and a third scans with the count that is left.

### Network

Two nodes, each with its plugin thread, its table of tasks and its sockets.  A
frame is sent in two pieces, so that writers that do not hold the mutex mix
their frames; a request carries the handle of the task, the answer brings it
back.  Steps are split where another thread can come between: reading the count
of sockets, storing a socket and writing the count back (`socket_count++` on a
plain `int`, by the plugin thread and by whoever creates an action), sending and
setting RUNNING, checking the handle of an answer, writing the result and
completing the task, reading its group.  The plugin thread reads from the place
it has selected, as the code does, so from another connection when that place
was overwritten.  `Joined` does not wait for workers: a reply that has begun is
sent to its end or stops where it is (`LoseReply`).  The local runtime is
reduced to what the plugin touches.

Two fields are history, written beside the code's state and read by properties
only: `seen`, the tag of the slot when the plugin thread looked at the handle,
and `late`, set in a slot that it wrote when the tag was another one.

### Data flow

A thread has an agenda of calls, innermost first: firing a node, sending a
signal, receiving it, `OnClock`.  Ordered nodes are split at each access to
`next_clock_` and `queued_clock_`.  Ordered queues and groups are used as
`MtapiQueue` and `MtapiGroup` show them to be, for tasks that do not wait.  The
function of a user returns its first argument.

### Algorithms

A call is a tree of tasks; a task is a leaf that works on its range, or it
spawns two halves and joins them.  Two tasks that are active at the same time
work on different elements (`TasksApart`), which justifies that the work of a
leaf is one step.  Partitions, medians, partitioning, merging are operators
translated from the code; the result is compared with the sequential
definition (a fold, the prefixes, the sorted sequence).  `EnoughTasks` is about
one call on a node whose pool has the default size, `MTAPI_NODE_MAX_TASKS_DEFAULT`,
which is the limit of the code, and is otherwise empty: a smaller pool, tasks of
others in it or a second call at the same time may use up the slots although each
call is within the limit.

## 3. Runs

| Run | What it checks | Bounds |
|---|---|---|
| `id_pool` | `TypeOK`, `NoIdLost`, `NoIdShared`, and per step `FailsOnlyWhenExhausted`, `FetchesAnId` | 3 threads, 2 ids: exhaustion, wrap-around of both positions, a third thread at the lock |
| `task_queue` | `ImplementsFifo` (refinement) | 3 threads, 2 tasks, ring of 2: full, empty, wrap-around, giving up |
| `node` | `SearchesLiveQueues`, `ReleasedTogether`, `InitializeDecides`, `FinalizeReturns` | 3 workers, each may fail to start |
| `tasks` | `InstancesAccounted`, `ActionCount`, `PoolSound`, `RunsOnce`, `JoinIsComplete`, `AffinityRespected`, `CompletedIsFinal`, `CollectableAreDone`, `GroupCount`, `ReportsToLiveGroup` | 2 workers, 3 slots that are used again, 2 priorities, locality first, a group inside a group, a group deleted early |
| `waits` | `AppsFinish` | 1 worker, more waits than workers |
| `queues` | `TypeOK`, `QueueCountCovers`, `RunsValidActions`, `OrderedInOrder`, `JobListsActions` | 2 workers, 2 slots, queues of 2 places, pops that give up; seven programs |
| `containers` | `SafeAccess`, `NodesAccounted`, `ImplementsContainer`, `SharedOut`, `TreeCounts`, `PromiseKept` | 2 or 3 threads, up to 11 operations each, capacity 1, so that nodes are retired, scanned and used again; pools of 1, 2, 3 and 5 values |
| `network` | `RightAnswer`, `EveryRequestAnswered` | 2 nodes, 3 application threads, 2 connections, 2 slots a node, up to 3 tasks, slots used again |
| `dataflow` | `SlicesApart`, `TokensInOrder`, `NetworkFinishes` | all kinds of nodes, 2 slices, 3 tokens, 2 workers: the first slice is used again |
| `algorithms` | `TasksApart`, `EnoughTasks`, `ReturnsRight` | ranges of up to 5 elements under every block size, some of 6 to 11; at most 16 tasks |
| `network_hang` | violated: `WaitsReturn` | one task |
| `scan_max` | violated: `ReturnsRight` | maximum, up to 4 elements |

The bounds are chosen so that every step of the code happens.  Two workers are
enough for stealing and for two instances at once, three slots for a parent,
its child in the slot of an earlier task, whose last worker may not be done
with it, and another.  In `containers` the programs are long enough that a
retired list reaches its threshold and a node comes back to the pool while
another thread still holds a pointer to it, which is the case that guards are
for.  Six blocks are the smallest number for which the numbers of Scan's tree
exceed the number of its tasks; nine are refused with 16 tasks.

`tasks` shows what the design rests on.  Queues hold bare pointers, so a slot is
safe only if no pointer to it is left when it is given back: that is
`InstancesAccounted`, and `RunsOnce`, `JoinIsComplete` and `CompletedIsFinal`
are what the user sees of it.  In it tasks are not cancelled, queues have room,
and a task of a group is not put into a slot that another worker still reads.
`queues` does the opposite on purpose: starts fail half way, cancelled tasks
are deleted while queued, so that stale pointers are executed and instances are
lost; there only what must hold even then is checked.

`RunsValidActions` is about deletions with an infinite timeout; after a timeout
the code deletes all the same, so the programs delete actions without one.
`OrderedInOrder` is checked for tasks that do not wait and are not retained
while others follow, see the divergences.  `EveryRequestAnswered` says
of every task that is left without a result at the end of the programs that it
is `Impaired`: one of its two nodes ends, has lost a socket, lists a place that
was not written or a connection that was closed (`Broken`), or the server had no
slot for this very request (`Refused`: three requests meet two slots).
`RightAnswer` excepts a task marked `late`, and frames that are mixed up on a
node that has lost a socket.  In `Reused` a task is cancelled, waited for and
its slot used again before the answer comes: answers with an old handle, and
slots given away between the check and the write, both happen.

### Fairness

`NodeLifecycle` and `MtapiRuntime` assume weak fairness for each thread as a
whole: the operating system runs every thread that can run.  A worker that
waits on its condition variable can always go on, since the wait is limited to
ten milliseconds (`embb_mtapi_scheduler_t.c:279`); the mutants without that
limit violate `FinalizeReturns` and `AppsFinish`, so the notification alone is
not enough.  Calls of the application (`Initialize`, `Finalize`) are not fair:
it may never make them.  `AppsFinish` is checked with `Contention = FALSE`: a
pop that gives up on a lock for ever would starve its caller, and the code has
nothing against it but the shortness of the critical sections.

`Network` assumes weak fairness of each plugin thread, which runs on its own,
and of the other threads taken together; `Dataflow` of all steps taken
together: somebody goes on while anybody can.  Both are weaker than fairness of
every thread.

The deadlock check is off where programs end (`containers`, `network`,
`dataflow`), and in `node` because a shutdown after a failed start does get
stuck (see below).

## 4. Proofs

Checked by TLAPS for every number of threads, ids and workers.

`IdPoolProofs` assumes `Capacity \in Nat \ {0}` and nothing of `Threads`.
`NoIdLost` and `NoIdShared` are not inductive: they say where ids are, not why
the next step finds one there.  The invariant `IInv` adds: the lock word is
taken exactly while one thread is inside (`Mutex`); the free ids are in the
`ids_available` slots from `get_id_position` on and the others are empty, with a
correction for the thread between two assignments; each thread's locals fit its
program point.  One lemma per action shows that `IInv` is kept.  From it follow
`TypeCorrect`, `NoIdLostHolds`, `NoIdSharedHolds`,
`FailsOnlyWhenExhaustedHolds` and `FetchesAnIdHolds`.

`NodeLifecycleProofs` assumes `NumWorkers \in Nat \ {0}`.  `LInv` relates the
point of the main thread to the points of all workers: which of them have been
created, which may be past the release, which have ended.  The core of it: in
phase `free` every worker has no thread or has ended, because `stop` has joined
each with `run > 0`, and a worker with `run <= 0` that was never stopped ended
on its own or was never created.  `SearchesLiveQueuesHolds` and
`ReleasedTogetherHolds` follow, whichever workers fail.

`TaskQueueProofs` assumes a positive `Capacity` and nothing of the threads.
The mapping to `TaskFifo` reads the content of the queue off the ring: the
`tasks_available` entries from `get_task_position` on.  It is a function of the
ring only if the ring is sound, so the proof needs `IInv` first: mutual
exclusion (`Mutex`), the window of the ring (`Window`: where the tasks lie, with
a correction for the thread between two assignments of one call), and the locals
of each point.  `ImplementsFifoHolds` then goes action by action: the statement
that changes `tasks_available` is the step of the abstract queue, every other
one leaves the mapped state alone.  The lemmas about the ring (a push adds at
the end, a pop drops the first) are where the modulo arithmetic is.

`ValuePoolProofs` is about both value pools.  `CellInv` says that a cell is in
exactly one place: in the pool, with one thread that holds it, or in the hand of
the thread that is at the instruction which takes or returns it.  `SharedOut` is
its consequence.  For the tree `TreeInv` says at each inner
node that its count, plus the descents that have been promised a cell at or
above it and are on their way through it, plus the threads that have freed a
cell below and not climbed so far, balance with the free cells below (`Counts`),
and that the promises under one node never exceed those cells (`Covered`).
`TreeCounts` by itself is not inductive: it only speaks of states in which no
call is under way.  An argument over sums, one per step of a descent or a climb,
shows that the balance is kept at the node of the step, and that it is not
touched anywhere else; the tree itself is reasoned about through `Above`, with
the facts that a node is above one of its children exactly when it is above a
leaf of that child.  The module assumes `ThreadsAssumption` (finitely many
threads) and `PoolAssumption` (the sizes are positive numbers).

`LockFreeCalls` and `LockFreeProofs` are about the lock-free stack, the
multi-producer queue and their hazard pointers: any number of threads and of
indices, any capacity, any program of puts, gets and leaves, a leave being the
last operation of its thread (`SetupsAssumption`).  What makes the code right is
an order of events, and the invariant (`LockFreeInv`, made of the parts below)
says what the order leaves behind in a state.  `L` is the list of nodes from
`head` on, whose existence is part of the invariant (`Linked`); the lemmas say
what a push, a pop, an enqueue and a dequeue do to it.

* A node is in one place only (`OnePlace`): the pool, the list, one position of
  one retired list, or the hands of one thread.
* A thread that has set a guard and then found its node still in the list may
  read it (`Safe`): the node is in the list; or somebody has taken it out and
  not retired it yet; or it is in a retired list, and a scan of that list has
  either collected the guard already or has not come to its position.  This is
  the core of the proof: a guard is set before the node is retired, so every scan
  that could free it sees the guard.  `SafeAccess` by itself says nothing of
  scans that are under way.
* A list is scanned by one thread at a time (`Scanned`): its owner, or the one
  thread that has reserved the entry of a thread which has left; indices are given out once (`Indices`).
* A retired list has room unless it is being scanned (`Room`): otherwise an
  append to a full list would lose a node.
* In the queue the tail is never before the head, and the `next` of a node that
  was taken out is final (`QueueOK`), so a dequeue whose head is still `head`
  has the right successor, although it read the three pointers one after the
  other (`DeqOK`).
* What the locals of each call promise (`PushOK`, `PopOK`, `EnqOK`, `DeqOK`): a
  comparison with a value read before is enough, also when the node has been
  popped and pushed again meanwhile.

There is a lemma per step; most reduce it to a lemma about its effect (`Unmoved`:
no node moves; others: a node enters or leaves the list, is retired, a list is
scanned).  `LockFreeSafeAccess` needs nothing but the assumptions.
`LockFreeNodes` says that no node is lost, which the invariant above does not (it
says that none is in two places); `Placement` adds it.  Its hypothesis is
`EnoughIndices`: the threads of a queue are not more than its indices.  Without
it the theorem is false of the code: an enqueue that gets no index throws after
it has taken a node, and keeps it (section 5).  A push needs no index, and a pop
takes it before it holds a node, so for a stack there is no hypothesis.

`LockFreeLinearizable` is the refinement of `LinearContainer`: `Linear` adds to
the invariant what a call has said so far (`Says`: the value it puts is in its
node; a dequeue has copied the value of the node that follows; after the
comparison that succeeds the call has its result, and before it has none).  The
list `L` gives the contents: `Chain` is a recursive function of the nodes, and
`ChainIs` shows that it finds `L`, by the same induction on sets as below.  A push takes effect when it exchanges the head, an enqueue when
it links its node behind the last, which may be before the tail moves; a pop and
a dequeue when they exchange the head.  A get that returns "empty" takes effect
when it read a null pointer; for a dequeue this is a step before the comparison that
confirms it, therefore `saw`.  That a put fails only at the guaranteed capacity
is a count (`NoRoom`): when the pool is empty each of its nodes is in the list,
in the hands of another put, retired or about to be, and the last two are at most
`max_threads` times the size of a retired list (`GoneBound`), which is what the
constructor added to the capacity.  The count needs `NodesAccounted`, and so
`EnoughIndices`.

The wait-free queue is in `ValuePoolProofs`, after the pools.  `SpscInv` says that a
put which has found room still has it, that the value it has stored stays
behind the last one until the index is written, and that a get which has found a
value still has the same one: each index is written by one thread only, so
the test of one thread can only become better by a step of the other
(`Putting`, `Getting`).  The indices wrap at `IndexMod`; the places they stand
for do not jump because the capacity divides `IndexMod` (`Nested`), which
`IndexAssumption` states and the code makes so by rounding the capacity up to a
power of two.  A put takes effect when it writes the tail, a get when it writes the
head, and one that fails when it compares the indices.  `WaitFreeLinearizable` is
the refinement, `ContainersLinearizable` both of them: `ImplementsContainer`.

TLC evaluates `SetupsAssumption`, `IndexAssumption` and `EnoughIndices` on the
instances of the run `containers`.

`DataflowProofs` is about every network that `ConnectionAssumption` admits:
outputs lead to inputs that exist, a switch and a select have the number of ports
that their templates fix.  `TypeCorrect` is the type invariant of the model,
proved for agendas of any length.  `OrderInv` says for every ordered node: the
clocks it has processed, in the order of processing, then those queued for it,
and the claim of the thread that is about to process one form one ascending
line (`Line`, `ClaimOK`), and no two threads have a claim on the same node
(`Apart`).  `TokensInOrder` is the part about what has been processed; it is not
inductive without the rest.  Each step has a lemma that names what it does to a
node, and one lemma per effect says that the order is kept.

`ForkJoinFrames` and `ForkJoinProofs` are about the MTAPI runtime.  Its
properties do not hold for every program (section 5), so the theorems are about
a class: `ForkJoin` says that application threads and action functions start
tasks of one instance, outside groups, wait, with or without a timeout, for tasks
which they started themselves, and set the error of their task; `Code` is a set of
programs closed under what they start.  Everything else is arbitrary: the
programs and how deep they nest, the number of workers, application threads,
slots and priorities, both search orders, the limit of the queues (a start may
find one full, or the pool empty, and fails), affinities, jobs with several
actions, waits for a handle that is no longer valid.  `MCMtapi` lets TLC confirm
that the scripts `fork` and `join` of the runs belong to the class
(`ForkJoinScripts`).  The assumptions are those of `MtapiState`:
`SizesAssumption` (positive sizes, a modulus of the instance counter above the
numbers of instances), `JobsAssumption` and `ActionsAssumption` (jobs list actions,
their priorities and the workers in an affinity exist).

The code passes bare pointers to slots between threads and uses slots again
after the wait that deletes them, so no property of one task is inductive.
`FInv` says who may touch a slot at all:

* each thread has a stack of nested calls in which each frame fits the one below
  it (`StackOK`, `Sits`): a wait sits on the user code that has the handle, an
  action function on the execution of its task, an execution on the worker loop
  or on a wait;
* a slot is held by at most one frame (`HeldOnce`) or is in one place of one
  queue, and not both (`QueuedFree`, `WaitingOK`);
* the handle of a task that exists is known to one frame (`Owned`), so only one
  wait can delete it;
* what each frame assumes of its task still holds (`Good`), and the history says
  that the task has run exactly when its body has returned (`TodoOK`, `RanOK`,
  `DoneOK`);
* the free list is the set of free slots, without repetition (`Pool`).

TLC checked `FInv` on the fork-join scripts before it was proved.  A lemma per
action shows that it is kept; most go through a few lemmas about what a step does
(a frame is replaced, pushed or popped, a task enters or leaves a queue, a slot is
taken or given back).  From `ForkJoinInvariant` follow `ForkJoinTypes` (`TypeOK`),
`ForkJoinPool` (`PoolSound`), `ForkJoinRunsOnce` (`RunsOnce`), `ForkJoinJoins`
(`JoinIsComplete`), `ForkJoinAffinity` (`AffinityRespected`) and the action
property `ForkJoinFinal` (`CompletedIsFinal`).

Statements over finite sets and trees are proved by induction on subsets or on
numbers in the form of well-foundedness (every non-empty set of numbers has a
least element), since the induction theorems of the library take an operator as
a parameter.

Only model-checked, and why:

* liveness and everything under fairness: out of the prover's reach;
* the runtime (`MtapiRuntime`) outside the class `ForkJoin`: its invariants hold
  for the programs of the runs and not for every program.  A program that waits
  for a task of a group and for the group deletes the task twice; one that
  cancels a task and waits for it, or whose start fails after some instances
  were pushed, leaves pointers to a slot that is used again (section 5).  So the
  properties about groups, queues, changes of actions and several instances
  (`CollectableAreDone`, `GroupCount`, `ReportsToLiveGroup`, `QueueCountCovers`,
  `OrderedInOrder`, `RunsValidActions`, `JobListsActions`) stay with TLC, and so
  do `InstancesAccounted` and `ActionCount`, which count tasks over all slots,
  queues and stacks;
* `RightAnswer` of the network: depends on what the programs do, as above;
* `SlicesApart` of data flow networks: depends on the shape of the network;
* `ParallelAlgorithms`: recursive operators, which the prover cannot read.

## 5. Divergences

Two have a run, and a quotation in `PROJECT.json`:

* the start of a network task sets RUNNING after the request was sent, and so
  overwrites COMPLETED when the answer is faster (`embb_mtapi_network.c:533`);
* the second pass of Scan adds where it should apply the scan function
  (`scan-inl.h:104`).

The following were met while modelling, some as traces of TLC and some by reading
the lines a definition is translated from.  The passing runs avoid them, or
check what holds in spite of them:

* `embb_mtapi_task_queue_process` computes the position of the next task and
  then passes `task_buffer[ii]` to the visitor (`embb_mtapi_task_queue_t.c:149`;
  `embb_mtapi_task_queue_t.h:102` says "Process all elements of the task
  queue"): after a pop it shows empty places, a null pointer, and misses tasks;
* a worker that is up waits for `is_scheduler_running` only, so the clean-up
  after another worker's failed start joins it for ever
  (`embb_mtapi_scheduler_t.c:284`; the comment at line 472 says "finalize will
  shut everything down");
* an instance of a cancelled task is dropped without a word to its group
  (`embb_mtapi_scheduler_t.c:330`), `mtapi.h:3237` says that the wait returns
  when all "have completed or canceled";
* the last instance reads the task's group after it has set COMPLETED, when a
  waiter may have given the slot to another task (`embb_mtapi_task_t.c:143`);
* nobody deletes a detached task (`embb_mtapi_task_t.c:292`; line 290 says "it
  will be deleted on completion");
* a wait for a task cancelled before it ran returns `MTAPI_SUCCESS`
  (`embb_mtapi_task_t.c:471`), `mtapi.h:2967` promises
  `MTAPI_ERR_TASK_CANCELLED`; the pointer stays queued;
* a start that fails after it has counted the task in a group or a queue leaves
  the count (`embb_mtapi_task_t.c:305`);
* the push of a completed task to the queue of its group is not checked, and a
  group may have more than `queue_limit` tasks (`embb_mtapi_task_t.c:148`);
* when a later instance cannot be pushed, the task is deleted while earlier
  pointers are queued; the next task in the slot is run by them, and the count
  of an action may become negative (`embb_mtapi_task_t.c:297`);
* the loop that pushes instances reads their number from a slot that may belong
  to another task (`embb_mtapi_task_t.c:282`);
* `mtapi_group_delete` may delete a group between the check of its handle and
  the push to its queue (`embb_mtapi_task_t.c:143`; `mtapi.h:3462` says that
  deleting a group "does not have any influence on tasks belonging to the group");
* nested executions and cancelled tasks do not decrement the count of their
  queue (`embb_mtapi_scheduler_t.c:230`, `:333`), so a deletion or disabling
  without a timeout may wait for ever; each dispatch of a retained task counts
  it once more in its action (`embb_mtapi_scheduler_t.c:323`);
* tasks of an ordered queue run out of order when one of them waits, because
  its worker executes the next one on top of it, and when tasks are put back
  while retained (`mtapi.h:215` promises "sequentially in queue order");
* a task that is enqueued while its queue is being disabled may be missed by
  the visit (`embb_mtapi_task_t.c:372`);
* an action beyond the places of its job is created but not listed, and its
  deletion takes another one off the list (`embb_mtapi_job_t.c:164`);
* threads that leave the lock-free containers at once may lose a decrement of
  `active_hazard_pointer` (`hazard_pointer-inl.h:384`): the threshold for a scan
  stays too high for good, which delays the scans and breaks no property (a list
  has room for the threshold of all threads, `Room`);
* the array pool may return nothing although some value was free at every
  moment of the call, when values move behind the search; an enqueue that
  throws for want of a thread index keeps the node it has taken;
* a network action and the plugin thread append to the array of sockets without
  a lock: both may take the same place or write the same count, and a socket is
  lost (`embb_mtapi_network.c:206`, `:614`); a socket that was closed stays in
  the array, after which every `select` fails;
* a late answer is checked once and written later: when its task was cancelled,
  waited for and deleted in between, it completes the task that uses the slot
  now, with a result that is not its own (`embb_mtapi_network.c:360-380`);
* `mtapi_network_plugin_finalize` destroys the mutex and frees the buffer while
  a worker may be sending a reply (`embb_mtapi_network.c:456`); the model loses
  the rest of the reply, and leaves out that the worker may send what the freed
  memory holds or crash;
* a request that finds the pool of the server full is dropped, and detached
  server tasks never leave that pool (`embb_mtapi_network.c:232`);
* quick sort's check of the number of tasks assumes balanced halves
  (`quick_sort-inl.h:212`): with bad pivots a spawn fails and the call throws
  half way, which `SpawnFails` models.

Seen while reading, without a model: `mtapi_task_cancel` returns
`MTAPI_ERR_UNKNOWN` for a task of an ordinary action
(`embb_mtapi_task_t.c:507`); a start in a deleted group is a start without a
group, where `mtapi.h:3463` promises `MTAPI_ERR_GROUP_INVALID`;
`mtapi_initialize` with bad attributes leaves the instance pointer set
(`embb_mtapi_node_t.c:145`); `mtapi_queue_get` looks at slots 0 to
`max_queues - 1` of a pool that starts at 1; copies of a `Continuation` share
their stages, which the first one to run deletes (`continuation.cc:44`);
`Group::WaitAll` creates a new group after a timeout too (`group.cc:91`); the
OpenCL plugin never decrements the count of its action, does not report to
groups, and sets RUNNING after its completion callback is armed
(`embb_mtapi_opencl.c:199`).

## 6. Not modelled

* `mtapi_opencl_c`: what it does depends on when an OpenCL driver calls back,
  which nothing in the repository says.
* `mtapi_cpp`, `base_cpp` and most of `tasks_cpp`: wrappers that pass a call on;
  function objects, smart pointers, allocators.
* `base_c` other than counters and thread indices: mutexes, condition variables,
  threads, time are taken as the operating system gives them.  Weak memory is
  not modelled: sequential consistency is assumed.
* Attribute accessors, `mtapi_queue_get`, `mtapi_job_get`, `mtapi_info`, logging:
  they change no state that anything here depends on.
* In `embb_mtapi_task_start`: invalid priorities, plugin actions (they are in
  `Network`); in `mtapi_task_enqueue`: a group for the task.  In the worker
  loop: `complete_func`.
* Slots of groups, queues and actions are not reused, so tags of their handles
  do not matter.  A report to a group that is deleted in between goes to freed
  memory; the model keeps it in a record nobody reads.  It happens in the script
  `deletes`, after `mtapi_group_delete` only: that a wait does not delete a group
  a worker is about to report to is `ReportsToLiveGroup`.
* Network failures other than a closed connection, and byte order: the sockets
  are those of TCP, in order and without loss.
* Data flow networks with errors of the user, more than one scheduler, a second
  run of the same network.

The definitions map to a tenth of the lines of the repository.  Of the rest
most is not behaviour: licence headers of every file, the documentation in
public headers (`mtapi.h` alone has 3500 lines without a statement), OpenCL
headers of a third party, C++ templates repeated for each number of arguments
(where the model has one definition for any number), tests, examples and the
wrappers named above.

## 7. Plan

Proofs that are left, in this order: the arithmetic of `Partition` (chunks cover
the range and do not overlap); `ActionCount` and `InstancesAccounted` of the
runtime for fork-join programs.
