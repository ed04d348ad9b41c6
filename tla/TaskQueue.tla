----------------------------- MODULE TaskQueue ------------------------------
(***************************************************************************)
(* The task queue of the MTAPI runtime (mtapi_c/src/                       *)
(* embb_mtapi_task_queue_t.c): a ring of Limit task pointers behind a spin *)
(* lock.  Every worker owns one per priority and kind, every group one.    *)
(*                                                                         *)
(* Every assignment inside a critical section is a step of its own.  The   *)
(* callers pass any task; the same task may be pushed again while it is in *)
(* the ring, as the instances of a multi-instance task are.                *)
(***************************************************************************)
EXTENDS Naturals, Sequences

CONSTANTS Threads,   \* the threads that use the queue
          Tasks,     \* the tasks they push
          NoTask,    \* MTAPI_NULL
          Limit      \* attributes.limit, the capacity of the ring

ASSUME LimitAssumption == Limit \in Nat \ {0}
ASSUME NoTaskAssumption == NoTask \notin Tasks

VARIABLES lock,               \* embb_mtapi_spinlock_t: 0 free, 1 taken
          task_buffer,        \* the ring
          tasks_available,    \* number of tasks in the ring
          get_task_position,  \* slot the next pop reads
          put_task_position,  \* slot the next push writes
          fn,                 \* per thread: the operation it is in
          pc,                 \* per thread: where it is in that operation
          task_position,      \* per thread: local variable task_position
          task,               \* per thread: argument or local variable task
          result,             \* per thread: local variable result
          ii                  \* per thread: loop counter of process

ring   == <<task_buffer, tasks_available, get_task_position, put_task_position>>
locals == <<task_position, task, result, ii>>
vars   == <<lock, ring, fn, pc, locals>>

Slots == 0..(Limit - 1)

\* What a position becomes after an increment.
Advance(pos) == IF Limit <= pos + 1 THEN 0 ELSE pos + 1

\* embb_mtapi_task_queue_initialize_with_capacity.  The buffer is not
\* cleared; no slot is read before it is written, so its content is moot.
Init ==
  /\ lock = 0
  /\ task_buffer = [s \in Slots |-> NoTask]
  /\ tasks_available = 0
  /\ get_task_position = 0
  /\ put_task_position = 0
  /\ fn = [t \in Threads |-> "none"]
  /\ pc = [t \in Threads |-> "idle"]
  /\ task_position = [t \in Threads |-> 0]
  /\ task = [t \in Threads |-> NoTask]
  /\ result = [t \in Threads |-> FALSE]
  /\ ii = [t \in Threads |-> 0]

Goto(t, from, to) ==
  /\ pc[t] = from
  /\ pc' = [pc EXCEPT ![t] = to]
  /\ UNCHANGED fn

Enter(t, op, to) ==
  /\ fn[t] = "none"
  /\ fn' = [fn EXCEPT ![t] = op]
  /\ pc' = [pc EXCEPT ![t] = to]

-----------------------------------------------------------------------------
(* The spin lock.                                                          *)

\* embb_mtapi_spinlock_acquire: spins until the compare-and-swap succeeds.
spinlock_acquire == lock = 0 /\ lock' = 1

\* embb_mtapi_spinlock_acquire_with_spincount: gives up after a number of
\* compare-and-swaps that found the lock taken.
spinlock_gives_up == lock = 1 /\ UNCHANGED lock

spinlock_release == lock = 1 /\ lock' = 0

-----------------------------------------------------------------------------
(* embb_mtapi_task_queue_pop                                               *)

PopCall(t) ==
  /\ Enter(t, "pop", "popLock")
  /\ task' = [task EXCEPT ![t] = NoTask]
  /\ UNCHANGED <<lock, ring, task_position, result, ii>>

PopLock(t) ==
  /\ Goto(t, "popLock", "popCheck")
  /\ spinlock_acquire
  /\ UNCHANGED <<ring, locals>>

PopGivesUp(t) ==
  /\ Goto(t, "popLock", "return")
  /\ spinlock_gives_up
  /\ UNCHANGED <<ring, locals>>

PopCheck(t) ==
  /\ \/ /\ 0 < tasks_available
        /\ Goto(t, "popCheck", "popPosition")
        /\ tasks_available' = tasks_available - 1
     \/ /\ ~ (0 < tasks_available)
        /\ Goto(t, "popCheck", "release")
        /\ UNCHANGED tasks_available
  /\ UNCHANGED <<lock, task_buffer, get_task_position, put_task_position,
                 locals>>

\* Mutant: the position of the next pop stays.
PopPositionStays(t) ==
  /\ Goto(t, "popPosition", "popFetch")
  /\ task_position' = [task_position EXCEPT ![t] = get_task_position]
  /\ UNCHANGED <<lock, ring, task, result, ii>>

PopPosition(t) ==
  /\ Goto(t, "popPosition", "popFetch")
  /\ task_position' = [task_position EXCEPT ![t] = get_task_position]
  /\ get_task_position' = Advance(get_task_position)
  /\ UNCHANGED <<lock, task_buffer, tasks_available, put_task_position, task,
                 result, ii>>

PopFetch(t) ==
  /\ Goto(t, "popFetch", "release")
  /\ task' = [task EXCEPT ![t] = task_buffer[task_position[t]]]
  /\ task_buffer' = [task_buffer EXCEPT ![task_position[t]] = NoTask]
  /\ UNCHANGED <<lock, tasks_available, get_task_position, put_task_position,
                 task_position, result, ii>>

-----------------------------------------------------------------------------
(* embb_mtapi_task_queue_push                                              *)

PushCall(t) ==
  /\ Enter(t, "push", "pushLock")
  /\ \E x \in Tasks : task' = [task EXCEPT ![t] = x]
  /\ result' = [result EXCEPT ![t] = FALSE]
  /\ UNCHANGED <<lock, ring, task_position, ii>>

PushLock(t) ==
  /\ Goto(t, "pushLock", "pushPosition")
  /\ spinlock_acquire
  /\ UNCHANGED <<ring, locals>>

PushPosition(t) ==
  /\ \/ /\ Limit > tasks_available
        /\ Goto(t, "pushPosition", "pushPut")
        /\ task_position' = [task_position EXCEPT ![t] = put_task_position]
        /\ put_task_position' = Advance(put_task_position)
     \/ /\ ~ (Limit > tasks_available)
        /\ Goto(t, "pushPosition", "release")
        /\ UNCHANGED <<task_position, put_task_position>>
  /\ UNCHANGED <<lock, task_buffer, tasks_available, get_task_position, task,
                 result, ii>>

PushPut(t) ==
  /\ Goto(t, "pushPut", "pushAvailable")
  /\ task_buffer' = [task_buffer EXCEPT ![task_position[t]] = task[t]]
  /\ UNCHANGED <<lock, tasks_available, get_task_position, put_task_position,
                 locals>>

PushAvailable(t) ==
  /\ Goto(t, "pushAvailable", "release")
  /\ tasks_available' = tasks_available + 1
  /\ result' = [result EXCEPT ![t] = TRUE]
  /\ UNCHANGED <<lock, task_buffer, get_task_position, put_task_position,
                 task_position, task, ii>>

-----------------------------------------------------------------------------
(* embb_mtapi_task_queue_process.  The visitor is the caller's; it returns *)
(* false, and ends the loop, for a task that is not its own.  The loop     *)
(* keeps idx but indexes the buffer with its counter ii.                   *)

ProcessCall(t) ==
  /\ Enter(t, "process", "processLock")
  /\ result' = [result EXCEPT ![t] = TRUE]
  /\ ii' = [ii EXCEPT ![t] = 0]
  /\ UNCHANGED <<lock, ring, task_position, task>>

ProcessLock(t) ==
  /\ Goto(t, "processLock", "process")
  /\ spinlock_acquire
  /\ UNCHANGED <<ring, locals>>

ProcessVisit(t) ==
  /\ ii[t] < tasks_available
  /\ task' = [task EXCEPT ![t] = task_buffer[ii[t]]]
  /\ \E visitorResult \in BOOLEAN :
       /\ result' = [result EXCEPT ![t] = visitorResult]
       /\ \/ /\ visitorResult
             /\ Goto(t, "process", "process")
             /\ ii' = [ii EXCEPT ![t] = ii[t] + 1]
          \/ /\ ~ visitorResult
             /\ Goto(t, "process", "release")
             /\ UNCHANGED ii
  /\ UNCHANGED <<lock, ring, task_position>>

ProcessDone(t) ==
  /\ Goto(t, "process", "release")
  /\ ~ (ii[t] < tasks_available)
  /\ UNCHANGED <<lock, ring, locals>>

-----------------------------------------------------------------------------
Release(t) ==
  /\ Goto(t, "release", "return")
  /\ spinlock_release
  /\ UNCHANGED <<ring, locals>>

\* The caller takes the result.
Return(t) ==
  /\ pc[t] = "return"
  /\ fn' = [fn EXCEPT ![t] = "none"]
  /\ pc' = [pc EXCEPT ![t] = "idle"]
  /\ task' = [task EXCEPT ![t] = NoTask]
  /\ result' = [result EXCEPT ![t] = FALSE]
  /\ ii' = [ii EXCEPT ![t] = 0]
  /\ task_position' = [task_position EXCEPT ![t] = 0]
  /\ UNCHANGED <<lock, ring>>

Step(t) ==
  \/ PopCall(t) \/ PopLock(t) \/ PopGivesUp(t) \/ PopCheck(t)
  \/ PopPosition(t) \/ PopFetch(t)
  \/ PushCall(t) \/ PushLock(t) \/ PushPosition(t) \/ PushPut(t)
  \/ PushAvailable(t)
  \/ ProcessCall(t) \/ ProcessLock(t) \/ ProcessVisit(t) \/ ProcessDone(t)
  \/ Release(t) \/ Return(t)

Next == \E t \in Threads : Step(t)

Spec == Init /\ [][Next]_vars
-----------------------------------------------------------------------------
(* Properties                                                              *)

PC == {"idle", "popLock", "popCheck", "popPosition", "popFetch", "pushLock",
       "pushPosition", "pushPut", "pushAvailable", "processLock", "process",
       "release", "return"}

\* Type invariant of the queue of embb_mtapi_task_queue_t.c and its callers.
TypeOK ==
  /\ lock \in {0, 1}
  /\ task_buffer \in [Slots -> Tasks \cup {NoTask}]
  /\ tasks_available \in 0..Limit
  /\ get_task_position \in Slots
  /\ put_task_position \in Slots
  /\ fn \in [Threads -> {"none", "pop", "push", "process"}]
  /\ pc \in [Threads -> PC]
  /\ task_position \in [Threads -> Slots]
  /\ task \in [Threads -> Tasks \cup {NoTask}]
  /\ result \in [Threads -> BOOLEAN]
  /\ ii \in [Threads -> 0..Limit]

\* The slot of the oldest task: pop counts it out of tasks_available before
\* it moves get_task_position.
First == IF \E t \in Threads : pc[t] = "popPosition"
           THEN Advance(get_task_position) ELSE get_task_position

\* The tasks in the ring, oldest first.
Content == [k \in 1..tasks_available |-> task_buffer[(First + k - 1) % Limit]]

\* The task of a thread as its caller will see it.
CallersTask ==
  [t \in Threads |->
     CASE fn[t] = "process"       -> NoTask
       [] pc[t] = "popPosition"   -> task_buffer[get_task_position]
       [] pc[t] = "popFetch"      -> task_buffer[task_position[t]]
       [] OTHER                   -> task[t]]

\* Where an operation stands: a push takes effect when it makes the task
\* available, a pop when it takes the task away.
Outcome ==
  [t \in Threads |->
     IF fn[t] = "none"
        \/ pc[t] \notin {"popPosition", "popFetch", "release", "return"}
       THEN "pending"
       ELSE IF \/ fn[t] = "push" /\ result[t]
               \/ fn[t] = "pop" /\ CallersTask[t] # NoTask
               \/ fn[t] = "process"
              THEN "ok" ELSE "failed"]

Fifo == INSTANCE TaskFifo WITH
          queue <- Content, call <- fn, task <- CallersTask, outcome <- Outcome

\* The ring behind its spin lock behaves as the bounded queue of TaskFifo:
\* tasks leave in the order they came, none is lost, duplicated or made up,
\* push fails only on a full queue, and pop returns MTAPI_NULL only on an
\* empty queue or when another thread is in the queue.
ImplementsFifo == Fifo!FifoSpec

=============================================================================
