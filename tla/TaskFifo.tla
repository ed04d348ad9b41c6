------------------------------ MODULE TaskFifo ------------------------------
(***************************************************************************)
(* What the task queue of the MTAPI runtime promises to its callers        *)
(* (mtapi_c/src/embb_mtapi_task_queue_t.h): a bounded first-in first-out   *)
(* queue whose operations take effect at one instant between their call    *)
(* and their return.  A push fails only when the queue is full.  A pop     *)
(* comes back empty-handed when the queue is empty, or when it met another *)
(* thread on the queue: it gives up after a bounded number of spins.       *)
(***************************************************************************)
EXTENDS Naturals, Sequences

CONSTANTS Threads,   \* the callers
          Tasks,     \* the tasks they push
          NoTask,    \* MTAPI_NULL
          Limit      \* capacity of the queue

VARIABLES queue,     \* the tasks in the queue, oldest first
          call,      \* per thread: the operation under way
          task,      \* per thread: the task pushed or popped
          outcome    \* per thread: "pending" until the operation takes effect

fifoVars == <<queue, call, task, outcome>>

FifoInit ==
  /\ queue = <<>>
  /\ call = [t \in Threads |-> "none"]
  /\ task = [t \in Threads |-> NoTask]
  /\ outcome = [t \in Threads |-> "pending"]

Call(t, op, x) ==
  /\ call[t] = "none"
  /\ call' = [call EXCEPT ![t] = op]
  /\ task' = [task EXCEPT ![t] = x]
  /\ UNCHANGED <<queue, outcome>>

TakesEffect(t, op, how) ==
  /\ call[t] = op /\ outcome[t] = "pending"
  /\ outcome' = [outcome EXCEPT ![t] = how]
  /\ UNCHANGED call

Push(t) ==
  /\ TakesEffect(t, "push", "ok")
  /\ Len(queue) < Limit
  /\ queue' = Append(queue, task[t])
  /\ UNCHANGED task

PushFull(t) ==
  /\ TakesEffect(t, "push", "failed")
  /\ Len(queue) = Limit
  /\ UNCHANGED <<queue, task>>

Pop(t) ==
  /\ TakesEffect(t, "pop", "ok")
  /\ queue # <<>>
  /\ queue' = Tail(queue)
  /\ task' = [task EXCEPT ![t] = Head(queue)]

PopNothing(t) ==
  /\ TakesEffect(t, "pop", "failed")
  /\ queue = <<>> \/ \E u \in Threads \ {t} : call[u] # "none"
  /\ UNCHANGED <<queue, task>>

\* embb_mtapi_task_queue_process shows tasks to a visitor and changes nothing.
Process(t) ==
  /\ TakesEffect(t, "process", "ok")
  /\ UNCHANGED <<queue, task>>

Return(t) ==
  /\ call[t] # "none" /\ outcome[t] # "pending"
  /\ call' = [call EXCEPT ![t] = "none"]
  /\ task' = [task EXCEPT ![t] = NoTask]
  /\ outcome' = [outcome EXCEPT ![t] = "pending"]
  /\ UNCHANGED queue

FifoNext ==
  \E t \in Threads :
    \/ \E x \in Tasks : Call(t, "push", x)
    \/ Call(t, "pop", NoTask) \/ Call(t, "process", NoTask)
    \/ Push(t) \/ PushFull(t) \/ Pop(t) \/ PopNothing(t) \/ Process(t)
    \/ Return(t)

FifoSpec == FifoInit /\ [][FifoNext]_fifoVars
=============================================================================
