----------------------------- MODULE MtapiState -----------------------------
(***************************************************************************)
(* State shared by the modules that model the MTAPI runtime (mtapi_c/src): *)
(* the task pool, the queues of the workers, the groups, the actions, and  *)
(* the call stacks of the threads.                                         *)
(*                                                                         *)
(* A thread is a worker or an application thread.  It runs a stack of      *)
(* frames, the top first: user code, an API call that takes several steps, *)
(* or a piece of the scheduler.  A worker that waits runs other tasks on   *)
(* top of the wait, so the nesting is part of the behaviour.               *)
(*                                                                         *)
(* A task is a slot of the pool that is used again after the task is       *)
(* deleted.  The queues hold pointers, that is slot numbers; the user      *)
(* holds handles, a slot number and the tag of the slot.                   *)
(*                                                                         *)
(* The queues are first-in first-out and their operations atomic, which    *)
(* module TaskQueue shows of their code.                                   *)
(***************************************************************************)
EXTENDS Integers, Sequences, FiniteSets, FiniteSetsExt, Bags

CONSTANTS NumWorkers,     \* scheduler->worker_count
          Apps,           \* application threads
          MaxTasks,       \* attributes.max_tasks, slots of the task pool
          QueueLimit,     \* attributes.queue_limit, capacity of every queue
          MaxPriorities,  \* attributes.max_priorities
          Mode,           \* scheduler->mode, "VHPF" or "LF"
          Groups,         \* the groups that are ever created
          Queues,         \* the queues that are ever created
          QueueAttr,      \* [Queues -> job, priority, ordered, retain, worker]
          Actions,        \* the actions that are ever created
          ActionJob,      \* [Actions -> Jobs]: the job an action is created for
          Jobs,           \* the jobs
          JobActions,     \* [Jobs -> Seq(Actions)]: the actions of a job at first
          MaxActions,     \* attributes.max_actions_per_job
          Affinity,       \* [Actions -> SUBSET Workers]
          Attr,           \* [Jobs -> attributes of the tasks started on it]
          Program,        \* user code: [Scripts \cup Actions -> Seq(statement)]
          Mains,          \* SUBSET [Apps -> Scripts]: what the application runs
          NoAction, NoGroup, NoQueue,
          UIntMod,        \* range of an unsigned int, a power of two
          CountLimit,     \* bound of the counts of actions
          Contention      \* a pop may give up on a contended queue

Workers == 0..(NumWorkers - 1)
Threads == Workers \cup Apps
Slots   == 1..MaxTasks
Prios   == 0..(MaxPriorities - 1)

ASSUME SizesAssumption ==
  /\ NumWorkers \in Nat \ {0} /\ MaxTasks \in Nat \ {0}
  /\ QueueLimit \in Nat \ {0} /\ MaxPriorities \in Nat \ {0}
  /\ UIntMod \in Nat \ {0, 1} /\ \A j \in Jobs : Attr[j].instances < UIntMod
ASSUME JobsAssumption ==
  /\ Mode \in {"VHPF", "LF"}
  /\ \A j \in Jobs : Len(JobActions[j]) <= MaxActions /\ Attr[j].priority \in Prios
  /\ NoAction \notin Actions /\ NoGroup \notin Groups /\ NoQueue \notin Queues
  /\ \A q \in Queues : QueueAttr[q].priority \in Prios /\ QueueAttr[q].worker \in Workers
ASSUME ActionsAssumption ==
  /\ Jobs # {} /\ MaxActions \in Nat \ {0} /\ CountLimit \in Nat
  /\ \A j \in Jobs : JobActions[j] \in Seq(Actions)
  /\ \A a \in Actions : Affinity[a] \subseteq Workers

VARIABLES
  task,       \* the slots of node->task_pool
  free,       \* its id pool: ids in the order they will be handed out
  wqueue,     \* the workers' queues: [<<worker, kind, priority>> -> Seq(Slots)]
  affine_task_counter,
  is_sleeping,\* per worker
  action,     \* [Actions -> record]: num_tasks is the number of tasks in flight
  group,      \* [Groups -> record]
  queue,      \* [Queues -> record]: the queues of the application
  job,        \* [Jobs -> record]: the list of the actions of a job
  stack,      \* per thread: its frames, the top first
  status,     \* per thread: what the last API call returned
  ran         \* history: the bag of the calls of action functions that returned

scheduling == <<wqueue, affine_task_counter, is_sleeping>>
objects    == <<queue, job>>
memory     == <<task, free, scheduling, action, group, objects>>
history    == <<status, ran>>
vars       == <<memory, stack, history>>

-----------------------------------------------------------------------------
(* Handles and slots                                                       *)

NoHandle  == [id |-> 0, tag |-> 0]
Handle(s) == [id |-> task[s].id, tag |-> task[s].tag]

\* embb_mtapi_task_pool_is_handle_valid
ValidTask(h) == h.id \in Slots /\ task[h.id].tag = h.tag

\* embb_mtapi_group_pool_is_handle_valid.  Every creation is a group of its
\* own here, so a handle is valid from the creation to the deletion.
ValidGroup(g) == g \in Groups /\ group[g].valid

\* embb_mtapi_action_pool_is_handle_valid, embb_mtapi_queue_pool_is_handle_valid
ValidAction(a) == a \in Actions /\ action[a].valid
ValidQueue(q)  == q \in Queues /\ queue[q].valid

\* embb_mtapi_task_initialize; the attributes are left as they are.
TaskInitialize(r) ==
  [r EXCEPT !.action = NoAction, !.state = "ERROR", !.group = NoGroup,
            !.queue = NoQueue, !.error = "SUCCESS", !.current = 0]

\* Mutant: the handle of a deleted task stays.
DeletedTaskKeepsId(r) == TaskInitialize(r)

\* embb_mtapi_task_delete: finalize the task and give its slot back.
DeletedTask(r) == [TaskInitialize(r) EXCEPT !.id = 0, !.tag = @ + 1]
FreeAfterDelete(s) ==
  IF Len(free) < MaxTasks THEN Append(free, task[s].id) ELSE free

\* Mutant: one place more than there is.
HasRoomForOneMore(q) == Len(q) <= QueueLimit

\* embb_mtapi_task_queue_push succeeds: there is room in the ring.
HasRoom(q) == Len(q) < QueueLimit

\* The number of tasks in flight of an action grows without end while a worker
\* puts a retained task back; from CountLimit on it is not told apart.
More(n) == IF n < CountLimit THEN n + 1 ELSE n
Less(n) == IF n < CountLimit THEN n - 1 ELSE n

\* fetch_and_add(counter, (unsigned int)-1)
MinusOne(n) == (n - 1) % UIntMod

Init ==
  /\ task = [s \in Slots |->
       [id |-> 0, tag |-> 0, state |-> "ERROR", todo |-> 0, current |-> 0,
        error |-> "SUCCESS", action |-> NoAction, group |-> NoGroup,
        queue |-> NoQueue, priority |-> 0, job |-> CHOOSE j \in Jobs : TRUE]]
  /\ free = [k \in Slots |-> k]
  /\ wqueue = [q \in Workers \X {"private", "public"} \X Prios |-> <<>>]
  /\ affine_task_counter = 0
  /\ is_sleeping = [w \in Workers |-> FALSE]
  /\ action = [a \in Actions |->
       LET created == \E j \in Jobs : \E k \in DOMAIN JobActions[j] : JobActions[j][k] = a
       IN  [valid |-> created, enabled |-> created, num_tasks |-> 0]]
  /\ queue = [q \in Queues |-> [valid |-> FALSE, enabled |-> FALSE, num_tasks |-> 0]]
  /\ job = [j \in Jobs |-> [num_actions |-> Len(JobActions[j]),
       actions |-> [k \in 1..MaxActions |->
         IF k <= Len(JobActions[j]) THEN JobActions[j][k] ELSE NoAction]]]
  /\ group = [g \in Groups |-> [valid |-> FALSE, num_tasks |-> 0, queue |-> <<>>]]
  /\ \E main \in Mains : stack = [t \in Threads |->
       IF t \in Workers THEN <<[at |-> "loop", n |-> 0]>>
       ELSE <<[at |-> "user", prog |-> main[t], i |-> 1, started |-> <<>>]>>]
  /\ status = [t \in Threads |-> [op |-> "none"]]
  /\ ran = EmptyBag

-----------------------------------------------------------------------------
(* Frames                                                                  *)

Top(t)       == Head(stack[t])
At(t, where) == Top(t).at = where

ReplaceTop(t, f) == [stack EXCEPT ![t] = <<f>> \o Tail(@)]
PushFrame(t, f)  == [stack EXCEPT ![t] = <<f>> \o @]
PopFrame(t)      == [stack EXCEPT ![t] = Tail(@)]

\* User code: the statement a thread is about to execute.
InProgram(t) == At(t, "user") /\ Top(t).i <= Len(Program[Top(t).prog])
Statement(t) == Program[Top(t).prog][Top(t).i]
Calls(t, op) == InProgram(t) /\ Statement(t).op = op

\* The user code has gone past its call.
Advanced(f)  == [f EXCEPT !.i = @ + 1]
Call(t, f)   == [stack EXCEPT ![t] = <<f, Advanced(Head(@))>> \o Tail(@)]
CallDone(t)  == ReplaceTop(t, Advanced(Top(t)))

\* A call that took several steps comes back to the user code below it.
Returns(t, op, of, code) ==
  /\ stack' = PopFrame(t)
  /\ status' = [status EXCEPT ![t] = [op |-> op, of |-> of, code |-> code]]
=============================================================================
