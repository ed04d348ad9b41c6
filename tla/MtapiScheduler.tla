--------------------------- MODULE MtapiScheduler ---------------------------
(***************************************************************************)
(* The scheduler of the MTAPI runtime (embb_mtapi_scheduler_t.c) and the   *)
(* execution of a task (embb_mtapi_task_execute): how a task gets into the *)
(* queue of a worker, how a worker finds one, and what it does with it.    *)
(***************************************************************************)
EXTENDS MtapiState

-----------------------------------------------------------------------------
(* embb_mtapi_scheduler_schedule_task                                      *)

\* Mutant: the affinity of the action is not looked at.
TaskAffinityAlone(s) ==
  LET mine == Attr[task[s].job].affinity IN IF mine = {} THEN Workers ELSE mine

\* The workers a task may run on; an empty intersection means all of them.
\* An ordered queue has a worker of its own, whatever its tasks ask for.
TaskAffinity(s) ==
  LET q    == task[s].queue
      both == IF ValidQueue(q) /\ QueueAttr[q].ordered THEN {QueueAttr[q].worker}
              ELSE Affinity[task[s].action] \cap Attr[task[s].job].affinity
  IN  IF both = {} THEN Workers ELSE both

\* A call of embb_mtapi_scheduler_schedule_task: of a start for one of its
\* instances, or of a worker that puts a retained task back (again).
ScheduleFrame(s, h, n, fine, back) ==
  [at |-> "schedule", task |-> s, of |-> h, instance |-> n, ok |-> fine,
   again |-> back, action |-> NoAction, to |-> {}]

\* The first worker of the set at or after position k, going round.
FirstFrom(k, ws) ==
  (k + Min({d \in Workers : (k + d) % NumWorkers \in ws})) % NumWorkers

\* The counter plus one: from the number of workers on only its residue
\* matters, so it is folded back.
CounterAfter(c) == IF c + 1 < 2 * NumWorkers THEN c + 1 ELSE NumWorkers

\* A task without restrictions goes to a public queue, round robin by slot
\* and instance.  Others go to a private queue; a counter spreads them, and
\* a counter value past the last worker is no worker at all.
ScheduleTarget(s, instance, ws) ==
  LET c  == affine_task_counter
      k  == IF c < NumWorkers THEN c ELSE (c + 1) % NumWorkers
  IN  IF ws = Workers
        THEN <<(task[s].id + instance) % NumWorkers, "public", task[s].priority>>
        ELSE <<FirstFrom(k, ws), "private", task[s].priority>>

\* One more task in flight for its action.
ScheduleCount(t) ==
  /\ At(t, "schedule")
  /\ LET a == task[Top(t).task].action IN
       \/ /\ ValidAction(a)
          /\ action' = [action EXCEPT ![a].num_tasks = More(@)]
          /\ stack' = ReplaceTop(t, [Top(t) EXCEPT !.at = "schedulePush", !.action = a,
                                       !.to = TaskAffinity(Top(t).task)])
       \/ /\ ~ValidAction(a)
          /\ stack' = ReplaceTop(t, [Top(t) EXCEPT !.at = "scheduled", !.ok = FALSE])
          /\ UNCHANGED action
  /\ UNCHANGED <<task, free, scheduling, group, objects, history>>

\* Push the task; wake the worker if it sleeps.  The notification is lost on
\* a worker that has said it sleeps but does not wait yet.
SchedulePush(t) ==
  /\ At(t, "schedulePush")
  /\ LET s == Top(t).task
         q == ScheduleTarget(s, Top(t).instance, Top(t).to)
         w == q[1]
         pushed == HasRoom(wqueue[q])
         mine   == <<[Top(t) EXCEPT !.at = "scheduled", !.ok = @ /\ pushed,
                                     !.action = NoAction, !.to = {}]>>
                   \o Tail(stack[t])
         wakes  == pushed /\ is_sleeping[w] /\ At(w, "waiting")
     IN  /\ wqueue' = IF pushed THEN [wqueue EXCEPT ![q] = Append(@, s)] ELSE wqueue
         /\ action' = IF pushed THEN action
                                ELSE [action EXCEPT ![Top(t).action].num_tasks = Less(@)]
         /\ affine_task_counter' =
              IF q[2] = "private" THEN CounterAfter(affine_task_counter)
                                  ELSE affine_task_counter
         /\ stack' = IF wakes
                       THEN [stack EXCEPT ![t] = mine, ![w][1].at = "awake"]
                       ELSE [stack EXCEPT ![t] = mine]
  /\ UNCHANGED <<task, free, is_sleeping, group, objects, history>>

-----------------------------------------------------------------------------
(* embb_mtapi_scheduler_get_next_task: the queues are tried one by one.    *)

\* Queue k of worker w at priority p: its private one, its public one, then
\* the public ones of the workers after it.
QueueOf(w, k, p) ==
  IF k = 0 THEN <<w, "private", p>> ELSE <<(w + k - 1) % NumWorkers, "public", p>>

Probes == MaxPriorities * (NumWorkers + 1)

\* embb_mtapi_scheduler_get_next_task_vhpf takes the priorities one by one,
\* embb_mtapi_scheduler_get_next_task_lf the local queues before the others.
Probe(w, n) ==
  IF Mode = "VHPF"
    THEN QueueOf(w, n % (NumWorkers + 1), n \div (NumWorkers + 1))
    ELSE IF n < 2 * MaxPriorities
      THEN QueueOf(w, n \div MaxPriorities, n % MaxPriorities)
      ELSE LET m == n - 2 * MaxPriorities
           IN  QueueOf(w, 2 + (m % (NumWorkers - 1)), m \div (NumWorkers - 1))

Searches(t) == t \in Workers /\ (At(t, "loop") \/ At(t, "take"))

\* What a worker does with a task it finds: its loop looks at the task's
\* state first, embb_mtapi_scheduler_execute_task_or_yield just executes it.
Found(t, s) ==
  IF At(t, "loop")
    THEN <<[at |-> "dispatch", task |-> s], [at |-> "loop", n |-> 0]>>
    ELSE <<[at |-> "exec", task |-> s]>>

\* Mutant: the pointer stays in the queue.
ProbePeeks(t) ==
  /\ Searches(t)
  /\ LET q == Probe(t, Top(t).n) IN
       /\ wqueue[q] # <<>>
       /\ stack' = [stack EXCEPT ![t] = Found(t, Head(wqueue[q])) \o Tail(@)]
  /\ UNCHANGED <<memory, history>>

ProbeFinds(t) ==
  /\ Searches(t)
  /\ LET q == Probe(t, Top(t).n) IN
       /\ wqueue[q] # <<>>
       /\ wqueue' = [wqueue EXCEPT ![q] = Tail(@)]
       /\ stack' = [stack EXCEPT ![t] = Found(t, Head(wqueue[q])) \o Tail(@)]
  /\ UNCHANGED <<task, free, affine_task_counter, is_sleeping, action, group, objects, history>>

\* Nothing there, or the pop gave up on the lock.  After the last queue the
\* search is over: the loop spins, a nested search goes back to the wait.
ProbeFails(t) ==
  /\ Searches(t)
  /\ wqueue[Probe(t, Top(t).n)] = <<>> \/ Contention
  /\ \/ /\ Top(t).n + 1 < Probes
        /\ stack' = ReplaceTop(t, [Top(t) EXCEPT !.n = @ + 1])
     \/ /\ Top(t).n + 1 = Probes /\ At(t, "loop")
        /\ stack' = ReplaceTop(t, [at |-> "loop", n |-> 0])
     \/ /\ Top(t).n + 1 = Probes /\ At(t, "take")
        /\ stack' = PopFrame(t)
  /\ UNCHANGED <<memory, history>>

-----------------------------------------------------------------------------
(* The sleep of embb_mtapi_scheduler_worker.  The loop goes to sleep after *)
(* a number of searches in vain; the wait ends with a notification or      *)
(* after ten milliseconds.                                                 *)

\* A search in vain that is the last one before the sleep.
FallAsleep(w) ==
  /\ At(w, "loop")
  /\ Top(w).n + 1 = Probes
  /\ wqueue[Probe(w, Top(w).n)] = <<>> \/ Contention
  /\ is_sleeping' = [is_sleeping EXCEPT ![w] = TRUE]
  /\ stack' = ReplaceTop(w, [at |-> "asleep"])
  /\ UNCHANGED <<task, free, wqueue, affine_task_counter, action, group, objects, history>>

StartWaiting(w) ==
  /\ At(w, "asleep")
  /\ stack' = ReplaceTop(w, [at |-> "waiting"])
  /\ UNCHANGED <<memory, history>>

\* Mutant: a wait without a time limit.
WaitTimesOutNever(w) == FALSE

WaitTimesOut(w) ==
  /\ At(w, "waiting")
  /\ stack' = ReplaceTop(w, [at |-> "awake"])
  /\ UNCHANGED <<memory, history>>

WakeUp(w) ==
  /\ At(w, "awake")
  /\ is_sleeping' = [is_sleeping EXCEPT ![w] = FALSE]
  /\ stack' = ReplaceTop(w, [at |-> "loop", n |-> 0])
  /\ UNCHANGED <<task, free, wqueue, affine_task_counter, action, group, objects, history>>
-----------------------------------------------------------------------------
(* What embb_mtapi_scheduler_worker does with a task it got.               *)

\* A task to be run is executed; its queue, if it has one, is told after it.
DispatchRun(w) ==
  /\ At(w, "dispatch")
  /\ LET s     == Top(w).task
         after == [at |-> "executed", queue |-> task[s].queue, done |-> FALSE]
     IN  /\ task[s].state \in {"SCHEDULED", "RUNNING"}
         /\ stack' = [stack EXCEPT ![w] = <<[at |-> "exec", task |-> s]>>
              \o (IF ValidQueue(task[s].queue) THEN <<after>> ELSE <<>>) \o Tail(@)]
  /\ UNCHANGED <<memory, history>>

\* Mutant: every instance that is done counts as a task that is done.
TellQueueOfInstance(w) ==
  /\ At(w, "executed")
  /\ queue' = [queue EXCEPT ![Top(w).queue].num_tasks = @ - 1]
  /\ stack' = PopFrame(w)
  /\ UNCHANGED <<task, free, scheduling, action, group, job, history>>

\* embb_mtapi_queue_task_finished, if the execution was that of the last instance.
TellQueue(w) ==
  /\ At(w, "executed")
  /\ queue' = IF Top(w).done THEN [queue EXCEPT ![Top(w).queue].num_tasks = @ - 1]
                              ELSE queue
  /\ stack' = PopFrame(w)
  /\ UNCHANGED <<task, free, scheduling, action, group, job, history>>

\* A retained task is put back, at the end of a queue; it is counted again as
\* a task in flight for its action.
DispatchRetained(w) ==
  /\ At(w, "dispatch")
  /\ task[Top(w).task].state = "RETAINED"
  /\ stack' = ReplaceTop(w, ScheduleFrame(Top(w).task, NoHandle, 0, TRUE, TRUE))
  /\ UNCHANGED <<memory, history>>

PutBack(w) ==
  /\ At(w, "scheduled") /\ Top(w).again
  /\ stack' = PopFrame(w)
  /\ UNCHANGED <<memory, history>>

\* An instance of a cancelled task is dropped.  Its queue is told when none
\* was left before it, so not for the last one.
DispatchCancelled(w) ==
  /\ At(w, "dispatch")
  /\ LET s == Top(w).task IN
       /\ task[s].state = "CANCELLED"
       /\ task' = [task EXCEPT ![s].error = "ACTION_CANCELLED", ![s].todo = MinusOne(@)]
       /\ queue' = IF task[s].todo = 0 /\ ValidQueue(task[s].queue)
                     THEN [queue EXCEPT ![task[s].queue].num_tasks = @ - 1] ELSE queue
  /\ stack' = PopFrame(w)
  /\ UNCHANGED <<free, scheduling, action, group, job, history>>

\* Any other state is an error and the pointer is forgotten.
DispatchOther(w) ==
  /\ At(w, "dispatch")
  /\ task[Top(w).task].state \notin {"SCHEDULED", "RUNNING", "RETAINED", "CANCELLED"}
  /\ stack' = PopFrame(w)
  /\ UNCHANGED <<memory, history>>

-----------------------------------------------------------------------------
(* embb_mtapi_task_execute on the task context of one instance             *)

\* Mutant: all instances take the same number.
ExecRunUncounted(w) ==
  /\ At(w, "exec")
  /\ LET s == Top(w).task IN
       /\ task' = [task EXCEPT ![s].state = "RUNNING"]
       /\ stack' = ReplaceTop(w, [at |-> "execCall", task |-> s,
                                  instance |-> task[s].current])
  /\ UNCHANGED <<free, scheduling, action, group, objects, history>>

\* The context takes an instance number and the task is running.
ExecRun(w) ==
  /\ At(w, "exec")
  /\ LET s == Top(w).task IN
       /\ task' = [task EXCEPT ![s].current = @ + 1, ![s].state = "RUNNING"]
       /\ stack' = ReplaceTop(w, [at |-> "execCall", task |-> s,
                                  instance |-> task[s].current])
  /\ UNCHANGED <<free, scheduling, action, group, objects, history>>

\* The action function is called, unless an instance has failed before.
ExecCall(w) ==
  /\ At(w, "execCall")
  /\ LET s     == Top(w).task
         a     == task[s].action
         todo  == [at |-> "execTodo", task |-> s, action |-> a]
         call  == [task |-> Handle(s), job |-> task[s].job, action |-> a,
                   queue |-> task[s].queue,
                   instance |-> Top(w).instance, on |-> w]
         body  == [at |-> "user", prog |-> a, i |-> 1, started |-> <<>>,
                   self |-> s, call |-> call]
     IN  /\ ValidAction(a)
         /\ stack' = [stack EXCEPT ![w] =
              (IF task[s].error = "SUCCESS" THEN <<body, todo>> ELSE <<todo>>) \o Tail(@)]
  /\ UNCHANGED <<memory, history>>

\* The action is gone: the task did not complete.
ExecNoAction(w) ==
  /\ At(w, "execCall")
  /\ LET s == Top(w).task IN
       /\ ~ValidAction(task[s].action)
       /\ task' = [task EXCEPT ![s].error = "ACTION_DELETED", ![s].state = "ERROR"]
       /\ stack' = ReplaceTop(w, [at |-> "execGroup", task |-> s,
                                  last |-> Attr[task[s].job].instances = 1])
  /\ UNCHANGED <<free, scheduling, action, group, objects, history>>

\* The action function returns.
BodyReturns(w) ==
  /\ At(w, "user") /\ w \in Workers /\ ~InProgram(w)
  /\ stack' = PopFrame(w)
  /\ ran' = ran (+) SetToBag({Top(w).call})
  /\ UNCHANGED <<memory, status>>

\* One instance less to do.
ExecTodo(w) ==
  /\ At(w, "execTodo")
  /\ LET s == Top(w).task IN
       /\ task' = [task EXCEPT ![s].todo = MinusOne(@)]
       /\ stack' = ReplaceTop(w, [at |-> "execDone", task |-> s,
                       action |-> Top(w).action, last |-> task[s].todo = 1])
  /\ UNCHANGED <<free, scheduling, action, group, objects, history>>

\* Mutant: the first instance completes the task.
ExecDoneFirst(w) ==
  /\ At(w, "execDone")
  /\ task' = [task EXCEPT ![Top(w).task].state = "COMPLETED"]
  /\ stack' = ReplaceTop(w, [Top(w) EXCEPT !.at = "execCount"])
  /\ UNCHANGED <<free, scheduling, action, group, objects, history>>

\* The last instance completes the task.
ExecDone(w) ==
  /\ At(w, "execDone")
  /\ task' = IF Top(w).last THEN [task EXCEPT ![Top(w).task].state = "COMPLETED"]
                            ELSE task
  /\ stack' = ReplaceTop(w, [Top(w) EXCEPT !.at = "execCount"])
  /\ UNCHANGED <<free, scheduling, action, group, objects, history>>

\* Mutant: the task stays in flight.
ExecUncounted(w) ==
  /\ At(w, "execCount")
  /\ stack' = ReplaceTop(w, [at |-> "execGroup", task |-> Top(w).task,
                             last |-> Top(w).last])
  /\ UNCHANGED <<memory, history>>

\* One task less in flight for the action.
ExecCount(w) ==
  /\ At(w, "execCount")
  /\ action' = [action EXCEPT ![Top(w).action].num_tasks = Less(@)]
  /\ stack' = ReplaceTop(w, [at |-> "execGroup", task |-> Top(w).task,
                             last |-> Top(w).last])
  /\ UNCHANGED <<task, free, scheduling, group, objects, history>>

\* The execution is over; the worker loop gets to know if the task is done.
Executed(w, last) ==
  LET below == Tail(stack[w]) IN
    [stack EXCEPT ![w] = IF below[1].at = "executed"
                           THEN <<[below[1] EXCEPT !.done = last]>> \o Tail(below)
                           ELSE below]

\* The last instance reports the task to its group, if it has a valid one.
ExecGroup(w) ==
  /\ At(w, "execGroup")
  /\ LET g == task[Top(w).task].group IN
       stack' = IF Top(w).last /\ ValidGroup(g)
                  THEN ReplaceTop(w, [at |-> "report", task |-> Top(w).task, group |-> g])
                  ELSE Executed(w, Top(w).last)
  /\ UNCHANGED <<memory, history>>

\* The queue of the group takes the task if it has room for it.
Report(w) ==
  /\ At(w, "report")
  /\ LET g == Top(w).group IN
       group' = IF HasRoom(group[g].queue)
                  THEN [group EXCEPT ![g].queue = Append(@, Top(w).task)]
                  ELSE group
  /\ stack' = Executed(w, TRUE)
  /\ UNCHANGED <<task, free, scheduling, action, objects, history>>
=============================================================================
