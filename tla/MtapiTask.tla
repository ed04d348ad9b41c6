----------------------------- MODULE MtapiTask ------------------------------
(***************************************************************************)
(* The task operations of the API: mtapi_task_start, mtapi_task_enqueue,   *)
(* mtapi_task_wait, mtapi_task_cancel (embb_mtapi_task_t.c), and           *)
(* mtapi_context_status_set,                                               *)
(* with which an action function sets the error code of its task.          *)
(***************************************************************************)
EXTENDS MtapiScheduler

-----------------------------------------------------------------------------
(* embb_mtapi_task_start                                                   *)

\* Load balancing: the first action of the job with the fewest tasks, of those
\* that are valid and the first of the list, valid or not.  A job without actions
\* still has what its first entry held.
ChooseAction(j) ==
  LET n     == job[j].num_actions
      as    == job[j].actions
      seen  == {k \in 1..n : k = 1 \/ ValidAction(as[k])}
      count == [k \in seen |-> action[as[k]].num_tasks]
      least == Min({count[k] : k \in seen})
  IN  IF n = 0 THEN as[1] ELSE as[Min({k \in seen : count[k] = least})]

\* Fill in a fresh slot; nobody else has a pointer to it, so one step.
\* A group, a queue or an action that is not valid is none.
NewTask(r, s, j, g, q, p) ==
  [TaskInitialize(r) EXCEPT
     !.id = s, !.job = j, !.todo = Attr[j].instances, !.priority = p,
     !.group = IF ValidGroup(g) THEN g ELSE NoGroup,
     !.queue = IF ValidQueue(q) THEN q ELSE NoQueue,
     !.action = IF ValidAction(ChooseAction(j)) THEN ChooseAction(j) ELSE NoAction,
     !.state = IF ValidAction(ChooseAction(j)) THEN "SCHEDULED" ELSE "PRENATAL"]

\* What follows: its instances are scheduled, if it has an action and any
\* instances at all.
LaunchFrame(j) ==
  LET s    == Head(free)
      fine == ValidAction(ChooseAction(j))
      f    == ScheduleFrame(s, [id |-> s, tag |-> task[s].tag], 0, fine, FALSE)
  IN  IF fine /\ Attr[j].instances > 0 THEN f
      ELSE [f EXCEPT !.at = "scheduled", !.instance = Attr[j].instances]

\* The task is filled in and counted.
Launch(j, g, q, p) ==
  /\ free # <<>>
  /\ free' = Tail(free)
  /\ task' = [task EXCEPT ![Head(free)] = NewTask(@, Head(free), j, g, q, p)]
  /\ group' = IF ValidGroup(g) THEN [group EXCEPT ![g].num_tasks = @ + 1] ELSE group
  /\ queue' = IF ValidQueue(q) THEN [queue EXCEPT ![q].num_tasks = @ + 1] ELSE queue
  /\ UNCHANGED <<scheduling, action, job, history>>

Start(t) ==
  /\ Calls(t, "start")
  /\ LET st == Statement(t) IN
       /\ Launch(st.job, st.group, NoQueue, Attr[st.job].priority)
       /\ stack' = Call(t, LaunchFrame(st.job))

StartPoolEmpty(t) ==
  /\ Calls(t, "start")
  /\ free = <<>>
  /\ stack' = CallDone(t)
  /\ status' = [status EXCEPT ![t] = [op |-> "start", of |-> NoHandle,
                                      code |-> "TASK_LIMIT"]]
  /\ UNCHANGED <<memory, ran>>

\* mtapi_task_enqueue: a start with the job and the priority of the queue, on a
\* queue that is enabled or keeps its tasks while it is not.
Enqueue(t) ==
  /\ Calls(t, "enqueue")
  /\ LET q == Statement(t).queue
         open == ValidQueue(q) /\ (queue[q].enabled \/ QueueAttr[q].retain)
     IN  /\ stack' = IF open THEN Call(t, [at |-> "enqueue", queue |-> q]) ELSE CallDone(t)
         /\ status' = IF open THEN status
              ELSE [status EXCEPT ![t] = [op |-> "start", of |-> NoHandle,
                code |-> IF ValidQueue(q) THEN "QUEUE_DISABLED" ELSE "QUEUE_INVALID"]]
  /\ UNCHANGED <<memory, ran>>

EnqueueStarts(t) ==
  /\ At(t, "enqueue")
  /\ LET q == Top(t).queue IN
       /\ Launch(QueueAttr[q].job, NoGroup, q, QueueAttr[q].priority)
       /\ stack' = ReplaceTop(t, LaunchFrame(QueueAttr[q].job))

EnqueuePoolEmpty(t) ==
  /\ At(t, "enqueue")
  /\ free = <<>>
  /\ Returns(t, "start", NoHandle, "TASK_LIMIT")
  /\ UNCHANGED <<memory, ran>>

\* The instances are scheduled one after the other.  Their number is read
\* again each time, from a slot that may be the one of another task by then.
ScheduleNext(t) ==
  /\ At(t, "scheduled") /\ ~Top(t).again
  /\ Top(t).instance + 1 < Attr[task[Top(t).task].job].instances
  /\ stack' = ReplaceTop(t, [Top(t) EXCEPT !.at = "schedule", !.instance = @ + 1])
  /\ UNCHANGED <<memory, history>>

Scheduled(t) ==
  /\ At(t, "scheduled") /\ ~Top(t).again
  /\ Top(t).instance + 1 >= Attr[task[Top(t).task].job].instances

\* The user code below gets the handle; no handle if the task is detached.
StartSucceeds(t) ==
  /\ Scheduled(t) /\ Top(t).ok
  /\ LET s == Top(t).task
         h == IF Attr[task[s].job].detached THEN NoHandle ELSE Top(t).of
         caller == [stack[t][2] EXCEPT !.started = Append(@, h)]
     IN  /\ stack' = [stack EXCEPT ![t] = <<caller>> \o Tail(Tail(@))]
         /\ status' = [status EXCEPT ![t] = [op |-> "start", of |-> h,
                                             code |-> "SUCCESS"]]
  /\ UNCHANGED <<memory, ran>>

\* An instance could not be pushed: the task is deleted.
StartFails(t) ==
  /\ Scheduled(t) /\ ~Top(t).ok
  /\ LET s == Top(t).task IN
       /\ task' = [task EXCEPT ![s] = DeletedTask(@)]
       /\ free' = FreeAfterDelete(s)
  /\ Returns(t, "start", NoHandle,
             IF task[Top(t).task].action = NoAction THEN "ACTION_INVALID" ELSE "TASK_LIMIT")
  /\ UNCHANGED <<scheduling, action, group, objects, ran>>

-----------------------------------------------------------------------------
(* mtapi_task_wait                                                         *)

\* The handle of the k-th task the user code has started, if there is one.
StartedHandle(t, k) ==
  IF k <= Len(Top(t).started) THEN Top(t).started[k] ELSE NoHandle

Wait(t) ==
  /\ Calls(t, "wait")
  /\ LET h == StartedHandle(t, Statement(t).nth) IN
       \/ /\ ValidTask(h)
          /\ stack' = Call(t, [at |-> "wait", task |-> h.id, of |-> h,
                               timed |-> Statement(t).timed])
          /\ UNCHANGED status
       \/ /\ ~ValidTask(h)
          /\ stack' = CallDone(t)
          /\ status' = [status EXCEPT ![t] = [op |-> "wait", of |-> h,
                                              code |-> "TASK_INVALID"]]
  /\ UNCHANGED <<memory, ran>>

\* Mutant: a running task counts as done.
PendingUntilRunning(s) == task[s].state \in {"SCHEDULED", "RETAINED"}

Pending(s) == task[s].state \in {"SCHEDULED", "RUNNING", "RETAINED"}

\* embb_mtapi_scheduler_execute_task_or_yield: while it waits, a worker looks
\* for other work; an application thread only yields.
HelpsOut(t) ==
  /\ t \in Workers
  /\ stack' = PushFrame(t, [at |-> "take", n |-> 0])
  /\ UNCHANGED <<memory, history>>

WaitHelps(t) ==
  /\ At(t, "wait") /\ Pending(Top(t).task)
  /\ HelpsOut(t)

WaitTimeout(t) ==
  /\ At(t, "wait") /\ Pending(Top(t).task)
  /\ Top(t).timed
  /\ Returns(t, "wait", Top(t).of, "TIMEOUT")
  /\ UNCHANGED <<memory, ran>>

\* The error code of the task is the result; a task in a group is left to it.
WaitReturns(t) ==
  /\ At(t, "wait") /\ ~Pending(Top(t).task)
  /\ LET s == Top(t).task IN
       /\ Returns(t, "wait", Top(t).of, task[s].error)
       /\ \/ /\ ~ValidGroup(task[s].group)
             /\ task' = [task EXCEPT ![s] = DeletedTask(@)]
             /\ free' = FreeAfterDelete(s)
          \/ /\ ValidGroup(task[s].group)
             /\ UNCHANGED <<task, free>>
  /\ UNCHANGED <<scheduling, action, group, objects, ran>>

-----------------------------------------------------------------------------
(* mtapi_task_cancel and mtapi_context_status_set                          *)

\* Only a plugin action or a deleted one makes cancel report a success.
Cancel(t) ==
  /\ Calls(t, "cancel")
  /\ LET h == StartedHandle(t, Statement(t).nth)
         code == CASE ~ValidTask(h) -> "TASK_INVALID"
                   [] ValidTask(h) /\ ~ValidAction(task[h.id].action) -> "SUCCESS"
                   [] OTHER -> "UNKNOWN"
     IN  /\ task' = IF ValidTask(h) THEN [task EXCEPT ![h.id].state = "CANCELLED"]
                                    ELSE task
         /\ status' = [status EXCEPT ![t] = [op |-> "cancel", of |-> h, code |-> code]]
  /\ stack' = CallDone(t)
  /\ UNCHANGED <<free, scheduling, action, group, objects, ran>>

SetStatus(t) ==
  /\ Calls(t, "setStatus")
  /\ task' = [task EXCEPT ![Top(t).self].error = Statement(t).code]
  /\ stack' = CallDone(t)
  /\ UNCHANGED <<free, scheduling, action, group, objects, history>>
=============================================================================
