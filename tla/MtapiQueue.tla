----------------------------- MODULE MtapiQueue -----------------------------
(***************************************************************************)
(* Queues, actions and the lists of jobs (embb_mtapi_queue_t.c,            *)
(* embb_mtapi_action_t.c, embb_mtapi_job_t.c).  To delete or disable one   *)
(* of them is to visit the tasks that wait for a worker, to cancel or      *)
(* retain those that belong to it, and to wait until the tasks that were   *)
(* counted for it are done.                                                *)
(***************************************************************************)
EXTENDS MtapiGroup

QueueOps  == {"deleteQueue", "disableQueue", "enableQueue"}
ActionOps == {"deleteAction", "disableAction", "enableAction"}

\* The end of such a call: what has still to be done for it, and its result.
Drain(op, of, timed) == [at |-> "drain", op |-> op, of |-> of, timed |-> timed]
Drained(op, of, code) == [at |-> "drained", op |-> op, of |-> of, code |-> code]

-----------------------------------------------------------------------------
(* embb_mtapi_scheduler_process_tasks                                      *)

\* The queues of the workers in the order of the visit.
Rings     == NumWorkers * MaxPriorities * 2
RingOf(k) == <<k \div (2 * MaxPriorities), IF k % 2 = 0 THEN "private" ELSE "public",
               (k % (2 * MaxPriorities)) \div 2>>

\* A call that visits the tasks first.
Process(op, of, next) == [at |-> "process", op |-> op, of |-> of, k |-> 0, next |-> next]

Belongs(op, of, s) == IF op \in QueueOps THEN task[s].queue = of ELSE task[s].action = of

\* The visitors: what a task that belongs to the queue or action becomes.
Visited(op, of, r) ==
  LET cancelled(e) == [r EXCEPT !.state = "CANCELLED", !.error = e] IN
  CASE op = "deleteQueue"   -> cancelled("QUEUE_DELETED")
    [] op = "disableQueue"  -> IF QueueAttr[of].retain THEN [r EXCEPT !.state = "RETAINED"]
                               ELSE cancelled("QUEUE_DISABLED")
    [] op = "enableQueue"   -> [r EXCEPT !.state = "SCHEDULED"]
    [] op = "deleteAction"  -> cancelled("ACTION_DELETED")
    [] op = "disableAction" -> cancelled("ACTION_DISABLED")

\* embb_mtapi_task_queue_process under the lock of one queue.  It looks at the
\* first places of the ring, although the oldest task need not be in the first
\* place: get, the position of the oldest one, is not part of this model and
\* chosen here.  A visit of an empty place, a null pointer, is left out.  A
\* task that does not belong ends the visit of this and of all other queues.
VisitRing(t) ==
  /\ At(t, "process")
  /\ \E get \in 0..(QueueLimit - 1) :
       LET op == Top(t).op
           of == Top(t).of
           q  == wqueue[RingOf(Top(t).k)]
           place(i)   == ((i - get) % QueueLimit) + 1
           belongs(i) == place(i) \in DOMAIN q /\ Belongs(op, of, q[place(i)])
           ends == {i \in 0..(Len(q) - 1) : ~belongs(i)}
           n    == IF ends = {} THEN Len(q) ELSE Min(ends)
           seen == {q[place(i)] : i \in 0..(n - 1)}
       IN  /\ n < Len(q) => place(n) \in DOMAIN q
           /\ task' = [s \in Slots |-> IF s \in seen THEN Visited(op, of, task[s]) ELSE task[s]]
           /\ stack' = ReplaceTop(t, IF n < Len(q) \/ Top(t).k + 1 = Rings THEN Top(t).next
                                     ELSE [Top(t) EXCEPT !.k = @ + 1])
  /\ UNCHANGED <<free, scheduling, action, group, objects, history>>

-----------------------------------------------------------------------------
(* The wait for the tasks of a queue or an action                          *)

InFlight(f) == IF f.op \in QueueOps THEN queue[f.of].num_tasks ELSE action[f.of].num_tasks

DrainHelps(t) ==
  /\ At(t, "drain") /\ InFlight(Top(t)) # 0
  /\ HelpsOut(t)

DrainTimeout(t) ==
  /\ At(t, "drain") /\ InFlight(Top(t)) # 0 /\ Top(t).timed
  /\ stack' = ReplaceTop(t, Drained(Top(t).op, Top(t).of, "TIMEOUT"))
  /\ UNCHANGED <<memory, history>>

\* Mutant: a task may be left.
DrainEndsEarly(t) ==
  /\ At(t, "drain") /\ InFlight(Top(t)) <= 1
  /\ stack' = ReplaceTop(t, Drained(Top(t).op, Top(t).of, "SUCCESS"))
  /\ UNCHANGED <<memory, history>>

DrainEnds(t) ==
  /\ At(t, "drain") /\ InFlight(Top(t)) = 0
  /\ stack' = ReplaceTop(t, Drained(Top(t).op, Top(t).of, "SUCCESS"))
  /\ UNCHANGED <<memory, history>>

\* Mutant: the last entry is dropped whichever is removed.
RemoveLastAction(l, a) == [l EXCEPT !.num_actions = MinusOne(@)]

\* embb_mtapi_job_remove_action: the last entry takes the place of the one that
\* is removed, which is expected to be there.
RemoveAction(l, a) ==
  LET n == l.num_actions IN
    [num_actions |-> MinusOne(n),
     actions |-> [k \in 1..MaxActions |->
                    IF k < n /\ l.actions[k] = a THEN l.actions[n] ELSE l.actions[k]]]

\* What follows the wait, also when it has timed out: the deleted queue or
\* action is given back, an action is taken off the list of its job.
DrainedReturns(t) ==
  /\ At(t, "drained")
  /\ LET f == Top(t) IN
       /\ queue' = IF f.op = "deleteQueue"
                     THEN [queue EXCEPT ![f.of] = [valid |-> FALSE, enabled |-> FALSE,
                                                   num_tasks |-> 0]]
                     ELSE queue
       /\ action' = IF f.op = "deleteAction"
                      THEN [action EXCEPT ![f.of] = [valid |-> FALSE, enabled |-> FALSE,
                                                     num_tasks |-> 0]]
                      ELSE action
       /\ job' = IF f.op = "deleteAction"
                   THEN [job EXCEPT ![ActionJob[f.of]] = RemoveAction(@, f.of)] ELSE job
       /\ Returns(t, f.op, f.of, f.code)
  /\ UNCHANGED <<task, free, scheduling, group, ran>>

-----------------------------------------------------------------------------
(* The calls                                                               *)

Invalid(t, code) ==
  /\ stack' = CallDone(t)
  /\ status' = [status EXCEPT ![t] = [op |-> Statement(t).op, of |-> Statement(t).of,
                                      code |-> code]]
  /\ UNCHANGED <<memory, ran>>

QueueInvalid(t) ==
  /\ \E op \in QueueOps : Calls(t, op)
  /\ ~ValidQueue(Statement(t).of)
  /\ Invalid(t, "QUEUE_INVALID")

ActionInvalid(t) ==
  /\ \E op \in ActionOps : Calls(t, op)
  /\ ~ValidAction(Statement(t).of)
  /\ Invalid(t, "ACTION_INVALID")

\* mtapi_queue_create: enabled and empty.
CreateQueue(t) ==
  /\ Calls(t, "createQueue")
  /\ queue' = [queue EXCEPT ![Statement(t).of] = [valid |-> TRUE, enabled |-> TRUE,
                                                  num_tasks |-> 0]]
  /\ stack' = CallDone(t)
  /\ UNCHANGED <<task, free, scheduling, action, group, job, history>>

\* mtapi_queue_delete
DeleteQueue(t) ==
  /\ Calls(t, "deleteQueue") /\ ValidQueue(Statement(t).of)
  /\ LET q == Statement(t).of IN
       stack' = Call(t, Process("deleteQueue", q, Drain("deleteQueue", q, Statement(t).timed)))
  /\ UNCHANGED <<memory, history>>

\* mtapi_queue_disable: a queue that keeps its tasks does not wait for them.
DisableQueue(t) ==
  /\ Calls(t, "disableQueue") /\ ValidQueue(Statement(t).of)
  /\ LET q == Statement(t).of IN
       /\ queue' = [queue EXCEPT ![q].enabled = FALSE]
       /\ stack' = Call(t, Process("disableQueue", q,
                     IF QueueAttr[q].retain THEN Drained("disableQueue", q, "SUCCESS")
                     ELSE Drain("disableQueue", q, Statement(t).timed)))
  /\ UNCHANGED <<task, free, scheduling, action, group, job, history>>

\* mtapi_queue_enable
EnableQueue(t) ==
  /\ Calls(t, "enableQueue") /\ ValidQueue(Statement(t).of)
  /\ LET q    == Statement(t).of
         done == Drained("enableQueue", q, "SUCCESS")
     IN  /\ queue' = [queue EXCEPT ![q].enabled = TRUE]
         /\ stack' = Call(t, IF QueueAttr[q].retain THEN Process("enableQueue", q, done)
                             ELSE done)
  /\ UNCHANGED <<task, free, scheduling, action, group, job, history>>

\* mtapi_action_create and embb_mtapi_job_add_action.  An action for which
\* there is no room on the list of its job is created nevertheless.
CreateAction(t) ==
  /\ Calls(t, "createAction")
  /\ LET a == Statement(t).of
         l == job[ActionJob[a]]
     IN  /\ action' = [action EXCEPT ![a] = [valid |-> TRUE, enabled |-> TRUE, num_tasks |-> 0]]
         /\ job' = IF l.num_actions < MaxActions
                     THEN [job EXCEPT ![ActionJob[a]] =
                             [num_actions |-> l.num_actions + 1,
                              actions |-> [l.actions EXCEPT ![l.num_actions + 1] = a]]]
                     ELSE job
  /\ stack' = CallDone(t)
  /\ UNCHANGED <<task, free, scheduling, group, queue, history>>

\* mtapi_action_delete
DeleteAction(t) ==
  /\ Calls(t, "deleteAction") /\ ValidAction(Statement(t).of)
  /\ LET a == Statement(t).of IN
       stack' = Call(t, Process("deleteAction", a, Drain("deleteAction", a, Statement(t).timed)))
  /\ UNCHANGED <<memory, history>>

\* mtapi_action_disable.  Nothing in the runtime reads the flag.
DisableAction(t) ==
  /\ Calls(t, "disableAction") /\ ValidAction(Statement(t).of)
  /\ LET a == Statement(t).of IN
       /\ action' = [action EXCEPT ![a].enabled = FALSE]
       /\ stack' = Call(t, Process("disableAction", a,
                                   Drain("disableAction", a, Statement(t).timed)))
  /\ UNCHANGED <<task, free, scheduling, group, objects, history>>

\* mtapi_action_enable
EnableAction(t) ==
  /\ Calls(t, "enableAction") /\ ValidAction(Statement(t).of)
  /\ action' = [action EXCEPT ![Statement(t).of].enabled = TRUE]
  /\ stack' = CallDone(t)
  /\ UNCHANGED <<task, free, scheduling, group, objects, history>>

QueueStep(t) ==
  \/ VisitRing(t)    \/ DrainHelps(t)     \/ DrainTimeout(t)  \/ DrainEnds(t)
  \/ DrainedReturns(t) \/ QueueInvalid(t) \/ ActionInvalid(t)
  \/ CreateQueue(t)  \/ DeleteQueue(t)    \/ DisableQueue(t)  \/ EnableQueue(t)
  \/ CreateAction(t) \/ DeleteAction(t)   \/ DisableAction(t) \/ EnableAction(t)
=============================================================================
