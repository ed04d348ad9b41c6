----------------------------- MODULE MtapiGroup -----------------------------
(***************************************************************************)
(* Task groups (embb_mtapi_group_t.c): a group counts its tasks, collects  *)
(* the completed ones in a queue of its own, and lets a thread wait for    *)
(* all of them or for one of them.  Who takes a task out of the queue      *)
(* deletes it.                                                             *)
(***************************************************************************)
EXTENDS MtapiTask

\* mtapi_group_create.  A group of the model is created once, so a group slot
\* that is used again is another group; the pool is never exhausted.
Create(t) ==
  /\ Calls(t, "create")
  /\ group' = [group EXCEPT ![Statement(t).group] =
                 [valid |-> TRUE, num_tasks |-> 0, queue |-> <<>>]]
  /\ stack' = CallDone(t)
  /\ UNCHANGED <<task, free, scheduling, action, objects, history>>

\* mtapi_group_delete: the count is reset, the queue is freed.
DeletedGroup == [valid |-> FALSE, num_tasks |-> 0, queue |-> <<>>]

Delete(t) ==
  /\ Calls(t, "delete")
  /\ LET g == Statement(t).group IN
       /\ group' = IF ValidGroup(g) THEN [group EXCEPT ![g] = DeletedGroup] ELSE group
       /\ status' = [status EXCEPT ![t] = [op |-> "delete", of |-> g,
                       code |-> IF ValidGroup(g) THEN "SUCCESS" ELSE "GROUP_INVALID"]]
  /\ stack' = CallDone(t)
  /\ UNCHANGED <<task, free, scheduling, action, objects, ran>>

\* Mutant: the task is deleted and stays in the queue.
CollectPeeks(t) ==
  LET s == Head(group[Top(t).group].queue) IN
    /\ task' = [task EXCEPT ![s] = DeletedTask(@)]
    /\ free' = FreeAfterDelete(s)
    /\ UNCHANGED group

\* Collect the oldest completed task: pop it and delete it.
Collect(t) ==
  LET s == Head(group[Top(t).group].queue) IN
    /\ group' = [group EXCEPT ![Top(t).group].queue = Tail(@)]
    /\ task' = [task EXCEPT ![s] = DeletedTask(@)]
    /\ free' = FreeAfterDelete(s)

\* The pop finds nothing, or gives up on the lock.
NothingToCollect(t) == group[Top(t).group].queue = <<>> \/ Contention

GroupInvalid(t, op) ==
  /\ Calls(t, op)
  /\ ~ValidGroup(Statement(t).group)
  /\ stack' = CallDone(t)
  /\ status' = [status EXCEPT ![t] = [op |-> op, of |-> Statement(t).group,
                                      code |-> "GROUP_INVALID"]]
  /\ UNCHANGED <<memory, ran>>

-----------------------------------------------------------------------------
(* mtapi_group_wait_all                                                    *)

WaitAll(t) ==
  /\ Calls(t, "waitAll")
  /\ ValidGroup(Statement(t).group)
  /\ stack' = Call(t, [at |-> "all", group |-> Statement(t).group,
                       code |-> "SUCCESS", timed |-> Statement(t).timed])
  /\ UNCHANGED <<memory, history>>

\* Mutant: one task may be left.
WaitAllReturnsEarly(t) ==
  /\ At(t, "all")
  /\ group[Top(t).group].num_tasks <= 1
  /\ group' = [group EXCEPT ![Top(t).group] = DeletedGroup]
  /\ Returns(t, "waitAll", Top(t).group, Top(t).code)
  /\ UNCHANGED <<task, free, scheduling, action, objects, ran>>

\* No task is left: the group is deleted.
WaitAllReturns(t) ==
  /\ At(t, "all")
  /\ group[Top(t).group].num_tasks = 0
  /\ group' = [group EXCEPT ![Top(t).group] = DeletedGroup]
  /\ Returns(t, "waitAll", Top(t).group, Top(t).code)
  /\ UNCHANGED <<task, free, scheduling, action, objects, ran>>

WaitAllTimeout(t) ==
  /\ At(t, "all")
  /\ group[Top(t).group].num_tasks # 0
  /\ Top(t).timed
  /\ Returns(t, "waitAll", Top(t).group, "TIMEOUT")
  /\ UNCHANGED <<memory, ran>>

WaitAllLooks(t) ==
  /\ At(t, "all")
  /\ group[Top(t).group].num_tasks # 0
  /\ stack' = ReplaceTop(t, [Top(t) EXCEPT !.at = "allPop"])
  /\ UNCHANGED <<memory, history>>

\* The last error code seen is the result.
WaitAllCollects(t) ==
  /\ At(t, "allPop")
  /\ group[Top(t).group].queue # <<>>
  /\ LET e == task[Head(group[Top(t).group].queue)].error IN
       stack' = ReplaceTop(t, [Top(t) EXCEPT !.at = "allCount",
                                             !.code = IF e = "SUCCESS" THEN @ ELSE e])
  /\ Collect(t)
  /\ UNCHANGED <<scheduling, action, objects, history>>

WaitAllCounts(t) ==
  /\ At(t, "allCount")
  /\ group' = [group EXCEPT ![Top(t).group].num_tasks = @ - 1]
  /\ stack' = ReplaceTop(t, [Top(t) EXCEPT !.at = "allPop"])
  /\ UNCHANGED <<task, free, scheduling, action, objects, history>>

\* Nothing more to collect: look for other work, then test the count again.
WaitAllHelps(t) ==
  /\ At(t, "allPop")
  /\ NothingToCollect(t)
  /\ LET again == [Top(t) EXCEPT !.at = "all"] IN
       stack' = [stack EXCEPT ![t] =
                   (IF t \in Workers THEN <<[at |-> "take", n |-> 0], again>>
                                     ELSE <<again>>) \o Tail(@)]
  /\ UNCHANGED <<memory, history>>

-----------------------------------------------------------------------------
(* mtapi_group_wait_any                                                    *)

\* A group without tasks is completed and deleted.
WaitAnyCompleted(t) ==
  /\ Calls(t, "waitAny")
  /\ ValidGroup(Statement(t).group)
  /\ group[Statement(t).group].num_tasks = 0
  /\ group' = [group EXCEPT ![Statement(t).group] = DeletedGroup]
  /\ stack' = CallDone(t)
  /\ status' = [status EXCEPT ![t] = [op |-> "waitAny", of |-> Statement(t).group,
                                      code |-> "GROUP_COMPLETED"]]
  /\ UNCHANGED <<task, free, scheduling, action, objects, ran>>

WaitAny(t) ==
  /\ Calls(t, "waitAny")
  /\ ValidGroup(Statement(t).group)
  /\ group[Statement(t).group].num_tasks # 0
  /\ stack' = Call(t, [at |-> "any", group |-> Statement(t).group,
                       timed |-> Statement(t).timed])
  /\ UNCHANGED <<memory, history>>

WaitAnyHelps(t) ==
  /\ At(t, "any") /\ NothingToCollect(t)
  /\ HelpsOut(t)

WaitAnyTimeout(t) ==
  /\ At(t, "any") /\ NothingToCollect(t)
  /\ Top(t).timed
  /\ Returns(t, "waitAny", Top(t).group, "TIMEOUT")
  /\ UNCHANGED <<memory, ran>>

WaitAnyCollects(t) ==
  /\ At(t, "any")
  /\ group[Top(t).group].queue # <<>>
  /\ stack' = ReplaceTop(t, [at |-> "anyCount", group |-> Top(t).group,
                code |-> task[Head(group[Top(t).group].queue)].error])
  /\ Collect(t)
  /\ UNCHANGED <<scheduling, action, objects, history>>

\* Mutant: the group still counts the task.
WaitAnyUncounted(t) ==
  /\ At(t, "anyCount")
  /\ Returns(t, "waitAny", Top(t).group, Top(t).code)
  /\ UNCHANGED <<memory, ran>>

WaitAnyReturns(t) ==
  /\ At(t, "anyCount")
  /\ group' = [group EXCEPT ![Top(t).group].num_tasks = @ - 1]
  /\ Returns(t, "waitAny", Top(t).group, Top(t).code)
  /\ UNCHANGED <<task, free, scheduling, action, objects, ran>>
=============================================================================
