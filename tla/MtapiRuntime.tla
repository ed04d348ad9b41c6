---------------------------- MODULE MtapiRuntime ----------------------------
(***************************************************************************)
(* The MTAPI runtime: workers and application threads, the scheduler, the  *)
(* task, group, queue and action operations together, and what must hold   *)
(* of them.                                                                *)
(***************************************************************************)
EXTENDS MtapiQueue

\* The steps of the scheduler that a worker takes.
WorkerStep(w) ==
  \/ ProbeFinds(w)   \/ ProbeFails(w)
  \/ FallAsleep(w)   \/ StartWaiting(w) \/ WaitTimesOut(w) \/ WakeUp(w)
  \/ DispatchRun(w)  \/ DispatchCancelled(w) \/ DispatchOther(w)
  \/ DispatchRetained(w) \/ PutBack(w) \/ TellQueue(w)
  \/ ExecRun(w)      \/ ExecCall(w)     \/ ExecNoAction(w) \/ BodyReturns(w)
  \/ ExecTodo(w)     \/ ExecDone(w)     \/ ExecCount(w)
  \/ ExecGroup(w)    \/ Report(w)

\* The API calls, made by application threads and by action functions.
CallStep(t) ==
  \/ Start(t)            \/ StartPoolEmpty(t)
  \/ Enqueue(t)          \/ EnqueueStarts(t)  \/ EnqueuePoolEmpty(t)
  \/ ScheduleCount(t)    \/ SchedulePush(t)   \/ ScheduleNext(t)
  \/ StartSucceeds(t)    \/ StartFails(t)
  \/ Wait(t)             \/ WaitHelps(t)      \/ WaitTimeout(t) \/ WaitReturns(t)
  \/ Cancel(t)           \/ SetStatus(t)
  \/ Create(t)           \/ Delete(t)
  \/ GroupInvalid(t, "waitAll") \/ GroupInvalid(t, "waitAny")
  \/ WaitAll(t)          \/ WaitAllReturns(t) \/ WaitAllTimeout(t)
  \/ WaitAllLooks(t)     \/ WaitAllCollects(t) \/ WaitAllCounts(t) \/ WaitAllHelps(t)
  \/ WaitAny(t)          \/ WaitAnyCompleted(t) \/ WaitAnyHelps(t)
  \/ WaitAnyTimeout(t)   \/ WaitAnyCollects(t) \/ WaitAnyReturns(t)
  \/ QueueStep(t)

Next == (\E w \in Workers : WorkerStep(w)) \/ (\E t \in Threads : CallStep(t))

Spec == Init /\ [][Next]_vars

\* Every thread that can take a step takes one: the operating system runs all
\* threads, and the wait of a sleeping worker ends after ten milliseconds.
Fairness == /\ \A w \in Workers : WF_vars(WorkerStep(w) \/ CallStep(w))
            /\ \A t \in Apps : WF_vars(CallStep(t))

FairSpec == Spec /\ Fairness

-----------------------------------------------------------------------------
(* Type correctness                                                        *)

States == {"ERROR", "SCHEDULED", "RUNNING", "COMPLETED", "CANCELLED",
           "RETAINED", "PRENATAL"}

\* The types of the shared state: slot numbers in every queue, queues within
\* their limit, one frame at least.  The counts of actions and groups are ints.
TypeOK ==
  /\ \A s \in Slots : /\ task[s].id \in 0..MaxTasks /\ task[s].tag \in Nat
                      /\ task[s].state \in States
                      /\ task[s].todo \in 0..(UIntMod - 1)
                      /\ task[s].current \in Nat
                      /\ task[s].action \in Actions \cup {NoAction}
                      /\ task[s].group \in Groups \cup {NoGroup}
                      /\ task[s].queue \in Queues \cup {NoQueue}
                      /\ task[s].job \in Jobs
  /\ free \in Seq(0..MaxTasks) /\ Len(free) <= MaxTasks
  /\ \A q \in DOMAIN wqueue : wqueue[q] \in Seq(Slots) /\ Len(wqueue[q]) <= QueueLimit
  /\ is_sleeping \in [Workers -> BOOLEAN]
  /\ affine_task_counter \in Nat
  /\ action \in [Actions -> [valid : BOOLEAN, enabled : BOOLEAN, num_tasks : Int]]
  /\ queue \in [Queues -> [valid : BOOLEAN, enabled : BOOLEAN, num_tasks : Int]]
  /\ \A j \in Jobs : job[j].num_actions \in 0..MaxActions
  /\ \A g \in Groups : /\ group[g].valid \in BOOLEAN /\ group[g].num_tasks \in Int
                       /\ group[g].queue \in Seq(Slots)
                       /\ Len(group[g].queue) <= QueueLimit
  /\ \A t \in Threads : stack[t] # <<>>

-----------------------------------------------------------------------------
(* Pointers to tasks: the queues of the workers and the call stacks        *)

QueuePlaces == UNION {{q} \X DOMAIN wqueue[q] : q \in DOMAIN wqueue}
Frames      == UNION {{t} \X DOMAIN stack[t] : t \in Threads}
Frame(p)    == stack[p[1]][p[2]]

\* Places in the queues that satisfy a condition on their task; frames at
\* given points that satisfy one on the frame.
CountQueued(Cond(_)) == Cardinality({p \in QueuePlaces : Cond(wqueue[p[1]][p[2]])})
CountFrames(points, Cond(_)) ==
  Cardinality({p \in Frames : Frame(p).at \in points /\ Cond(Frame(p))})

\* The instances of a task that are still to be pushed by its start.
ToSchedule(s) ==
  LET fs == {Frame(p) : p \in {p \in Frames : Frame(p).at \in
                         {"schedule", "schedulePush", "scheduled"}}}
      of == {f \in fs : ~f.again /\ f.task = s /\ f.of.tag = task[s].tag /\ task[s].id # 0}
  IN  IF of = {} THEN 0
      ELSE LET f == CHOOSE f \in of : TRUE IN
             Attr[task[s].job].instances - f.instance - (IF f.at = "scheduled" THEN 1 ELSE 0)

Started(s) == task[s].id # 0 /\ task[s].state # "PRENATAL"

\* The instances a task has left to do are the pointers to it: those queued,
\* those a worker has taken but not finished or puts back, those its start has
\* yet to push.  A slot that is free has no pointers left anywhere, so the next task
\* in the slot is not run in place of the old one.
InstancesAccounted ==
  \A s \in Slots :
    CountQueued(LAMBDA x : x = s)
      + CountFrames({"dispatch", "exec", "execCall", "execTodo"}, LAMBDA f : f.task = s)
      + CountFrames({"schedule", "schedulePush"}, LAMBDA f : f.again /\ f.task = s)
      + (IF Started(s) THEN ToSchedule(s) ELSE 0)
    = IF Started(s) THEN task[s].todo ELSE 0

\* action->num_tasks is the number of its instances in flight, from before
\* the push until after the execution.  Load balancing chooses by it and the
\* deletion of an action waits for it to become zero.
ActionCount ==
  \A a \in Actions :
    action[a].num_tasks = CountQueued(LAMBDA x : task[x].action = a)
      + CountFrames({"schedulePush", "dispatch", "exec", "execCall"},
                    LAMBDA f : task[f.task].action = a)
      + CountFrames({"execTodo", "execDone", "execCount"}, LAMBDA f : f.action = a)

\* The pool and the tasks agree on which slots are free, and no slot is free
\* twice: no task is deleted twice, none is handed out while it is in use.
PoolSound ==
  /\ {free[k] : k \in DOMAIN free} = {s \in Slots : task[s].id = 0}
  /\ \A j, k \in DOMAIN free : free[j] = free[k] => j = k

-----------------------------------------------------------------------------
(* What was run                                                            *)

CallsOf(h) == {c \in DOMAIN ran : c.task = h}
AllRan(h)  == \E c \in CallsOf(h) :
                {d.instance : d \in CallsOf(h)} = 0..(Attr[c.job].instances - 1)

\* No instance of a task is run twice and none beyond the number asked for,
\* although the queues hold bare pointers, several workers take them and a
\* slot is used for one task after the other.
RunsOnce ==
  \A c \in DOMAIN ran :
    /\ ran[c] = 1
    /\ c.instance < Attr[c.job].instances
    /\ \A d \in CallsOf(c.task) : d.instance = c.instance => d = c

\* A wait that reports success comes after all instances of the task have
\* returned: the waiter may use the results.
JoinIsComplete ==
  \A t \in Threads :
    status[t].op = "wait" /\ status[t].code = "SUCCESS" => AllRan(status[t].of)

\* A restricted task runs on a worker of its affinity only, whoever steals.
AffinityRespected ==
  \A c \in DOMAIN ran :
    LET both == Affinity[c.action] \cap Attr[c.job].affinity
    IN  both # {} => c.on \in both

\* A completed task stays completed until its slot is given back: no late
\* instance and no waiter changes it under the thread that reads the result.
CompletedIsFinal ==
  [][\A s \in Slots : task[s].state = "COMPLETED" =>
       task'[s] = task[s] \/ task'[s].tag # task[s].tag]_vars

-----------------------------------------------------------------------------
(* Groups                                                                  *)

\* The queue of a group holds tasks of the group that are completed, each
\* once: what a waiter takes out has run, and deleting it is safe.
CollectableAreDone ==
  \A g \in Groups : group[g].valid => LET q == group[g].queue IN
    /\ \A k \in DOMAIN q : /\ task[q[k]].state = "COMPLETED" /\ task[q[k]].group = g
                           /\ task[q[k]].error = "SUCCESS" => AllRan(Handle(q[k]))
    /\ \A j, k \in DOMAIN q : q[j] = q[k] => j = k

\* group->num_tasks counts the tasks that have been started in the group and
\* not been collected, so that a wait for all ends exactly when none is left.
GroupCount ==
  \A g \in Groups : group[g].valid =>
    group[g].num_tasks = Cardinality({s \in Slots : task[s].group = g})
      + CountFrames({"allCount", "anyCount"}, LAMBDA f : f.group = g)

\* A wait (mtapi_group_wait_all, mtapi_group_wait_any) deletes its group only
\* when no worker is between the check of the group's handle and the push to its
\* queue: the task that is about to be reported is still counted.  Only
\* mtapi_group_delete can free the queue in between, it waits for nobody.
Deletes(t, g) == Calls(t, "delete") /\ Statement(t).group = g /\ stack'[t] # stack[t]
ReportsToLiveGroup ==
  [][\A g \in Groups : group[g].valid /\ ~group'[g].valid =>
       \/ \E t \in Threads : Deletes(t, g)
       \/ \A w \in Workers : At(w, "report") => Top(w).group # g]_vars

-----------------------------------------------------------------------------
(* Queues and actions                                                      *)

\* The tasks of a queue that have an instance waiting, running or put back.
Unfinished(q) ==
  {s \in Slots : Started(s) /\ task[s].queue = q /\ task[s].todo > 0
                /\ task[s].state # "CANCELLED"}

\* A queue never counts fewer tasks than it has unfinished ones: a deletion or
\* a disabling that reports success has left no task of the queue to be run.
QueueCountCovers ==
  \A q \in Queues : ValidQueue(q) =>
    Cardinality(Unfinished(q)) <= queue[q].num_tasks

\* No worker is inside the function of an action that has been deleted without
\* a timeout: the user may free what the function uses.
RunsValidActions ==
  \A p \in Frames : p[1] \in Workers /\ Frame(p).at = "user" =>
    ValidAction(Frame(p).call.action)

Returned(h) == \E c \in DOMAIN ran : c.task = h
Begun(h)    == Returned(h) \/ \E p \in Frames : /\ p[1] \in Workers
                                               /\ Frame(p).at = "user"
                                               /\ Frame(p).call.task = h

\* The tasks of an ordered queue run one after the other in the order of their
\* enqueuing: none begins while an earlier one has not returned.
OrderedInOrder ==
  \A p \in Frames : Frame(p).at = "user" =>
    LET hs == Frame(p).started IN
      \A i, j \in DOMAIN hs :
        LET q == task[hs[i].id].queue IN
          /\ i < j /\ ValidTask(hs[i]) /\ q \in Queues /\ QueueAttr[q].ordered
          /\ ValidTask(hs[j]) /\ task[hs[j].id].queue = q /\ Begun(hs[j])
          => Returned(hs[i]) \/ task[hs[i].id].state = "CANCELLED"

\* The list of a job names the valid actions that were created for it, each
\* once: a start never chooses an action that is gone and can choose any other.
JobListsActions ==
  \A j \in Jobs :
    LET l == job[j]
        listed == {l.actions[k] : k \in 1..l.num_actions}
    IN  /\ \A a \in listed : ValidAction(a)
        /\ \A a \in Actions : ValidAction(a) /\ ActionJob[a] = j => a \in listed
        /\ Cardinality(listed) = l.num_actions

-----------------------------------------------------------------------------
(* Liveness                                                                *)

Finished(t) == At(t, "user") /\ ~InProgram(t)

\* Every application thread gets to the end of its program: each wait for a
\* task or a group returns, with nested waits on the workers, workers that
\* sleep, and notifications that are lost.
AppsFinish == <>(\A t \in Apps : Finished(t))

=============================================================================
