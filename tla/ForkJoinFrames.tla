--------------------------- MODULE ForkJoinFrames ---------------------------
(***************************************************************************)
(* The MTAPI runtime under fork-join programs: the application threads and *)
(* the bodies of the actions start tasks of one instance and wait for the  *)
(* tasks they started themselves.  The class, and the inductive invariant  *)
(* of the runtime for it, which module ForkJoinProofs shows to hold.       *)
(***************************************************************************)
EXTENDS MtapiRuntime

CONSTANT Code   \* the programs that can be executed: scripts and actions

-----------------------------------------------------------------------------
(* Fork-join programs                                                      *)

\* A step of program p: it starts a task of a job with one instance, any of whose
\* actions may run, waits for a task that it started, or, in the body of an
\* action, sets the task's error.
Joins(p, st) ==
  \/ /\ st.op = "start" /\ st.job \in Jobs /\ Attr[st.job].instances = 1
     /\ \A k \in DOMAIN JobActions[st.job] : JobActions[st.job][k] \in Code
  \/ st.op = "wait" /\ st.nth \in Nat \ {0} /\ st.timed \in BOOLEAN
  \/ st.op = "setStatus" /\ p \in Actions

\* The application threads run programs of Code; Code has only such steps, so it
\* is closed under what they start.
ForkJoin ==
  /\ \A main \in Mains, a \in Apps : main[a] \in Code \ Actions
  /\ \A p \in Code : /\ Len(Program[p]) \in Nat
                     /\ \A i \in 1..Len(Program[p]) : Joins(p, Program[p][i])

-----------------------------------------------------------------------------
(* Frames, counted from the bottom of a stack                              *)

\* Frame d of a stack, the oldest one first: stacks grow at their head.
Fm(st, d) == st[Len(st) + 1 - d]

\* Handles, calls of an action, errors a body may set.
Handles == [id : 0..MaxTasks, tag : Nat]
Calling == [task : Handles, job : Jobs, action : Actions, queue : {NoQueue},
            instance : {0}, on : Workers]
Errors  == {"SUCCESS"} \cup
  {Program[x[1]][x[2]].code :
     x \in {x \in UNION {{p} \X (1..Len(Program[p])) : p \in Code} :
              Program[x[1]][x[2]].op = "setStatus"}}

\* The frames of the program's threads, by the operation they are in.
MainFrames  == [at : {"user"}, prog : Code \ Actions, i : Nat \ {0}, started : Seq(Handles)]
BodyFrames  == [at : {"user"}, prog : Code \cap Actions, i : Nat \ {0}, started : Seq(Handles),
                self : Slots, call : Calling]
StartFrames == [at : {"schedule", "schedulePush", "scheduled"}, task : Slots, of : Handles,
                instance : {0, 1}, ok : BOOLEAN, again : {FALSE},
                action : Actions \cup {NoAction}, to : SUBSET Workers]
WaitFrames  == [at : {"wait"}, task : Slots, of : Handles, timed : BOOLEAN]
SeekFrames  == [at : {"loop", "take"}, n : 0..(Probes - 1)]
SleepFrames == [at : {"asleep", "waiting", "awake"}]
GotFrames   == [at : {"dispatch", "exec"}, task : Slots]
CallFrames  == [at : {"execCall"}, task : Slots, instance : {0}]
TodoFrames  == [at : {"execTodo"}, task : Slots, action : Actions]
DoneFrames  == [at : {"execDone", "execCount"}, task : Slots, action : Actions, last : {TRUE}]
EndFrames   == [at : {"execGroup"}, task : Slots, last : {TRUE}]

\* All the frames of a fork-join program.
FrameSet == MainFrames \cup BodyFrames \cup StartFrames \cup WaitFrames \cup SeekFrames
              \cup SleepFrames \cup GotFrames \cup CallFrames \cup TodoFrames
              \cup DoneFrames \cup EndFrames

\* Where a frame is in mtapi_task_start, in embb_mtapi_task_execute and in the loop of a
\* worker.
StartPoints == {"schedule", "schedulePush", "scheduled"}
ExecPoints  == {"exec", "execCall", "execTodo", "execDone", "execCount", "execGroup"}
BasePoints  == {"loop", "asleep", "waiting", "awake"}

\* The handles a frame of user code or of a start has to itself.
Owns(f, h) == \/ f.at = "user" /\ \E k \in DOMAIN f.started : f.started[k] = h
              \/ f.at \in StartPoints /\ f.of = h

\* The slot a frame works on: nobody else writes to it.
Holds(f, s) == /\ f.at \in {"schedule", "schedulePush", "scheduled", "dispatch", "exec",
                            "execCall", "execTodo", "execDone"}
               /\ f.task = s
               /\ f.at = "scheduled" => ~f.ok

\* Which frame may be on top of which.
Sits(f, g) ==
  /\ f.at \in StartPoints => g.at = "user"
  /\ f.at = "wait" => g.at = "user" /\ Owns(g, f.of)
  /\ f.at = "take" => g.at = "wait"
  /\ f.at = "dispatch" => g.at = "loop"
  /\ f.at \in ExecPoints => g.at \in {"loop", "wait"}
  /\ f.at = "user" => f \in BodyFrames /\ g.at = "execTodo" /\ g.task = f.self
  /\ f.at \notin BasePoints

\* The oldest frame: the loop of a worker, the program of an application thread.
Base(t, f) == IF t \in Workers THEN f.at \in BasePoints ELSE f \in MainFrames

\* A stack of nested calls; an application thread never runs a task.
StackOK(t, st) ==
  /\ st \in Seq(FrameSet) /\ Len(st) > 0
  /\ Base(t, Fm(st, 1))
  /\ \A d \in 2..Len(st) : Sits(Fm(st, d), Fm(st, d - 1))
  /\ t \notin Workers => \A d \in 1..Len(st) : Fm(st, d).at \in StartPoints \cup {"user", "wait"}

-----------------------------------------------------------------------------
(* Slots, the pool, what has run                                           *)

\* What slot s may hold.
TaskRecords(s) ==
  [id : {0, s}, tag : Nat,
   state : {"ERROR", "SCHEDULED", "RUNNING", "COMPLETED", "PRENATAL"},
   todo : {0, 1}, current : Nat, error : Errors,
   action : (Actions \cap Code) \cup {NoAction},
   group : {NoGroup}, queue : {NoQueue}, priority : Prios, job : Jobs]

\* The fields of a slot agree with the state of its task.
SlotOK(ac, s, r) ==
  /\ r \in TaskRecords(s)
  /\ r.id = 0 => r.state = "ERROR"
  /\ r.id # 0 => r.state # "ERROR" /\ Attr[r.job].instances = 1
  /\ r.state \in {"SCHEDULED", "RUNNING", "COMPLETED"} => r.action # NoAction /\ ac[r.action].valid
  /\ r.state = "SCHEDULED" => r.current = 0 /\ r.error = "SUCCESS" /\ r.todo = 1

\* The free list holds each free slot once and nothing else.
Pool(T, F) ==
  /\ F \in Seq(Slots) /\ Len(F) <= MaxTasks
  /\ {F[k] : k \in DOMAIN F} = {s \in Slots : T[s].id = 0}
  /\ \A j, k \in DOMAIN F : F[j] = F[k] => j = k

\* The task in slot s has been run.
Ran(T, R, s) == \E c \in DOMAIN R : c.task = [id |-> s, tag |-> T[s].tag]

\* The workers an action and a job allow; those a task is sent to; whether w may
\* run it.
Both(a, j)   == Affinity[a] \cap Attr[j].affinity
Reach(a, j)  == IF Both(a, j) = {} THEN Workers ELSE Both(a, j)
May(w, a, j) == Both(a, j) # {} => w \in Both(a, j)

\* Every call that returned did so once, where it may run, for a task that has a
\* slot or had it before the slot was used again.
RanOK(T, R) ==
  \A c \in DOMAIN R :
    /\ R[c] = 1
    /\ c \in Calling
    /\ Attr[c.job].instances = 1
    /\ May(c.on, c.action, c.job)
    /\ c.task.id \in Slots
    /\ c.task.tag <= T[c.task.id].tag
    /\ c.task.tag = T[c.task.id].tag => T[c.task.id].id # 0
    /\ \A d \in DOMAIN R : c.task = d.task => c = d

\* A completed task has run.
DoneOK(T, R) ==
  \A s \in Slots : T[s].state = "COMPLETED" => Ran(T, R, s)

\* A handle that was given out: once its task is deleted it stays invalid.
HandleOK(T, h) ==
  h.id \in Slots =>
    /\ h.tag <= T[h.id].tag
    /\ h.tag = T[h.id].tag => T[h.id].state \in {"SCHEDULED", "RUNNING", "COMPLETED"}

-----------------------------------------------------------------------------
(* The parts of the invariant about frames and queues                      *)

\* What a frame of thread t knows of the task it is about.
Good(T, R, t, f) ==
  /\ f.at = "user" => \A k \in DOMAIN f.started : HandleOK(T, f.started[k])
  /\ f.at = "user" /\ f \in BodyFrames =>
       /\ f.call.task = [id |-> f.self, tag |-> T[f.self].tag]
       /\ f.call.job = T[f.self].job /\ f.call.action = T[f.self].action
       /\ f.call.on = t /\ May(t, f.call.action, f.call.job)
  /\ f.at \in StartPoints =>
       /\ f.of = [id |-> f.task, tag |-> T[f.task].tag]
       /\ T[f.task].id # 0
       /\ f.at # "scheduled" => T[f.task].state = "SCHEDULED" /\ f.ok /\ f.instance = 0
       /\ ~f.ok => T[f.task].state \in {"SCHEDULED", "PRENATAL"}
       /\ f.ok => T[f.task].state # "PRENATAL"
  /\ f.at = "schedulePush" => f.action = T[f.task].action
                              /\ f.to = Reach(T[f.task].action, T[f.task].job)
  /\ f.at = "wait" => /\ f.task = f.of.id /\ f.of.tag = T[f.task].tag
                      /\ T[f.task].state \in {"SCHEDULED", "RUNNING", "COMPLETED"}
  /\ f.at \in {"dispatch", "exec"} => T[f.task].state = "SCHEDULED"
  /\ f.at \in {"execCall", "execTodo", "execDone"} => T[f.task].state = "RUNNING"
  /\ f.at = "execCall" => T[f.task].error = "SUCCESS"
  /\ f.at \in {"execCall", "execTodo"} => T[f.task].todo = 1
  /\ f.at = "execTodo" => f.action = T[f.task].action
  /\ f.at \in {"dispatch", "exec", "execCall"} =>
       May(t, T[f.task].action, T[f.task].job) /\ ~Ran(T, R, f.task)
  /\ f.at \in StartPoints /\ Holds(f, f.task) => ~Ran(T, R, f.task)
  /\ f.at = "execDone" => Ran(T, R, f.task)

\* The body of a task returns once: before, the task is not among those that ran.
TodoOK(T, R, st) ==
  \A d \in 1..Len(st) : Fm(st, d).at = "execTodo" =>
    (Ran(T, R, Fm(st, d).task) <=> d = Len(st))

\* The task in slot s may be in queue q.
Waits(T, R, q, s) ==
  /\ T[s].state = "SCHEDULED" /\ ~Ran(T, R, s)
  /\ IF q[2] = "private" THEN May(q[1], T[s].action, T[s].job)
                         ELSE \A w \in Workers : May(w, T[s].action, T[s].job)

\* The queues hold tasks that wait to run, each of them once.
WaitingOK(T, R, Q) ==
  /\ Q \in [Workers \X {"private", "public"} \X Prios -> Seq(Slots)]
  /\ \A q \in DOMAIN Q : Len(Q[q]) <= QueueLimit
  /\ \A q \in DOMAIN Q : \A k \in DOMAIN Q[q] : Waits(T, R, q, Q[q][k])
  /\ \A p, q \in DOMAIN Q : \A j \in DOMAIN Q[p], k \in DOMAIN Q[q] :
       Q[p][j] = Q[q][k] => p = q /\ j = k

\* No slot is held by two frames.
HeldOnce(S) ==
  \A t, u \in Threads : \A d \in 1..Len(S[t]), e \in 1..Len(S[u]) : \A s \in Slots :
    Holds(Fm(S[t], d), s) /\ Holds(Fm(S[u], e), s) => t = u /\ d = e

\* No slot in a queue is held by a frame.
QueuedFree(S, Q) ==
  \A t \in Threads : \A d \in 1..Len(S[t]) : \A q \in DOMAIN Q : \A k \in DOMAIN Q[q] :
    ~Holds(Fm(S[t], d), Q[q][k])

\* No handle of a task that exists is known to two frames: only one can wait for it.
Owned(T, S) ==
  \A t, u \in Threads : \A d \in 1..Len(S[t]), e \in 1..Len(S[u]) : \A s \in Slots :
    LET h == [id |-> s, tag |-> T[s].tag] IN
      Owns(Fm(S[t], d), h) /\ Owns(Fm(S[u], e), h) => t = u /\ d = e

\* A wait that returned success was for a task that has run.
Joined ==
  \A t \in Threads : status[t].op = "wait" /\ status[t].code = "SUCCESS" =>
    \E c \in DOMAIN ran : c.task = status[t].of

\* The objects that a fork-join program does not touch.
Objects ==
  /\ \A g \in Groups : ~group[g].valid
  /\ \A q \in Queues : ~queue[q].valid
  /\ action \in [Actions -> [valid : BOOLEAN, enabled : BOOLEAN, num_tasks : Int]]
  /\ group \in [Groups -> [valid : BOOLEAN, num_tasks : Int, queue : {<<>>}]]
  /\ queue \in [Queues -> [valid : BOOLEAN, enabled : BOOLEAN, num_tasks : Int]]
  /\ job = [j \in Jobs |-> [num_actions |-> Len(JobActions[j]),
       actions |-> [k \in 1..MaxActions |->
         IF k <= Len(JobActions[j]) THEN JobActions[j][k] ELSE NoAction]]]
  /\ affine_task_counter \in Nat
  /\ is_sleeping \in [Workers -> BOOLEAN]

\* Slots, pool, stacks, queues and history fit together.
Safe(A, T, F, Q, S, R) ==
  /\ DOMAIN T = Slots /\ \A s \in Slots : SlotOK(A, s, T[s])
  /\ Pool(T, F)
  /\ DOMAIN S = Threads /\ \A t \in Threads : StackOK(t, S[t])
  /\ \A t \in Threads : \A d \in 1..Len(S[t]) : Good(T, R, t, Fm(S[t], d))
  /\ \A t \in Threads : TodoOK(T, R, S[t])
  /\ WaitingOK(T, R, Q)
  /\ HeldOnce(S) /\ QueuedFree(S, Q)
  /\ Owned(T, S)
  /\ RanOK(T, R)
  /\ DoneOK(T, R)

\* The inductive invariant.
FInv == /\ Safe(action, task, free, wqueue, stack, ran)
        /\ Joined /\ DOMAIN status = Threads
        /\ Objects
=============================================================================
