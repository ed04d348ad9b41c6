--------------------------- MODULE NodeLifecycle ----------------------------
(***************************************************************************)
(* The start and the end of an MTAPI node: mtapi_initialize brings up the  *)
(* workers one by one and releases them together, mtapi_finalize stops     *)
(* them one by one and frees their queues when all have ended.  The        *)
(* creation of a thread, or of its thread-specific storage, may fail.      *)
(* (embb_mtapi_node_t.c, embb_mtapi_scheduler_t.c,                         *)
(* embb_mtapi_thread_context_t.c)                                          *)
(***************************************************************************)
EXTENDS Integers

CONSTANTS NumWorkers,   \* scheduler->worker_count
          MayFail       \* whether a thread or its storage may not come up

ASSUME NumWorkersAssumption == NumWorkers \in Nat \ {0}
ASSUME MayFailAssumption == MayFail \in BOOLEAN

Workers == 0..(NumWorkers - 1)

VARIABLES
  main,       \* where the thread that initializes and finalizes the node is
  k,          \* its loop index
  is_scheduler_running,
  run,        \* thread_context->run: 0 not running, 1 running, -1 failed
  alive,      \* the queues of a worker exist
  worker      \* where a worker is; "none" if it has no thread

vars == <<main, k, is_scheduler_running, run, alive, worker>>

Init ==
  /\ main = "down" /\ k = 0
  /\ is_scheduler_running = FALSE
  /\ run = [w \in Workers |-> 0]
  /\ alive = [w \in Workers |-> FALSE]
  /\ worker = [w \in Workers |-> "none"]

-----------------------------------------------------------------------------
(* mtapi_initialize                                                        *)

\* Everything up to the first thread: nobody else is there to see it.
Initialize ==
  /\ main = "down"
  /\ main' = "create" /\ k' = 0
  /\ is_scheduler_running' = FALSE
  /\ run' = [w \in Workers |-> 0]
  /\ alive' = [w \in Workers |-> TRUE]
  /\ worker' = [w \in Workers |-> "none"]

\* embb_mtapi_thread_context_start: create the thread of worker k.  On an error
\* the scheduler is deleted, which shuts down the workers.
CreateThread ==
  /\ main = "create"
  /\ \/ /\ worker' = [worker EXCEPT ![k] = "begin"]
        /\ main' = "await"
        /\ UNCHANGED k
     \/ /\ MayFail
        /\ main' = "stop" /\ k' = 0
        /\ UNCHANGED worker
  /\ UNCHANGED <<is_scheduler_running, run, alive>>

\* The worker says it runs: create the next one, or release them all.
WorkerIsUp ==
  /\ main = "await" /\ run[k] > 0
  /\ IF k + 1 < NumWorkers
       THEN main' = "create" /\ k' = k + 1 /\ UNCHANGED is_scheduler_running
       ELSE main' = "up" /\ is_scheduler_running' = TRUE /\ UNCHANGED k
  /\ UNCHANGED <<run, alive, worker>>

WorkerFailed ==
  /\ main = "await" /\ run[k] < 0
  /\ main' = "stop" /\ k' = 0
  /\ UNCHANGED <<is_scheduler_running, run, alive, worker>>

-----------------------------------------------------------------------------
(* mtapi_finalize and embb_mtapi_scheduler_finalize                        *)

Finalize ==
  /\ main = "up"
  /\ main' = "stop" /\ k' = 0
  /\ UNCHANGED <<is_scheduler_running, run, alive, worker>>

\* The loop goes on to the next worker, and from the last one to "after".
NextWorker(again, after) ==
  IF k + 1 < NumWorkers THEN main' = again /\ k' = k + 1 ELSE main' = after /\ k' = 0

\* embb_mtapi_thread_context_stop: the notification reaches a worker that waits.
StopWorker ==
  /\ main = "stop"
  /\ \/ /\ run[k] > 0
        /\ run' = [run EXCEPT ![k] = 0]
        /\ worker' = IF worker[k] = "waiting" THEN [worker EXCEPT ![k] = "loop"] ELSE worker
        /\ main' = "join"
        /\ UNCHANGED k
     \/ /\ run[k] <= 0
        /\ NextWorker("stop", "free")
        /\ UNCHANGED <<run, worker>>
  /\ UNCHANGED <<is_scheduler_running, alive>>

\* Mutant: nobody waits for the thread to end.
JoinNobody ==
  /\ main = "join"
  /\ NextWorker("stop", "free")
  /\ UNCHANGED <<is_scheduler_running, run, alive, worker>>

JoinWorker ==
  /\ main = "join" /\ worker[k] = "ended"
  /\ NextWorker("stop", "free")
  /\ UNCHANGED <<is_scheduler_running, run, alive, worker>>

\* embb_mtapi_thread_context_finalize: the queues of worker k are freed.
FreeQueues ==
  /\ main = "free"
  /\ alive' = [alive EXCEPT ![k] = FALSE]
  /\ NextWorker("free", "down")
  /\ UNCHANGED <<is_scheduler_running, run, worker>>

-----------------------------------------------------------------------------
(* embb_mtapi_scheduler_worker                                             *)

\* Mutant: the worker does not say that it runs.
BeginSilently(w) ==
  /\ worker[w] = "begin"
  /\ worker' = [worker EXCEPT ![w] = "spin"]
  /\ UNCHANGED <<main, k, is_scheduler_running, run, alive>>

Begin(w) ==
  /\ worker[w] = "begin"
  /\ \/ /\ run' = [run EXCEPT ![w] = 1]
        /\ worker' = [worker EXCEPT ![w] = "spin"]
     \/ /\ MayFail
        /\ run' = [run EXCEPT ![w] = -1]
        /\ worker' = [worker EXCEPT ![w] = "ended"]
  /\ UNCHANGED <<main, k, is_scheduler_running, alive>>

\* Mutant: the worker does not wait for the others.
ReleasedAtOnce(w) ==
  /\ worker[w] = "spin"
  /\ worker' = [worker EXCEPT ![w] = "loop"]
  /\ UNCHANGED <<main, k, is_scheduler_running, run, alive>>

\* The worker waits for the node to come up completely, and for nothing else.
Released(w) ==
  /\ worker[w] = "spin" /\ is_scheduler_running
  /\ worker' = [worker EXCEPT ![w] = "loop"]
  /\ UNCHANGED <<main, k, is_scheduler_running, run, alive>>

\* The test of the loop; then it looks into the queues of all workers.
Search(w) ==
  /\ worker[w] = "loop"
  /\ worker' = [worker EXCEPT ![w] = IF run[w] # 0 THEN "search" ELSE "ended"]
  /\ UNCHANGED <<main, k, is_scheduler_running, run, alive>>

\* It finds something to do or spins, or it goes to sleep.
Searched(w) ==
  /\ worker[w] = "search"
  /\ \E next \in {"loop", "asleep"} : worker' = [worker EXCEPT ![w] = next]
  /\ UNCHANGED <<main, k, is_scheduler_running, run, alive>>

Sleep(w) ==
  /\ worker[w] = "asleep"
  /\ worker' = [worker EXCEPT ![w] = "waiting"]
  /\ UNCHANGED <<main, k, is_scheduler_running, run, alive>>

\* Mutant: a wait without a time limit.
TimeoutNever(w) == FALSE

\* The wait ends after ten milliseconds at the latest.
Timeout(w) ==
  /\ worker[w] = "waiting"
  /\ worker' = [worker EXCEPT ![w] = "loop"]
  /\ UNCHANGED <<main, k, is_scheduler_running, run, alive>>

-----------------------------------------------------------------------------
MainStep == \/ CreateThread \/ WorkerIsUp \/ WorkerFailed
            \/ StopWorker \/ JoinWorker \/ FreeQueues

WorkerStep(w) == Begin(w) \/ Released(w) \/ Search(w) \/ Searched(w) \/ Sleep(w) \/ Timeout(w)

Next == Initialize \/ Finalize \/ MainStep \/ \E w \in Workers : WorkerStep(w)

Spec == Init /\ [][Next]_vars

\* The operating system runs every thread; the user may never call the API.
FairSpec == Spec /\ WF_vars(MainStep) /\ \A w \in Workers : WF_vars(WorkerStep(w))

-----------------------------------------------------------------------------
MainPoints   == {"down", "create", "await", "up", "stop", "join", "free"}
WorkerPoints == {"none", "begin", "spin", "loop", "search", "asleep", "waiting", "ended"}

\* The types of the variables.
TypeOK ==
  /\ main \in MainPoints /\ k \in Workers
  /\ is_scheduler_running \in BOOLEAN
  /\ run \in [Workers -> {-1, 0, 1}]
  /\ alive \in [Workers -> BOOLEAN]
  /\ worker \in [Workers -> WorkerPoints]

Working == {"loop", "search", "asleep", "waiting"}

\* A worker looks for work, in its own queues and in those of all others, only
\* while all of these exist: none is freed before the last worker has ended.
SearchesLiveQueues ==
  \A w \in Workers : worker[w] = "search" => \A v \in Workers : alive[v]

\* No worker works before all of them have come up, so what a worker starts
\* finds every other worker there.
ReleasedTogether ==
  \A w \in Workers : worker[w] \in Working => \A v \in Workers : worker[v] \notin {"none", "begin"}

\* mtapi_initialize learns what became of every worker it creates, and goes on
\* to release them all or to shut them down: it does not wait for a worker that
\* never reports.
InitializeDecides == (main = "create") ~> (main \in {"up", "stop"})

\* mtapi_finalize on a node that was up returns, although the notification is
\* lost on a worker that is about to wait.
FinalizeReturns == (main = "stop" /\ is_scheduler_running) ~> (main = "down")
=============================================================================
