------------------------ MODULE NodeLifecycleProofs -------------------------
(***************************************************************************)
(* Proof that the queues of the workers outlive every worker that looks    *)
(* into them, and that the workers are released together, for any number   *)
(* of workers and whichever of them fail to start.                         *)
(*                                                                         *)
(* The inductive invariant says, for every point of the main thread, what  *)
(* the workers before, at and after its loop index are doing.              *)
(***************************************************************************)
EXTENDS NodeLifecycle, TLAPS

\* A worker without a thread, or whose thread has ended or is about to.
Idle(v) == worker[v] \in {"none", "ended"}

\* A worker that has said it runs and has not been told to stop.
Up(v) == run[v] = 1 /\ worker[v] \in {"spin"} \cup Working

\* A worker the shutdown has not come to yet.
ToStop(v) == Up(v) \/ (run[v] <= 0 /\ Idle(v))

Fresh(v) == run[v] = 0 /\ worker[v] = "none"

Phase ==
  /\ main = "create" => \A v \in Workers : (v < k => Up(v)) /\ (v >= k => Fresh(v))
  /\ main = "await"  => /\ \A v \in Workers : (v < k => Up(v)) /\ (v > k => Fresh(v))
                        /\ \/ run[k] = 0 /\ worker[k] = "begin"
                           \/ run[k] = -1 /\ worker[k] = "ended"
                           \/ Up(k)
  /\ main = "up"     => \A v \in Workers : Up(v)
  /\ main = "stop"   => \A v \in Workers : (v < k => Idle(v)) /\ (v >= k => ToStop(v))
  /\ main = "join"   => /\ \A v \in Workers : (v < k => Idle(v)) /\ (v > k => ToStop(v))
                        /\ run[k] = 0 /\ worker[k] \in {"spin", "ended"} \cup Working
  /\ main \in {"free", "down"} => \A v \in Workers : Idle(v)

Running ==
  /\ main \in {"create", "await"} => ~is_scheduler_running
  /\ main = "up" => is_scheduler_running
  /\ \A v \in Workers : worker[v] \in Working => is_scheduler_running
  /\ main \in {"up", "stop", "join"} /\ is_scheduler_running
       => \A v \in Workers : worker[v] \notin {"none", "begin"}

QueuesExist == main \notin {"free", "down"} => \A v \in Workers : alive[v]

LInv == TypeOK /\ Phase /\ Running /\ QueuesExist

-----------------------------------------------------------------------------
\* The node is down in the initial state and no worker has a thread.
LEMMA InitLInv == Init => LInv
  <1> SUFFICES ASSUME Init PROVE LInv
    OBVIOUS
  <1>0. 0 \in Workers
    BY NumWorkersAssumption DEF Workers
  <1>1. TypeOK
    BY <1>0 DEF Init, TypeOK, MainPoints, WorkerPoints
  <1>2. Phase /\ Running /\ QueuesExist
    BY DEF Init, Phase, Running, QueuesExist, Idle, Working
  <1> QED BY <1>1, <1>2 DEF LInv

\* Every step keeps the types.
LEMMA StepTypeOK == TypeOK /\ [Next]_vars => TypeOK'
  <1> USE NumWorkersAssumption
  <1> SUFFICES ASSUME TypeOK, [Next]_vars PROVE TypeOK'
    OBVIOUS
  <1> USE DEF TypeOK, MainPoints, WorkerPoints
  <1>0. k + 1 < NumWorkers => k + 1 \in Workers
    BY DEF Workers
  <1>a. 0 \in Workers
    BY DEF Workers
  <1>1. CASE Initialize
    BY <1>1, <1>a DEF Initialize
  <1>2. CASE Finalize
    BY <1>2, <1>a DEF Finalize
  <1>3. CASE CreateThread
    BY <1>3, <1>a DEF CreateThread
  <1>4. CASE WorkerIsUp
    BY <1>4, <1>0 DEF WorkerIsUp
  <1>5. CASE WorkerFailed
    BY <1>5, <1>a DEF WorkerFailed
  <1>6. CASE StopWorker
    BY <1>6, <1>0, <1>a DEF StopWorker, NextWorker
  <1>7. CASE JoinWorker
    BY <1>7, <1>0, <1>a DEF JoinWorker, NextWorker
  <1>8. CASE FreeQueues
    BY <1>8, <1>0, <1>a DEF FreeQueues, NextWorker
  <1>9. ASSUME NEW w \in Workers, WorkerStep(w) PROVE TypeOK'
    BY <1>9 DEF WorkerStep, Begin, Released, Search, Searched, Sleep, Timeout
  <1>10. CASE UNCHANGED vars
    BY <1>10 DEF vars
  <1> QED
    BY <1>1, <1>2, <1>3, <1>4, <1>5, <1>6, <1>7, <1>8, <1>9, <1>10 DEF Next, MainStep

\* Every step of the main thread keeps the invariant.
LEMMA MainLInv == LInv /\ TypeOK' /\ (Initialize \/ Finalize \/ MainStep) => LInv'
  <1> USE NumWorkersAssumption
  <1> SUFFICES ASSUME LInv, TypeOK', Initialize \/ Finalize \/ MainStep PROVE LInv'
    OBVIOUS
  <1>k. k \in Workers /\ k \in Int /\ 0 <= k /\ k < NumWorkers /\ \A v \in Workers : v \in Int
          /\ 0 <= v /\ v < NumWorkers
    BY DEF LInv, TypeOK, Workers
  <1>1. CASE Initialize
    BY <1>1, <1>k DEF Initialize, LInv, Phase, Running, QueuesExist, Fresh, Working
  <1>2. CASE Finalize
    BY <1>2, <1>k DEF Finalize, LInv, Phase, Running, QueuesExist, Up, ToStop, Working
  <1>3. CASE CreateThread
    <2> USE <1>3 DEF CreateThread
    <2>1. QueuesExist' /\ Running'
      BY DEF LInv, QueuesExist, Running, Working, TypeOK
    <2>2. ASSUME main' = "await" PROVE Phase'
      <3>1. k' = k /\ run' = run /\ worker'[k] = "begin" /\ run[k] = 0
            /\ \A v \in Workers \ {k} : worker'[v] = worker[v]
        BY <2>2, <1>k DEF LInv, Phase, Fresh, TypeOK
      <3>2. \A v \in Workers : (v < k => Up(v)') /\ (v > k => Fresh(v)')
        BY <3>1, <1>k DEF LInv, Phase, Up, Fresh
      <3> QED BY <2>2, <3>1, <3>2 DEF Phase, Up, Fresh
    <2>3. ASSUME main' = "stop" PROVE Phase'
      <3>1. k' = 0 /\ run' = run /\ worker' = worker
        BY <2>3
      <3>2. \A v \in Workers : ToStop(v)'
        BY <3>1, <1>k DEF LInv, Phase, Fresh, Up, ToStop, Idle
      <3> QED BY <2>3, <3>1, <3>2, <1>k DEF Phase, ToStop, Up, Idle
    <2> QED BY <2>1, <2>2, <2>3 DEF LInv
  <1>4. CASE WorkerIsUp
    <2> USE <1>4 DEF WorkerIsUp
    <2>1. Up(k)
      BY DEF LInv, Phase, Up
    <2>2. CASE k + 1 < NumWorkers
      <3>1. \A v \in Workers : (v < k + 1 => Up(v)) /\ (v >= k + 1 => Fresh(v))
        BY <2>1, <1>k DEF LInv, Phase
      <3> QED BY <2>2, <3>1 DEF LInv, Phase, Running, QueuesExist, Up, Fresh
    <2>3. CASE ~(k + 1 < NumWorkers)
      <3>1. \A v \in Workers : Up(v)
        BY <2>1, <2>3, <1>k DEF LInv, Phase
      <3> QED BY <2>3, <3>1 DEF LInv, Phase, Running, QueuesExist, Up, Working
    <2> QED BY <2>2, <2>3
  <1>5. CASE WorkerFailed
    <2> USE <1>5 DEF WorkerFailed
    <2>1. run[k] <= 0 /\ Idle(k)
      BY DEF LInv, Phase, Up, Idle
    <2>2. \A v \in Workers : ToStop(v)
      BY <2>1, <1>k DEF LInv, Phase, ToStop, Fresh, Idle
    <2> QED BY <2>2, <1>k DEF LInv, Phase, Running, QueuesExist, ToStop, Up, Idle
  <1>6. CASE StopWorker
    <2> USE <1>6 DEF StopWorker
    <2>1. CASE run[k] > 0
      <3>1. main' = "join" /\ k' = k /\ UNCHANGED <<is_scheduler_running, alive>>
        BY <2>1, <1>k DEF LInv, TypeOK
      <3>0. run[k] \in Int /\ ToStop(k)
        BY <1>k DEF LInv, TypeOK, Phase
      <3>2. Up(k)
        BY <2>1, <3>0 DEF ToStop
      <3>3. run'[k] = 0 /\ worker'[k] \in {"spin"} \cup Working
            /\ (worker'[k] \in Working => worker[k] \in Working)
        BY <2>1, <3>1, <3>2, <1>k DEF LInv, TypeOK, Up, Working
      <3>4. \A v \in Workers \ {k} : run'[v] = run[v] /\ worker'[v] = worker[v]
        BY <2>1, <1>k DEF LInv, TypeOK
      <3>5. Phase'
        BY <3>1, <3>3, <3>4, <1>k DEF LInv, Phase, ToStop, Up, Idle
      <3>6. Running'
        BY <3>1, <3>2, <3>3, <3>4, <1>k DEF LInv, Running, Working
      <3> QED BY <3>1, <3>5, <3>6 DEF LInv, QueuesExist
    <2>2. CASE run[k] <= 0
      <3>1. UNCHANGED <<is_scheduler_running, alive, run, worker>> /\ NextWorker("stop", "free")
        BY <2>2, <1>k DEF LInv, TypeOK
      <3>2. \A v \in Workers : (v < k + 1 => Idle(v)) /\ (v >= k + 1 => ToStop(v))
        BY <2>2, <1>k DEF LInv, Phase, ToStop, Up
      <3> QED BY <3>1, <3>2, <1>k
              DEF LInv, Phase, Running, QueuesExist, NextWorker, ToStop, Up, Idle
    <2> QED BY <2>1, <2>2, <1>k DEF LInv, TypeOK
  <1>7. CASE JoinWorker
    <2> USE <1>7 DEF JoinWorker
    <2>1. \A v \in Workers : (v < k + 1 => Idle(v)) /\ (v >= k + 1 => ToStop(v))
      BY <1>k DEF LInv, Phase, Idle
    <2> QED BY <2>1, <1>k
            DEF LInv, Phase, Running, QueuesExist, NextWorker, ToStop, Up, Idle
  <1>8. CASE FreeQueues
    BY <1>8, <1>k DEF FreeQueues, NextWorker, LInv, Phase, Running, QueuesExist, Idle
  <1> QED
    BY <1>1, <1>2, <1>3, <1>4, <1>5, <1>6, <1>7, <1>8 DEF MainStep

\* Every step of a worker keeps the invariant.
LEMMA WorkerLInv ==
  ASSUME NEW w \in Workers, LInv, TypeOK', WorkerStep(w)
  PROVE  LInv'
  <1> USE NumWorkersAssumption
  <1>k. k \in Workers /\ \A v \in Workers : v \in Int
    BY DEF LInv, TypeOK, Workers
  <1>0. UNCHANGED <<main, k, is_scheduler_running, alive>>
        /\ \A v \in Workers \ {w} : run'[v] = run[v] /\ worker'[v] = worker[v]
    BY DEF WorkerStep, Begin, Released, Search, Searched, Sleep, Timeout, LInv, TypeOK
  <1>1. CASE Begin(w)
    <2>1. main = "await" /\ k = w
      BY <1>1, <1>k DEF Begin, LInv, Phase, Up, Fresh, ToStop, Idle, Working, TypeOK, MainPoints
    <2>2. \/ run'[w] = 1 /\ worker'[w] = "spin"
          \/ run'[w] = -1 /\ worker'[w] = "ended"
      BY <1>1 DEF Begin, LInv, TypeOK
    <2> QED BY <1>0, <1>k, <2>1, <2>2
            DEF LInv, Phase, Running, QueuesExist, Up, Fresh, Working
  <1>2. CASE Released(w)
    <2>1. run' = run /\ worker[w] = "spin" /\ worker'[w] = "loop" /\ is_scheduler_running
      BY <1>2 DEF Released, LInv, TypeOK
    <2> QED BY <1>0, <1>k, <2>1
            DEF LInv, Phase, Running, QueuesExist, Up, Fresh, ToStop, Idle, Working
  <1>3. CASE Search(w) /\ run[w] = 0
    <2>1. run' = run /\ worker[w] = "loop" /\ worker'[w] = "ended"
      BY <1>3 DEF Search, LInv, TypeOK
    <2>2. main = "join" /\ k = w
      BY <1>3, <2>1, <1>k DEF LInv, Phase, Up, Fresh, ToStop, Idle, Working, TypeOK, MainPoints
    <2> QED BY <1>0, <1>k, <2>1, <2>2
            DEF LInv, Phase, Running, QueuesExist, Up, ToStop, Idle, Working
  <1>4. CASE (Search(w) /\ run[w] # 0) \/ Searched(w) \/ Sleep(w) \/ Timeout(w)
    <2>1. run' = run /\ worker[w] \in Working /\ worker'[w] \in Working
      BY <1>4 DEF Search, Searched, Sleep, Timeout, LInv, TypeOK, Working
    <2>2. main = "await" /\ k = w => Up(w)
      BY <2>1 DEF LInv, Phase, Up, Working
    <2> QED BY <1>0, <1>k, <2>1, <2>2
            DEF LInv, Phase, Running, QueuesExist, Up, Fresh, ToStop, Idle, Working
  <1> QED BY <1>1, <1>2, <1>3, <1>4 DEF WorkerStep

\* The invariant is inductive.
LEMMA NextLInv == LInv /\ [Next]_vars => LInv'
  <1> SUFFICES ASSUME LInv, [Next]_vars PROVE LInv'
    OBVIOUS
  <1>1. TypeOK'
    BY StepTypeOK DEF LInv
  <1>2. CASE Initialize \/ Finalize \/ MainStep
    BY <1>1, <1>2, MainLInv
  <1>3. ASSUME NEW w \in Workers, WorkerStep(w) PROVE LInv'
    BY <1>1, <1>3, WorkerLInv
  <1>4. CASE UNCHANGED vars
    BY <1>4 DEF vars, LInv, TypeOK, Phase, Running, QueuesExist, Up, Fresh, ToStop, Idle
  <1> QED BY <1>2, <1>3, <1>4 DEF Next

\* In every reachable state the main thread and the workers are at points that
\* fit together.
THEOREM SpecLInv == Spec => []LInv
  BY InitLInv, NextLInv, PTL DEF Spec

\* The queues of all workers exist while any worker looks for work: the two
\* loops of embb_mtapi_scheduler_finalize, stop all and then free all, are in
\* the right order.
THEOREM SearchesLiveQueuesHolds == Spec => []SearchesLiveQueues
  <1>1. LInv => SearchesLiveQueues
    BY DEF LInv, Phase, QueuesExist, SearchesLiveQueues, Idle
  <1> QED BY <1>1, SpecLInv, PTL

\* No worker works before all workers have come up.
THEOREM ReleasedTogetherHolds == Spec => []ReleasedTogether
  <1>1. LInv => ReleasedTogether
    BY DEF LInv, TypeOK, MainPoints, Phase, Running, ReleasedTogether, Idle, Working
  <1> QED BY <1>1, SpecLInv, PTL
=============================================================================
