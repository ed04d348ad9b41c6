-------------------------- MODULE TaskQueueProofs ---------------------------
(***************************************************************************)
(* Proofs about TaskQueue for every capacity, every set of threads and     *)
(* every set of tasks: the ring behind its spin lock implements TaskFifo.  *)
(*                                                                         *)
(* The refinement mapping reads the queue off the ring, so every step of   *)
(* it needs to know which slots hold the queue while the lock owner has    *)
(* updated the counters in part.  Window states that for each place the    *)
(* lock owner can be in; Mutex says that there is only one of them.        *)
(***************************************************************************)
EXTENDS TaskQueue, SequenceTheorems, TLAPS

\* Where a thread has the spin lock.
Critical == {"popCheck", "popPosition", "popFetch", "pushPosition", "pushPut",
             "pushAvailable", "process", "release"}

\* Where the lock owner has updated the ring in part.
Midway == {"popPosition", "popFetch", "pushPut", "pushAvailable"}

\* The spin lock of embb_mtapi_spinlock_t.c is taken exactly while a thread
\* is in a critical section of the queue, and that thread is the only one.
Mutex ==
  /\ \A t \in Threads : pc[t] \in Critical =>
       /\ lock = 1
       /\ \A u \in Threads : pc[u] \in Critical => u = t
  /\ lock = 1 => \E t \in Threads : pc[t] \in Critical

\* A position that has passed the end of the ring at most once.
Wrap(x) == IF Limit <= x THEN x - Limit ELSE x

\* Slot s is one of the count slots of the ring that start at first.
InWindow(first, count, s) ==
  \/ first <= s /\ s < first + count
  \/ s + Limit < first + count

\* The count slots from first up to last hold tasks.
Window(first, count, last) ==
  /\ count <= Limit
  /\ last = Wrap(first + count)
  /\ \A s \in Slots : InWindow(first, count, s) => task_buffer[s] \in Tasks

\* The window that tasks_available and the two positions describe, for every
\* place the lock owner of embb_mtapi_task_queue_t.c can be in.
RingInv ==
  /\ (\A t \in Threads : pc[t] \notin Midway)
       => Window(get_task_position, tasks_available, put_task_position)
  /\ \A t \in Threads :
       /\ pc[t] = "popPosition"
            => Window(get_task_position, tasks_available + 1,
                      put_task_position)
       /\ pc[t] = "popFetch"
            => /\ get_task_position = Advance(task_position[t])
               /\ Window(task_position[t], tasks_available + 1,
                         put_task_position)
       /\ pc[t] = "pushPut"
            => /\ put_task_position = Advance(task_position[t])
               /\ tasks_available < Limit
               /\ Window(get_task_position, tasks_available,
                         task_position[t])
       /\ pc[t] = "pushAvailable"
            => /\ put_task_position = Advance(task_position[t])
               /\ task_buffer[task_position[t]] = task[t]
               /\ tasks_available < Limit
               /\ Window(get_task_position, tasks_available,
                         task_position[t])

\* The operation a thread is in fits its program point, and its local
\* variables hold what that point of the operation has left in them.
LocalInv ==
  \A t \in Threads :
    /\ pc[t] = "idle" <=> fn[t] = "none"
    /\ pc[t] \in {"popLock", "popCheck", "popPosition", "popFetch"}
         => fn[t] = "pop"
    /\ pc[t] \in {"pushLock", "pushPosition", "pushPut", "pushAvailable"}
         => fn[t] = "push" /\ task[t] \in Tasks /\ ~ result[t]
    /\ pc[t] \in {"processLock", "process"} => fn[t] = "process"
    /\ pc[t] \in {"idle", "popLock", "popCheck"} => task[t] = NoTask
    /\ pc[t] = "process" => ii[t] <= tasks_available
    /\ pc[t] = "processLock" => ii[t] = 0

\* The inductive invariant.
IInv == TypeOK /\ Mutex /\ RingInv /\ LocalInv

-----------------------------------------------------------------------------
\* The remainder of a position is the position, moved back once if it has
\* passed the end of the ring.
LEMMA ModWrap ==
  ASSUME NEW x \in Nat, x < 2 * Limit
  PROVE  x % Limit = Wrap(x)
BY LimitAssumption DEF Wrap

\* Positions are closed under Advance, which is the successor in the ring.
LEMMA AdvanceInRing ==
  \A p \in Slots : Advance(p) \in Slots /\ Advance(p) = Wrap(p + 1)
BY LimitAssumption DEF Advance, Slots, Wrap

\* A step of one thread changes no other thread's program point, operation
\* or local variables.
LEMMA OthersStay ==
  ASSUME TypeOK, NEW t \in Threads, Step(t), NEW u \in Threads, u # t
  PROVE  /\ pc'[u] = pc[u] /\ fn'[u] = fn[u] /\ task'[u] = task[u]
         /\ task_position'[u] = task_position[u] /\ result'[u] = result[u]
         /\ ii'[u] = ii[u]
<1> USE DEF TypeOK, Goto, Enter, locals
<1>1. CASE PopCall(t) \/ PushCall(t) \/ ProcessCall(t)
  BY <1>1 DEF PopCall, PushCall, ProcessCall
<1>2. CASE PopLock(t) \/ PopGivesUp(t) \/ PushLock(t) \/ ProcessLock(t)
  BY <1>2 DEF PopLock, PopGivesUp, PushLock, ProcessLock
<1>3. CASE PopCheck(t) \/ PopPosition(t) \/ PopFetch(t)
  BY <1>3 DEF PopCheck, PopPosition, PopFetch
<1>4. CASE PushPosition(t) \/ PushPut(t) \/ PushAvailable(t)
  BY <1>4 DEF PushPosition, PushPut, PushAvailable
<1>5. CASE ProcessVisit(t)
  BY <1>5 DEF ProcessVisit
<1>6. CASE ProcessDone(t) \/ Release(t) \/ Return(t)
  BY <1>6 DEF ProcessDone, Release, Return
<1> QED
  BY <1>1, <1>2, <1>3, <1>4, <1>5, <1>6 DEF Step

\* embb_mtapi_task_queue_initialize_with_capacity establishes the invariant.
LEMMA InitIInv == Init => IInv
<1> SUFFICES ASSUME Init PROVE IInv
  OBVIOUS
<1> USE LimitAssumption DEF Init, Slots
<1>1. TypeOK
  BY DEF TypeOK, PC
<1>2. Mutex /\ LocalInv
  BY DEF Mutex, LocalInv, Critical
<1>3. RingInv
  BY DEF RingInv, Window, InWindow, Wrap, Midway
<1> QED
  BY <1>1, <1>2, <1>3 DEF IInv

\* Every step of a thread keeps the variables in their types.
LEMMA StepTypeOK ==
  ASSUME IInv, NEW t \in Threads, Step(t)
  PROVE  TypeOK'
<1>0. TypeOK
  BY DEF IInv
<1>a. 0 \in Slots /\ NoTask \in Tasks \cup {NoTask} /\ 0 \in 0..Limit
  BY LimitAssumption DEF Slots
<1> USE <1>0, <1>a, AdvanceInRing
    DEF TypeOK, PC, Goto, Enter, ring, locals, spinlock_acquire,
        spinlock_release, spinlock_gives_up
<1>1. CASE PopCall(t)       BY <1>1 DEF PopCall
<1>2. CASE PopLock(t)       BY <1>2 DEF PopLock
<1>3. CASE PopGivesUp(t)    BY <1>3 DEF PopGivesUp
<1>4. CASE PopCheck(t)
  <2>1. tasks_available' \in 0..Limit
    BY <1>4, LimitAssumption DEF PopCheck
  <2> QED
    BY <1>4, <2>1 DEF PopCheck
<1>5. CASE PopPosition(t)   BY <1>5 DEF PopPosition
<1>6. CASE PopFetch(t)      BY <1>6 DEF PopFetch
<1>7. CASE PushCall(t)      BY <1>7 DEF PushCall
<1>8. CASE PushLock(t)      BY <1>8 DEF PushLock
<1>9. CASE PushPosition(t)  BY <1>9 DEF PushPosition
<1>10. CASE PushPut(t)      BY <1>10 DEF PushPut
<1>11. CASE PushAvailable(t)
  <2>1. tasks_available' \in 0..Limit
    BY <1>11, LimitAssumption DEF PushAvailable, IInv, RingInv
  <2> QED
    BY <1>11, <2>1 DEF PushAvailable
<1>12. CASE ProcessCall(t)  BY <1>12 DEF ProcessCall
<1>13. CASE ProcessLock(t)  BY <1>13 DEF ProcessLock
<1>14. CASE ProcessVisit(t)
  <2>1. PICK b \in BOOLEAN :
          /\ result' = [result EXCEPT ![t] = b]
          /\ \/ /\ b
                /\ Goto(t, "process", "process")
                /\ ii' = [ii EXCEPT ![t] = ii[t] + 1]
             \/ /\ ~ b
                /\ Goto(t, "process", "release")
                /\ UNCHANGED ii
    BY <1>14 DEF ProcessVisit
  <2>2. ii[t] < tasks_available => ii[t] + 1 \in 0..Limit
    BY LimitAssumption
  <2>3. ii[t] < Limit
    BY <1>14, LimitAssumption DEF ProcessVisit
  <2>4. task_buffer[ii[t]] \in Tasks \cup {NoTask}
    <3>1. ii[t] \in Slots
      BY <2>3, LimitAssumption DEF Slots
    <3> QED
      BY <3>1
  <2>5. ii' \in [Threads -> 0..Limit] /\ pc' \in [Threads -> PC] /\ UNCHANGED fn
    BY <1>14, <2>1, <2>2 DEF ProcessVisit
  <2>6. result' \in [Threads -> BOOLEAN]
    BY <2>1
  <2>7. task' \in [Threads -> Tasks \cup {NoTask}]
    BY <1>14, <2>4 DEF ProcessVisit
  <2> QED
    BY <1>14, <2>5, <2>6, <2>7 DEF ProcessVisit
<1>15. CASE ProcessDone(t)  BY <1>15 DEF ProcessDone
<1>16. CASE Release(t)      BY <1>16 DEF Release
<1>17. CASE Return(t)       BY <1>17 DEF Return
<1> QED
  BY <1>1, <1>2, <1>3, <1>4, <1>5, <1>6, <1>7, <1>8, <1>9, <1>10, <1>11,
     <1>12, <1>13, <1>14, <1>15, <1>16, <1>17
  DEF Step

\* Every step of a thread keeps the exclusion: a thread enters a critical
\* section only with a lock that was free.
LEMMA StepMutex ==
  ASSUME IInv, NEW t \in Threads, Step(t)
  PROVE  Mutex'
<1>0. TypeOK /\ Mutex
  BY DEF IInv
<1>a. \A u \in Threads \ {t} : pc'[u] = pc[u]
  BY <1>0, OthersStay
\* The step takes the lock, gives it back, or leaves it and stays in or out
\* of the critical section.
<1>1. \/ lock = 0 /\ lock' = 1 /\ pc'[t] \in Critical
      \/ lock = 1 /\ lock' = 0 /\ pc[t] \in Critical /\ pc'[t] \notin Critical
      \/ lock' = lock /\ (pc[t] \in Critical <=> pc'[t] \in Critical)
  <2> USE <1>0 DEF TypeOK, Critical, Goto, spinlock_acquire,
          spinlock_release, spinlock_gives_up
  <2>1. CASE PopCall(t) \/ PushCall(t) \/ ProcessCall(t)
    BY <2>1 DEF PopCall, PushCall, ProcessCall, Enter, IInv, LocalInv
  <2>2. CASE PopLock(t) \/ PopGivesUp(t) \/ PushLock(t) \/ ProcessLock(t)
    BY <2>2 DEF PopLock, PopGivesUp, PushLock, ProcessLock
  <2>3. CASE PopCheck(t) \/ PopPosition(t) \/ PopFetch(t)
    BY <2>3 DEF PopCheck, PopPosition, PopFetch
  <2>4. CASE PushPosition(t) \/ PushPut(t) \/ PushAvailable(t)
    BY <2>4 DEF PushPosition, PushPut, PushAvailable
  <2>5. CASE ProcessVisit(t)
    BY <2>5 DEF ProcessVisit
  <2>6. CASE ProcessDone(t) \/ Release(t) \/ Return(t)
    BY <2>6 DEF ProcessDone, Release, Return
  <2> QED
    BY <2>1, <2>2, <2>3, <2>4, <2>5, <2>6 DEF Step
<1> QED
  BY <1>0, <1>a, <1>1 DEF Mutex, TypeOK

\* Every step of a thread keeps its local variables fit for its program point.
LEMMA StepLocalInv ==
  ASSUME IInv, NEW t \in Threads, Step(t)
  PROVE  LocalInv'
<1>0. TypeOK /\ Mutex /\ LocalInv
  BY DEF IInv
<1>a. \A u \in Threads \ {t} :
        /\ pc'[u] = pc[u] /\ fn'[u] = fn[u] /\ task'[u] = task[u]
        /\ result'[u] = result[u] /\ ii'[u] = ii[u]
  BY <1>0, OthersStay
\* tasks_available changes only at points of the lock owner.
<1>b. pc[t] \in {"popCheck", "pushAvailable"} \/ UNCHANGED tasks_available
  <2> USE DEF Goto, ring
  <2>1. CASE PopCall(t) \/ PushCall(t) \/ ProcessCall(t)
    BY <2>1 DEF PopCall, PushCall, ProcessCall
  <2>2. CASE PopLock(t) \/ PopGivesUp(t) \/ PushLock(t) \/ ProcessLock(t)
    BY <2>2 DEF PopLock, PopGivesUp, PushLock, ProcessLock
  <2>3. CASE PopCheck(t) \/ PopPosition(t) \/ PopFetch(t)
    BY <2>3 DEF PopCheck, PopPosition, PopFetch
  <2>4. CASE PushPosition(t) \/ PushPut(t) \/ PushAvailable(t)
    BY <2>4 DEF PushPosition, PushPut, PushAvailable
  <2>5. CASE ProcessVisit(t) \/ ProcessDone(t) \/ Release(t) \/ Return(t)
    BY <2>5 DEF ProcessVisit, ProcessDone, Release, Return
  <2> QED
    BY <2>1, <2>2, <2>3, <2>4, <2>5 DEF Step
<1>c. ASSUME NEW u \in Threads \ {t}
      PROVE  pc'[u] = "process" => ii'[u] <= tasks_available'
  BY <1>0, <1>a, <1>b DEF LocalInv, Mutex, Critical
<1>d. LocalInv!(t)'
  <2> USE <1>0, LimitAssumption
      DEF TypeOK, LocalInv, Goto, Enter, ring, locals
  <2>1. CASE PopCall(t)       BY <2>1 DEF PopCall
  <2>2. CASE PopLock(t)       BY <2>2 DEF PopLock
  <2>3. CASE PopGivesUp(t)    BY <2>3 DEF PopGivesUp
  <2>4. CASE PopCheck(t)      BY <2>4 DEF PopCheck
  <2>5. CASE PopPosition(t)   BY <2>5 DEF PopPosition
  <2>6. CASE PopFetch(t)      BY <2>6 DEF PopFetch
  <2>7. CASE PushCall(t)      BY <2>7 DEF PushCall
  <2>8. CASE PushLock(t)      BY <2>8 DEF PushLock
  <2>9. CASE PushPosition(t)  BY <2>9 DEF PushPosition
  <2>10. CASE PushPut(t)      BY <2>10 DEF PushPut
  <2>11. CASE PushAvailable(t) BY <2>11 DEF PushAvailable
  <2>12. CASE ProcessCall(t)  BY <2>12 DEF ProcessCall
  <2>13. CASE ProcessLock(t)  BY <2>13 DEF ProcessLock
  <2>14. CASE ProcessVisit(t) BY <2>14 DEF ProcessVisit
  <2>15. CASE ProcessDone(t)  BY <2>15 DEF ProcessDone
  <2>16. CASE Release(t)      BY <2>16 DEF Release
  <2>17. CASE Return(t)       BY <2>17 DEF Return
  <2> QED
    BY <2>1, <2>2, <2>3, <2>4, <2>5, <2>6, <2>7, <2>8, <2>9, <2>10, <2>11,
       <2>12, <2>13, <2>14, <2>15, <2>16, <2>17
    DEF Step
<1> QED
  BY <1>0, <1>a, <1>c, <1>d DEF LocalInv

\* Every step of a thread keeps the queue in the window of the ring that the
\* counters describe.
LEMMA StepRingInv ==
  ASSUME IInv, NEW t \in Threads, Step(t)
  PROVE  RingInv'
<1>0. TypeOK /\ Mutex /\ RingInv /\ LocalInv
  BY DEF IInv
<1>a. /\ tasks_available \in Nat /\ tasks_available <= Limit
      /\ get_task_position \in Nat /\ get_task_position < Limit
      /\ put_task_position \in Nat /\ put_task_position < Limit
      /\ \A u \in Threads :
           task_position[u] \in Nat /\ task_position[u] < Limit
      /\ Limit \in Nat /\ Limit > 0
  BY <1>0, LimitAssumption DEF TypeOK, Slots
<1>b. \A u \in Threads \ {t} :
        /\ pc'[u] = pc[u] /\ task_position'[u] = task_position[u]
        /\ task'[u] = task[u]
  BY <1>0, OthersStay
\* While t has the lock, no other thread is midway.
<1>c. ASSUME pc[t] \in Critical
      PROVE  \A u \in Threads \ {t} : pc'[u] \notin Midway
  BY <1>0, <1>b, <1>c DEF Mutex, Critical, Midway
<1>1. CASE /\ UNCHANGED ring
           /\ pc[t] \notin Midway /\ pc'[t] \notin Midway
  BY <1>0, <1>1, <1>b DEF RingInv, Window, Midway, ring
<1>2. CASE PopCheck(t)
  <2>1. /\ pc[t] = "popCheck"
        /\ UNCHANGED <<task_buffer, get_task_position, put_task_position>>
    BY <1>2 DEF PopCheck, Goto
  <2>2. \A u \in Threads \ {t} : pc'[u] \notin Midway
    BY <1>c, <2>1 DEF Critical
  <2>3. Window(get_task_position, tasks_available, put_task_position)
    BY <1>0, <1>b, <2>1, <2>2 DEF RingInv, Midway
  <2>4. CASE 0 < tasks_available
    <3>1. pc'[t] = "popPosition" /\ tasks_available' = tasks_available - 1
      BY <1>0, <1>2, <2>4 DEF PopCheck, Goto, TypeOK
    <3>2. tasks_available' + 1 = tasks_available
      BY <3>1, <1>a
    <3> QED
      BY <2>1, <2>2, <2>3, <3>1, <3>2 DEF RingInv, Window, Midway
  <2>5. CASE ~ (0 < tasks_available)
    <3>1. pc'[t] = "release" /\ tasks_available' = tasks_available
      BY <1>0, <1>2, <2>5 DEF PopCheck, Goto, TypeOK
    <3> QED
      BY <2>1, <2>2, <2>3, <3>1 DEF RingInv, Window, Midway
  <2> QED
    BY <2>4, <2>5
<1>3. CASE PopPosition(t)
  <2>1. /\ pc[t] = "popPosition" /\ pc'[t] = "popFetch"
        /\ task_position'[t] = get_task_position
        /\ get_task_position' = Advance(get_task_position)
        /\ UNCHANGED <<task_buffer, tasks_available, put_task_position>>
    BY <1>0, <1>3 DEF PopPosition, Goto, TypeOK
  <2>2. \A u \in Threads \ {t} : pc'[u] \notin Midway
    BY <1>c, <2>1 DEF Critical
  <2>3. Window(get_task_position, tasks_available + 1, put_task_position)
    BY <1>0, <2>1 DEF RingInv
  <2> QED
    BY <2>1, <2>2, <2>3 DEF RingInv, Window, Midway, Advance
<1>4. CASE PopFetch(t)
  <2>1. /\ pc[t] = "popFetch" /\ pc'[t] = "release"
        /\ task_buffer' = [task_buffer EXCEPT ![task_position[t]] = NoTask]
        /\ UNCHANGED <<tasks_available, get_task_position, put_task_position>>
    BY <1>0, <1>4 DEF PopFetch, Goto, TypeOK
  <2>2. \A u \in Threads \ {t} : pc'[u] \notin Midway
    BY <1>c, <2>1 DEF Critical
  <2>3. /\ get_task_position = Advance(task_position[t])
        /\ Window(task_position[t], tasks_available + 1, put_task_position)
    BY <1>0, <2>1 DEF RingInv
  <2>4. /\ tasks_available <= Limit
        /\ put_task_position = Wrap(get_task_position + tasks_available)
    BY <2>3, <1>a DEF Window, Advance, Wrap
  <2>5. ASSUME NEW s \in Slots,
               InWindow(get_task_position, tasks_available, s)
        PROVE  task_buffer'[s] \in Tasks
    <3>1. s # task_position[t] /\ InWindow(task_position[t], tasks_available + 1, s)
      BY <1>a, <2>3, <2>5 DEF InWindow, Advance, Window, Slots
    <3>2. task_buffer[s] \in Tasks
      BY <2>3, <3>1 DEF Window
    <3> QED
      BY <1>0, <2>1, <3>1, <3>2 DEF TypeOK
  <2>6. Window(get_task_position, tasks_available, put_task_position)'
    BY <2>1, <2>4, <2>5 DEF Window
  <2> QED
    BY <2>1, <2>2, <2>6 DEF RingInv, Midway
<1>5. CASE PushPosition(t)
  <2>1. /\ pc[t] = "pushPosition"
        /\ UNCHANGED <<task_buffer, tasks_available, get_task_position>>
    BY <1>5 DEF PushPosition, Goto
  <2>2. \A u \in Threads \ {t} : pc'[u] \notin Midway
    BY <1>c, <2>1 DEF Critical
  <2>3. Window(get_task_position, tasks_available, put_task_position)
    BY <1>0, <1>b, <2>1, <2>2 DEF RingInv, Midway
  <2>4. CASE Limit > tasks_available
    <3>1. /\ pc'[t] = "pushPut"
          /\ task_position'[t] = put_task_position
          /\ put_task_position' = Advance(put_task_position)
      BY <1>0, <1>5, <2>4 DEF PushPosition, Goto, TypeOK
    <3>2. tasks_available < Limit
      BY <2>4, <1>a
    <3> QED
      BY <2>1, <2>2, <2>3, <3>1, <3>2 DEF RingInv, Window, Midway, Advance
  <2>5. CASE ~ (Limit > tasks_available)
    <3>1. pc'[t] = "release" /\ UNCHANGED put_task_position
      BY <1>0, <1>5, <2>5 DEF PushPosition, Goto, TypeOK
    <3> QED
      BY <2>1, <2>2, <2>3, <3>1 DEF RingInv, Window, Midway
  <2> QED
    BY <2>4, <2>5
<1>6. CASE PushPut(t)
  <2>1. /\ pc[t] = "pushPut" /\ pc'[t] = "pushAvailable"
        /\ task_buffer' = [task_buffer EXCEPT ![task_position[t]] = task[t]]
        /\ UNCHANGED <<tasks_available, get_task_position, put_task_position,
                       task_position, task>>
    BY <1>0, <1>6 DEF PushPut, Goto, TypeOK, locals
  <2>2. \A u \in Threads \ {t} : pc'[u] \notin Midway
    BY <1>c, <2>1 DEF Critical
  <2>3. /\ put_task_position = Advance(task_position[t])
        /\ tasks_available < Limit
        /\ Window(get_task_position, tasks_available, task_position[t])
    BY <1>0, <2>1 DEF RingInv
  <2>4. /\ \A s \in Slots : s # task_position[t] => task_buffer'[s] = task_buffer[s]
        /\ task_buffer'[task_position[t]] = task[t]
    BY <1>0, <2>1 DEF TypeOK
  <2>5. ~ InWindow(get_task_position, tasks_available, task_position[t])
    BY <1>a, <2>3 DEF Window, InWindow, Wrap
  <2>6. Window(get_task_position, tasks_available, task_position[t])'
    BY <2>1, <2>3, <2>4, <2>5 DEF Window
  <2> QED
    BY <2>1, <2>2, <2>3, <2>4, <2>6 DEF RingInv, Midway
<1>7. CASE PushAvailable(t)
  <2>1. /\ pc[t] = "pushAvailable" /\ pc'[t] = "release"
        /\ tasks_available' = tasks_available + 1
        /\ UNCHANGED <<task_buffer, get_task_position, put_task_position>>
    BY <1>0, <1>7 DEF PushAvailable, Goto, TypeOK
  <2>2. \A u \in Threads \ {t} : pc'[u] \notin Midway
    BY <1>c, <2>1 DEF Critical
  <2>3. /\ put_task_position = Advance(task_position[t])
        /\ tasks_available < Limit
        /\ task_buffer[task_position[t]] \in Tasks
        /\ Window(get_task_position, tasks_available, task_position[t])
    BY <1>0, <2>1 DEF RingInv, LocalInv
  <2>4. ASSUME NEW s \in Slots,
               InWindow(get_task_position, tasks_available + 1, s)
        PROVE  task_buffer[s] \in Tasks
    <3>1. s = task_position[t] \/ InWindow(get_task_position, tasks_available, s)
      BY <1>a, <2>3, <2>4 DEF InWindow, Window, Wrap, Slots
    <3> QED
      BY <2>3, <3>1 DEF Window
  <2>5. put_task_position = Wrap(get_task_position + (tasks_available + 1))
    BY <1>a, <2>3 DEF Window, Wrap, Advance
  <2>6. Window(get_task_position, tasks_available, put_task_position)'
    BY <1>a, <2>1, <2>3, <2>4, <2>5 DEF Window
  <2> QED
    BY <2>1, <2>2, <2>6 DEF RingInv, Midway
\* The other steps leave the ring alone and start and end outside of Midway.
<1>8. CASE \/ PopCall(t) \/ PopLock(t) \/ PopGivesUp(t) \/ PushCall(t)
           \/ PushLock(t) \/ ProcessCall(t) \/ ProcessLock(t)
  BY <1>0, <1>1, <1>8 DEF PopCall, PopLock, PopGivesUp, PushCall, PushLock,
     ProcessCall, ProcessLock, Goto, Enter, TypeOK, LocalInv, Midway
<1>9. CASE ProcessVisit(t) \/ ProcessDone(t) \/ Release(t) \/ Return(t)
  BY <1>0, <1>1, <1>9 DEF ProcessVisit, ProcessDone, Release, Return, Goto,
     TypeOK, Midway
<1> QED
  BY <1>2, <1>3, <1>4, <1>5, <1>6, <1>7, <1>8, <1>9 DEF Step

\* The inductive invariant of the task queue: mutual exclusion, the window of
\* the ring that holds the queue, and the local variables at every point.
THEOREM SpecIInv == Spec => []IInv
<1>1. IInv /\ [Next]_vars => IInv'
  <2> SUFFICES ASSUME IInv, [Next]_vars PROVE IInv'
    OBVIOUS
  <2>1. CASE UNCHANGED vars
    BY <2>1 DEF vars, ring, locals, IInv, TypeOK, Mutex, RingInv, Window,
       LocalInv
  <2>2. ASSUME NEW t \in Threads, Step(t) PROVE IInv'
    BY <2>2, StepTypeOK, StepMutex, StepRingInv, StepLocalInv DEF IInv
  <2> QED
    BY <2>1, <2>2 DEF Next
<1> QED
  BY InitIInv, <1>1, PTL DEF Spec

\* The variables of the task queue have their types, for every capacity.
THEOREM TypeCorrect == Spec => []TypeOK
<1>1. IInv => TypeOK
  BY DEF IInv
<1> QED
  BY SpecIInv, <1>1, PTL

-----------------------------------------------------------------------------
(* The refinement.  A segment of the ring, read as a sequence.             *)

\* What a slot of the ring can hold.
Cells == Tasks \cup {NoTask}

\* The n tasks of the buffer buf from slot first on.
Segment(buf, first, n) == [k \in 1..n |-> buf[(first + k - 1) % Limit]]

\* A segment is a sequence of the slots' contents.
LEMMA SegmentSeq ==
  ASSUME NEW buf \in [Slots -> Cells], NEW first \in Slots,
         NEW n \in 0..Limit
  PROVE  /\ Segment(buf, first, n) \in Seq(Cells)
         /\ Len(Segment(buf, first, n)) = n
         /\ \A k \in 1..n :
              /\ Wrap(first + k - 1) \in Slots
              /\ Segment(buf, first, n)[k] = buf[Wrap(first + k - 1)]
<1>1. ASSUME NEW k \in 1..n
      PROVE  /\ (first + k - 1) % Limit = Wrap(first + k - 1)
             /\ Wrap(first + k - 1) \in Slots
  <2>1. first + k - 1 \in Nat /\ first + k - 1 < 2 * Limit
    BY LimitAssumption DEF Slots
  <2>2. Wrap(first + k - 1) \in Slots
    BY <2>1, LimitAssumption DEF Wrap, Slots
  <2> QED
    BY <2>1, <2>2, ModWrap
<1>2. \A k \in 1..n : Segment(buf, first, n)[k] = buf[Wrap(first + k - 1)]
  BY <1>1 DEF Segment
<1>3. \A k \in 1..n : buf[(first + k - 1) % Limit] \in Cells
  BY <1>1
<1>4. n \in Nat
  BY LimitAssumption
<1>5. Segment(buf, first, n) \in Seq(Cells)
  BY <1>3, <1>4 DEF Segment
<1>6. Len(Segment(buf, first, n)) = n
  BY <1>4, <1>5, LenProperties DEF Segment
<1> QED
  BY <1>1, <1>2, <1>5, <1>6

\* Two buffers that agree on the window have the same segment there.
LEMMA SegmentSame ==
  ASSUME NEW buf \in [Slots -> Cells], NEW buf2 \in [Slots -> Cells],
         NEW first \in Slots, NEW n \in 0..Limit,
         \A s \in Slots : InWindow(first, n, s) => buf2[s] = buf[s]
  PROVE  Segment(buf2, first, n) = Segment(buf, first, n)
<1>1. ASSUME NEW k \in 1..n
      PROVE  Segment(buf2, first, n)[k] = Segment(buf, first, n)[k]
  <2>1. InWindow(first, n, Wrap(first + k - 1))
    BY LimitAssumption DEF InWindow, Wrap, Slots
  <2> QED
    <3>1. /\ Segment(buf, first, n)[k] = buf[Wrap(first + k - 1)]
          /\ Segment(buf2, first, n)[k] = buf2[Wrap(first + k - 1)]
          /\ Wrap(first + k - 1) \in Slots
      BY SegmentSeq
    <3> QED
      BY <2>1, <3>1
<1> QED
  BY <1>1 DEF Segment

\* Moving the first slot on drops the head of the segment.
LEMMA SegmentTail ==
  ASSUME NEW buf \in [Slots -> Cells], NEW first \in Slots,
         NEW n \in 1..Limit
  PROVE  /\ Segment(buf, first, n) # <<>>
         /\ Segment(buf, Advance(first), n - 1) = Tail(Segment(buf, first, n))
         /\ Head(Segment(buf, first, n)) = buf[first]
<1> DEFINE q == Segment(buf, first, n)
           r == Segment(buf, Advance(first), n - 1)
<1>0. n \in 0..Limit /\ n - 1 \in 0..Limit /\ Advance(first) \in Slots
  BY AdvanceInRing, LimitAssumption
<1>1. /\ q \in Seq(Cells) /\ Len(q) = n
      /\ \A k \in 1..n : q[k] = buf[Wrap(first + k - 1)]
  BY <1>0, SegmentSeq
<1>2. /\ r \in Seq(Cells) /\ Len(r) = n - 1
      /\ \A k \in 1..(n - 1) : r[k] = buf[Wrap(Advance(first) + k - 1)]
  BY <1>0, SegmentSeq
<1> HIDE DEF q, r
<1>3. q # <<>>
  <2>1. Len(q) # 0
    BY <1>1, LimitAssumption
  <2> QED
    BY <2>1, EmptySeq
<1>4. /\ Tail(q) \in Seq(Cells) /\ Len(Tail(q)) = n - 1
      /\ \A k \in 1..(n - 1) : Tail(q)[k] = q[k + 1]
      /\ Head(q) = q[1]
  <2>1. /\ Tail(q) \in Seq(Cells) /\ Len(Tail(q)) = Len(q) - 1
        /\ \A k \in 1..Len(Tail(q)) : Tail(q)[k] = q[k + 1]
    BY <1>1, <1>3, HeadTailProperties
  <2>2. Head(q) = q[1]
    BY <1>1, <1>3
  <2> QED
    BY <1>1, <2>1, <2>2
<1>5. ASSUME NEW k \in 1..(n - 1)
      PROVE  r[k] = Tail(q)[k]
  <2>1. Wrap(Advance(first) + k - 1) = Wrap(first + (k + 1) - 1)
    BY LimitAssumption DEF Wrap, Advance, Slots
  <2>2. k + 1 \in 1..n
    BY LimitAssumption
  <2> QED
    BY <1>1, <1>2, <1>4, <2>1, <2>2
<1>6. r = Tail(q)
  BY <1>2, <1>4, <1>5, SeqEqual
<1>7. Wrap(first + 1 - 1) = first /\ 1 \in 1..n
  BY LimitAssumption DEF Wrap, Slots
<1> QED
  BY <1>1, <1>3, <1>4, <1>6, <1>7 DEF q, r

\* Counting in the slot behind the segment appends its content.
LEMMA SegmentAppend ==
  ASSUME NEW buf \in [Slots -> Cells], NEW first \in Slots,
         NEW n \in 0..(Limit - 1)
  PROVE  Segment(buf, first, n + 1)
           = Append(Segment(buf, first, n), buf[Wrap(first + n)])
<1> DEFINE q == Segment(buf, first, n)
           r == Segment(buf, first, n + 1)
           x == buf[Wrap(first + n)]
<1>0. n \in 0..Limit /\ n + 1 \in 0..Limit /\ n + 1 \in 1..(n + 1)
  BY LimitAssumption
<1>1. /\ q \in Seq(Cells) /\ Len(q) = n
      /\ \A k \in 1..n : q[k] = buf[Wrap(first + k - 1)]
  BY <1>0, SegmentSeq
<1>2. /\ r \in Seq(Cells) /\ Len(r) = n + 1
      /\ \A k \in 1..(n + 1) : r[k] = buf[Wrap(first + k - 1)]
  BY <1>0, SegmentSeq
<1>3. r[n + 1] = x
  <2>1. first + (n + 1) - 1 = first + n
    BY LimitAssumption DEF Slots
  <2> QED
    BY <1>0, <1>2, <2>1
<1>4. x \in Cells
  <2>1. Wrap(first + n) \in Slots
    BY LimitAssumption DEF Wrap, Slots
  <2> QED
    BY <2>1
<1> HIDE DEF q, r, x
<1>5. /\ Append(q, x) \in Seq(Cells) /\ Len(Append(q, x)) = n + 1
      /\ \A k \in 1..n : Append(q, x)[k] = q[k]
      /\ Append(q, x)[n + 1] = x
  <2>1. /\ Append(q, x) \in Seq(Cells) /\ Len(Append(q, x)) = Len(q) + 1
        /\ \A k \in 1..Len(q) : Append(q, x)[k] = q[k]
        /\ Append(q, x)[Len(q) + 1] = x
    BY <1>1, <1>4, AppendProperties
  <2> QED
    BY <1>1, <2>1
<1>6. ASSUME NEW k \in 1..(n + 1)
      PROVE  r[k] = Append(q, x)[k]
  <2>1. k \in 1..n \/ k = n + 1
    BY LimitAssumption
  <2>2. CASE k \in 1..n
    BY <1>1, <1>2, <1>5, <2>2
  <2>3. CASE k = n + 1
    BY <1>3, <1>5, <2>3
  <2> QED
    BY <2>1, <2>2, <2>3
<1> QED
  BY <1>2, <1>5, <1>6, SeqEqual DEF q, r, x

-----------------------------------------------------------------------------
(* The refinement, step by step.                                           *)


\* The task and the outcome of a thread as TaskFifo sees them, by its
\* operation and its program point.
Mapped(t) ==
  /\ pc[t] = "popPosition" /\ fn[t] # "process"
       => CallersTask[t] = task_buffer[get_task_position]
  /\ pc[t] = "popFetch" /\ fn[t] # "process"
       => CallersTask[t] = task_buffer[task_position[t]]
  /\ pc[t] \notin {"popPosition", "popFetch"}
       => CallersTask[t] = IF fn[t] = "process" THEN NoTask ELSE task[t]
  /\ Outcome[t] =
       IF fn[t] = "none"
          \/ pc[t] \notin {"popPosition", "popFetch", "release", "return"}
         THEN "pending"
         ELSE IF \/ fn[t] = "push" /\ result[t]
                 \/ fn[t] = "pop" /\ CallersTask[t] # NoTask
                 \/ fn[t] = "process"
                THEN "ok" ELSE "failed"

\* What the refinement mapping makes of every thread.
LEMMA MappedNow == \A t \in Threads : Mapped(t)
<1> TAKE t \in Threads
<1>1. CallersTask[t] =
        CASE fn[t] = "process"       -> NoTask
          [] pc[t] = "popPosition"   -> task_buffer[get_task_position]
          [] pc[t] = "popFetch"      -> task_buffer[task_position[t]]
          [] OTHER                   -> task[t]
  BY DEF CallersTask
<1>2. /\ pc[t] = "popPosition" /\ fn[t] # "process"
           => CallersTask[t] = task_buffer[get_task_position]
      /\ pc[t] = "popFetch" /\ fn[t] # "process"
           => CallersTask[t] = task_buffer[task_position[t]]
  BY <1>1
<1>3. pc[t] \notin {"popPosition", "popFetch"}
        => CallersTask[t] = IF fn[t] = "process" THEN NoTask ELSE task[t]
  BY <1>1
<1> QED
  BY <1>2, <1>3 DEF Mapped, Outcome

\* The same after a step.
LEMMA MappedNext == (\A t \in Threads : Mapped(t))'
BY MappedNow, PTL

\* The slot of the oldest task, while t has the lock and while nobody has it.
LEMMA FirstSlot ==
  ASSUME TypeOK, Mutex
  PROVE  /\ First \in Slots
         /\ \A t \in Threads : pc[t] = "popPosition"
              => First = Advance(get_task_position)
         /\ \A t \in Threads : pc[t] \in Critical \ {"popPosition"}
              => First = get_task_position
BY AdvanceInRing DEF First, TypeOK, Mutex, Critical

\* TaskFifo sees no change of the other threads: the lock owner alone changes
\* the ring, and a thread outside of the lock reads nothing from it.
LEMMA OthersMapped ==
  ASSUME IInv, NEW t \in Threads, Step(t), NEW u \in Threads, u # t
  PROVE  /\ CallersTask'[u] = CallersTask[u]
         /\ Outcome'[u] = Outcome[u]
<1>0. TypeOK /\ Mutex /\ LocalInv
  BY DEF IInv
<1>1. Mapped(u) /\ Mapped(u)'
  BY MappedNow, MappedNext
<1>2. /\ pc'[u] = pc[u] /\ fn'[u] = fn[u] /\ task'[u] = task[u]
      /\ task_position'[u] = task_position[u] /\ result'[u] = result[u]
  BY <1>0, OthersStay
<1>3. \/ UNCHANGED <<task_buffer, get_task_position>>
      \/ pc[u] \notin {"popPosition", "popFetch"}
  <2>1. pc[t] \in Critical => pc[u] \notin {"popPosition", "popFetch"}
    BY <1>0 DEF Mutex, Critical
  <2>2. pc[t] \in Critical \/ UNCHANGED <<task_buffer, get_task_position>>
    <3> USE DEF Goto, ring, Critical
    <3>1. CASE PopCall(t) \/ PushCall(t) \/ ProcessCall(t)
      BY <3>1 DEF PopCall, PushCall, ProcessCall
    <3>2. CASE PopLock(t) \/ PopGivesUp(t) \/ PushLock(t) \/ ProcessLock(t)
      BY <3>2 DEF PopLock, PopGivesUp, PushLock, ProcessLock
    <3>3. CASE PopCheck(t) \/ PopPosition(t) \/ PopFetch(t)
      BY <3>3 DEF PopCheck, PopPosition, PopFetch
    <3>4. CASE PushPosition(t) \/ PushPut(t) \/ PushAvailable(t)
      BY <3>4 DEF PushPosition, PushPut, PushAvailable
    <3>5. CASE ProcessVisit(t) \/ ProcessDone(t) \/ Release(t) \/ Return(t)
      BY <3>5 DEF ProcessVisit, ProcessDone, Release, Return
    <3> QED
      BY <3>1, <3>2, <3>3, <3>4, <3>5 DEF Step
  <2> QED
    BY <2>1, <2>2
<1>4. fn[u] = "process" => pc[u] \notin {"popPosition", "popFetch"}
  BY <1>0 DEF LocalInv
<1>5. CallersTask'[u] = CallersTask[u]
  <2>1. CASE pc[u] = "popPosition"
    BY <1>1, <1>2, <1>3, <1>4, <2>1 DEF Mapped
  <2>2. CASE pc[u] = "popFetch"
    BY <1>1, <1>2, <1>3, <1>4, <2>2 DEF Mapped
  <2>3. CASE pc[u] \notin {"popPosition", "popFetch"}
    BY <1>1, <1>2, <2>3 DEF Mapped
  <2> QED
    BY <2>1, <2>2, <2>3
<1> QED
  BY <1>1, <1>2, <1>5 DEF Mapped

\* A step that maps to given values for its own thread maps to the update of
\* the functions of TaskFifo at that thread.
LEMMA ThreadUpdate ==
  ASSUME IInv, NEW t \in Threads, Step(t)
  PROVE  /\ CallersTask' = [CallersTask EXCEPT ![t] = CallersTask'[t]]
         /\ Outcome' = [Outcome EXCEPT ![t] = Outcome'[t]]
         /\ CallersTask'[t] = CallersTask[t] => CallersTask' = CallersTask
         /\ Outcome'[t] = Outcome[t] => Outcome' = Outcome
<1>1. /\ CallersTask = [u \in Threads |-> CallersTask[u]]
      /\ CallersTask' = [u \in Threads |-> CallersTask'[u]]
  BY DEF CallersTask
<1>2. /\ Outcome = [u \in Threads |-> Outcome[u]]
      /\ Outcome' = [u \in Threads |-> Outcome'[u]]
  BY DEF Outcome
<1>3. \A u \in Threads \ {t} :
        CallersTask'[u] = CallersTask[u] /\ Outcome'[u] = Outcome[u]
  BY OthersMapped
<1> QED
  BY <1>1, <1>2, <1>3

\* Every step of the queue is a step of TaskFifo or one it does not see.
LEMMA StepSimulates ==
  ASSUME IInv, IInv', NEW t \in Threads, Step(t)
  PROVE  [Fifo!FifoNext]_(Fifo!fifoVars)
<1>0. TypeOK /\ Mutex /\ RingInv /\ LocalInv /\ TypeOK' /\ Mutex' /\ LocalInv'
  BY DEF IInv
<1>a. /\ CallersTask' = [CallersTask EXCEPT ![t] = CallersTask'[t]]
      /\ Outcome' = [Outcome EXCEPT ![t] = Outcome'[t]]
      /\ CallersTask'[t] = CallersTask[t] => CallersTask' = CallersTask
      /\ Outcome'[t] = Outcome[t] => Outcome' = Outcome
  BY ThreadUpdate
<1>b. Mapped(t) /\ Mapped(t)'
  BY MappedNow, MappedNext
<1>c. /\ Content = Segment(task_buffer, First, tasks_available)
      /\ Content' = Segment(task_buffer', First', tasks_available')
  BY DEF Content, Segment
<1>d. /\ task_buffer \in [Slots -> Cells] /\ task_buffer' \in [Slots -> Cells]
      /\ tasks_available \in 0..Limit /\ tasks_available' \in 0..Limit
      /\ First \in Slots /\ First' \in Slots
      /\ get_task_position \in Slots /\ task_position[t] \in Slots
  BY <1>0, FirstSlot, AdvanceInRing DEF TypeOK, Cells, First
<1>e. \A u \in Threads \ {t} : pc'[u] = pc[u] /\ fn'[u] = fn[u]
  BY <1>0, OthersStay
<1>f. Len(Content) = tasks_available
  BY <1>c, <1>d, SegmentSeq
\* A step that leaves the ring alone, at points other than popPosition.
<1>g. ASSUME UNCHANGED ring, pc[t] # "popPosition", pc'[t] # "popPosition"
      PROVE  Content' = Content
  <2>1. First' = First
    BY <1>e, <1>g DEF First, ring
  <2> QED
    BY <1>c, <1>g, <2>1 DEF ring
\* A step that TaskFifo does not see.
<1>h. ASSUME Content' = Content, UNCHANGED fn,
             CallersTask'[t] = CallersTask[t], Outcome'[t] = Outcome[t]
      PROVE  UNCHANGED Fifo!fifoVars
  <2>1. CallersTask' = CallersTask /\ Outcome' = Outcome
    BY <1>a, <1>h
  <2> QED
    BY <1>h, <2>1 DEF Fifo!fifoVars
\* The calls.
<1>1. CASE PopCall(t)
  <2>1. /\ fn[t] = "none" /\ pc[t] = "idle" /\ pc'[t] = "popLock"
        /\ fn' = [fn EXCEPT ![t] = "pop"] /\ fn'[t] = "pop"
        /\ task'[t] = NoTask /\ UNCHANGED ring
    BY <1>0, <1>1 DEF PopCall, Enter, TypeOK, LocalInv
  <2>2. CallersTask'[t] = NoTask /\ Outcome'[t] = Outcome[t]
    BY <1>b, <2>1 DEF Mapped
  <2>3. Outcome' = Outcome
    BY <1>a, <2>2
  <2>4. Fifo!Call(t, "pop", NoTask)
    BY <1>a, <1>g, <2>1, <2>2, <2>3 DEF Fifo!Call
  <2> QED
    BY <2>4 DEF Fifo!FifoNext
<1>2. CASE PushCall(t)
  <2>1. PICK x \in Tasks : task' = [task EXCEPT ![t] = x]
    BY <1>2 DEF PushCall
  <2>2. /\ fn[t] = "none" /\ pc[t] = "idle" /\ pc'[t] = "pushLock"
        /\ fn' = [fn EXCEPT ![t] = "push"] /\ fn'[t] = "push"
        /\ task'[t] = x /\ UNCHANGED ring
    BY <1>0, <1>2, <2>1 DEF PushCall, Enter, TypeOK, LocalInv
  <2>3. CallersTask'[t] = x /\ Outcome'[t] = Outcome[t]
    BY <1>b, <2>2 DEF Mapped
  <2>4. Outcome' = Outcome
    BY <1>a, <2>3
  <2>5. Fifo!Call(t, "push", x)
    BY <1>a, <1>g, <2>2, <2>3, <2>4 DEF Fifo!Call
  <2> QED
    BY <2>5 DEF Fifo!FifoNext
<1>3. CASE ProcessCall(t)
  <2>1. /\ fn[t] = "none" /\ pc[t] = "idle" /\ pc'[t] = "processLock"
        /\ fn' = [fn EXCEPT ![t] = "process"] /\ fn'[t] = "process"
        /\ UNCHANGED ring
    BY <1>0, <1>3 DEF ProcessCall, Enter, TypeOK, LocalInv
  <2>2. CallersTask'[t] = NoTask /\ Outcome'[t] = Outcome[t]
    BY <1>b, <2>1 DEF Mapped
  <2>3. Outcome' = Outcome
    BY <1>a, <2>2
  <2>4. Fifo!Call(t, "process", NoTask)
    BY <1>a, <1>g, <2>1, <2>2, <2>3 DEF Fifo!Call
  <2> QED
    BY <2>4 DEF Fifo!FifoNext
\* The lock.
<1>4. CASE PopLock(t) \/ PushLock(t) \/ ProcessLock(t) \/ Release(t)
  <2>1. /\ pc[t] \notin {"popPosition", "popFetch", "return"}
        /\ pc'[t] \notin {"popPosition", "popFetch"}
        /\ pc[t] = "release" <=> pc'[t] = "return"
        /\ pc'[t] # "release"
        /\ UNCHANGED <<ring, fn, task, result>>
    BY <1>0, <1>4 DEF PopLock, PushLock, ProcessLock, Release, Goto, TypeOK,
       locals
  <2>2. CallersTask'[t] = CallersTask[t]
    BY <1>b, <2>1 DEF Mapped
  <2>3. Outcome'[t] = Outcome[t]
    BY <1>b, <2>1, <2>2 DEF Mapped
  <2> QED
    BY <1>g, <1>h, <2>1, <2>2, <2>3
<1>5. CASE PopGivesUp(t)
  <2>1. /\ pc[t] = "popLock" /\ pc'[t] = "return" /\ lock = 1
        /\ UNCHANGED <<ring, fn, task, result>>
    BY <1>0, <1>5 DEF PopGivesUp, Goto, TypeOK, locals, spinlock_gives_up
  <2>2. fn[t] = "pop" /\ task[t] = NoTask
    BY <1>0, <2>1 DEF LocalInv
  <2>3. CallersTask'[t] = CallersTask[t] /\ CallersTask[t] = NoTask
    BY <1>b, <2>1, <2>2 DEF Mapped
  <2>4. Outcome[t] = "pending" /\ Outcome'[t] = "failed"
    BY <1>b, <2>1, <2>2, <2>3 DEF Mapped
  <2>5. \E u \in Threads \ {t} : fn[u] # "none"
    <3>1. PICK u \in Threads : pc[u] \in Critical
      BY <1>0, <2>1 DEF Mutex
    <3>2. u # t /\ fn[u] # "none"
      BY <1>0, <2>1, <3>1 DEF Critical, LocalInv
    <3> QED
      BY <3>2
  <2>6. CallersTask' = CallersTask
    BY <1>a, <2>3
  <2>7. Fifo!PopNothing(t)
    BY <1>a, <1>g, <2>1, <2>2, <2>4, <2>5, <2>6
    DEF Fifo!PopNothing, Fifo!TakesEffect
  <2> QED
    BY <2>7 DEF Fifo!FifoNext
\* The pop.
<1>6. CASE PopCheck(t)
  <2>1. /\ pc[t] = "popCheck" /\ UNCHANGED <<task_buffer, get_task_position,
                                             fn, task>>
        /\ fn[t] = "pop" /\ task[t] = NoTask
    BY <1>0, <1>6 DEF PopCheck, Goto, locals, LocalInv
  <2>2. First = get_task_position
    BY <1>0, <2>1, FirstSlot DEF Critical
  <2>3. Outcome[t] = "pending" /\ CallersTask[t] = NoTask
    BY <1>b, <2>1 DEF Mapped
  <2>4. CASE 0 < tasks_available
    <3>1. pc'[t] = "popPosition" /\ tasks_available' = tasks_available - 1
      BY <1>0, <1>6, <2>4 DEF PopCheck, Goto, TypeOK
    <3>2. First' = Advance(get_task_position)
      BY <2>1, <3>1 DEF First
    <3>3. tasks_available \in 1..Limit
      BY <1>d, <2>4, LimitAssumption
    <3>4. /\ Content # <<>> /\ Content' = Tail(Content)
          /\ Head(Content) = task_buffer[get_task_position]
      BY <1>c, <1>d, <2>1, <2>2, <3>1, <3>2, <3>3, SegmentTail
    <3>5. CallersTask'[t] = Head(Content)
      BY <1>b, <2>1, <3>1, <3>4 DEF Mapped
    <3>6. task_buffer[get_task_position] \in Tasks
      <4>1. Window(get_task_position, tasks_available, put_task_position)
        BY <1>0, <2>1 DEF RingInv, Mutex, Critical, Midway
      <4>2. InWindow(get_task_position, tasks_available, get_task_position)
        BY <1>d, <2>4, LimitAssumption DEF InWindow, Slots
      <4> QED
        BY <1>d, <4>1, <4>2 DEF Window
    <3>7. Outcome'[t] = "ok"
      BY <1>b, <2>1, <3>1, <3>4, <3>5, <3>6, NoTaskAssumption DEF Mapped
    <3>8. Fifo!Pop(t)
      BY <1>a, <2>1, <2>3, <3>4, <3>5, <3>7 DEF Fifo!Pop, Fifo!TakesEffect
    <3> QED
      BY <3>8 DEF Fifo!FifoNext
  <2>5. CASE ~ (0 < tasks_available)
    <3>1. pc'[t] = "release" /\ UNCHANGED ring
      BY <1>0, <1>6, <2>5 DEF PopCheck, Goto, TypeOK, ring
    <3>2. Content = <<>>
      <4>1. tasks_available = 0
        BY <1>d, <2>5, LimitAssumption
      <4>2. Content \in Seq(Cells) /\ Len(Content) = 0
        BY <1>c, <1>d, <4>1, SegmentSeq
      <4> QED
        BY <4>2, EmptySeq
    <3>3. CallersTask'[t] = NoTask
      BY <1>b, <2>1, <3>1 DEF Mapped
    <3>4. Outcome'[t] = "failed"
      BY <1>b, <2>1, <3>1, <3>3 DEF Mapped
    <3>5. CallersTask' = CallersTask
      BY <1>a, <2>3, <3>3
    <3>6. Fifo!PopNothing(t)
      BY <1>a, <1>g, <2>1, <2>3, <3>1, <3>2, <3>4, <3>5
      DEF Fifo!PopNothing, Fifo!TakesEffect
    <3> QED
      BY <3>6 DEF Fifo!FifoNext
  <2> QED
    BY <2>4, <2>5
<1>7. CASE PopPosition(t)
  <2>1. /\ pc[t] = "popPosition" /\ pc'[t] = "popFetch"
        /\ task_position'[t] = get_task_position
        /\ get_task_position' = Advance(get_task_position)
        /\ UNCHANGED <<task_buffer, tasks_available, fn>>
        /\ fn[t] = "pop"
    BY <1>0, <1>7 DEF PopPosition, Goto, TypeOK, LocalInv
  <2>2. First' = First
    <3>1. First = Advance(get_task_position)
      BY <1>0, <2>1, FirstSlot
    <3>2. \A u \in Threads : pc'[u] # "popPosition"
      BY <1>0, <1>e, <2>1 DEF Mutex, Critical
    <3> QED
      BY <2>1, <3>1, <3>2 DEF First
  <2>3. CallersTask'[t] = CallersTask[t]
    BY <1>b, <2>1 DEF Mapped
  <2>4. Outcome'[t] = Outcome[t]
    BY <1>b, <2>1, <2>3 DEF Mapped
  <2> QED
    BY <1>c, <1>h, <2>1, <2>2, <2>3, <2>4
<1>8. CASE PopFetch(t)
  <2>1. /\ pc[t] = "popFetch" /\ pc'[t] = "release"
        /\ task_buffer' = [task_buffer EXCEPT ![task_position[t]] = NoTask]
        /\ task'[t] = task_buffer[task_position[t]]
        /\ UNCHANGED <<tasks_available, get_task_position, fn>>
        /\ fn[t] = "pop"
    BY <1>0, <1>8 DEF PopFetch, Goto, TypeOK, LocalInv
  <2>2. First = get_task_position /\ First' = First
    <3>1. First = get_task_position
      BY <1>0, <2>1, FirstSlot DEF Critical
    <3>2. \A u \in Threads : pc'[u] # "popPosition"
      BY <1>0, <1>e, <2>1 DEF Mutex, Critical
    <3> QED
      BY <2>1, <3>1, <3>2 DEF First
  <2>3. /\ get_task_position = Advance(task_position[t])
        /\ tasks_available + 1 <= Limit
    BY <1>0, <2>1 DEF RingInv, Window
  <2>4. ~ InWindow(get_task_position, tasks_available, task_position[t])
    BY <1>d, <2>3, LimitAssumption DEF InWindow, Advance, Slots
  <2>5. \A s \in Slots : InWindow(First, tasks_available, s)
          => task_buffer'[s] = task_buffer[s]
    BY <1>d, <2>1, <2>2, <2>4
  <2>6. Content' = Content
    <3>1. Segment(task_buffer', First, tasks_available)
            = Segment(task_buffer, First, tasks_available)
      BY <1>d, <2>5, SegmentSame
    <3> QED
      BY <1>c, <2>1, <2>2, <3>1
  <2>7. CallersTask'[t] = CallersTask[t]
    BY <1>b, <2>1 DEF Mapped
  <2>8. Outcome'[t] = Outcome[t]
    BY <1>b, <2>1, <2>7 DEF Mapped
  <2> QED
    BY <1>h, <2>1, <2>6, <2>7, <2>8
\* The push.
<1>9. CASE PushPosition(t)
  <2>1. /\ pc[t] = "pushPosition" /\ fn[t] = "push" /\ ~ result[t]
        /\ UNCHANGED <<task_buffer, tasks_available, get_task_position,
                       fn, task, result>>
    BY <1>0, <1>9 DEF PushPosition, Goto, LocalInv
  <2>2. /\ pc'[t] \in {"pushPut", "release"}
        /\ pc'[t] = "release" => ~ (Limit > tasks_available)
    BY <1>0, <1>9 DEF PushPosition, Goto, TypeOK
  <2>3. Content' = Content
    <3>1. First' = First
      BY <1>e, <2>1, <2>2 DEF First
    <3> QED
      BY <1>c, <2>1, <3>1
  <2>4. CallersTask'[t] = CallersTask[t]
    BY <1>b, <2>1, <2>2 DEF Mapped
  <2>5. Outcome[t] = "pending"
    BY <1>b, <2>1 DEF Mapped
  <2>6. CASE pc'[t] = "pushPut"
    <3>1. Outcome'[t] = "pending"
      BY <1>b, <2>6 DEF Mapped
    <3> QED
      BY <1>h, <2>1, <2>3, <2>4, <2>5, <3>1
  <2>7. CASE pc'[t] = "release"
    <3>1. Outcome'[t] = "failed"
      BY <1>b, <2>1, <2>7 DEF Mapped
    <3>2. Len(Content) = Limit
      BY <1>d, <1>f, <2>2, <2>7, LimitAssumption
    <3>3. CallersTask' = CallersTask
      BY <1>a, <2>4
    <3>4. Fifo!PushFull(t)
      BY <1>a, <2>1, <2>3, <2>5, <3>1, <3>2, <3>3
      DEF Fifo!PushFull, Fifo!TakesEffect
    <3> QED
      BY <3>4 DEF Fifo!FifoNext
  <2> QED
    BY <2>2, <2>6, <2>7
<1>10. CASE PushPut(t)
  <2>1. /\ pc[t] = "pushPut" /\ pc'[t] = "pushAvailable"
        /\ task_buffer' = [task_buffer EXCEPT ![task_position[t]] = task[t]]
        /\ UNCHANGED <<tasks_available, get_task_position, fn, task>>
        /\ fn[t] = "push"
    BY <1>0, <1>10 DEF PushPut, Goto, TypeOK, LocalInv, locals
  <2>2. First = get_task_position /\ First' = First
    <3>1. First = get_task_position
      BY <1>0, <2>1, FirstSlot DEF Critical
    <3> QED
      BY <1>e, <2>1, <3>1 DEF First
  <2>3. /\ task_position[t] = Wrap(get_task_position + tasks_available)
        /\ tasks_available < Limit
    BY <1>0, <2>1 DEF RingInv, Window
  <2>4. ~ InWindow(get_task_position, tasks_available, task_position[t])
    BY <1>d, <2>3, LimitAssumption DEF InWindow, Wrap, Slots
  <2>5. \A s \in Slots : InWindow(First, tasks_available, s)
          => task_buffer'[s] = task_buffer[s]
    BY <1>d, <2>1, <2>2, <2>4
  <2>6. Content' = Content
    <3>1. Segment(task_buffer', First, tasks_available)
            = Segment(task_buffer, First, tasks_available)
      BY <1>d, <2>5, SegmentSame
    <3> QED
      BY <1>c, <2>1, <2>2, <3>1
  <2>7. CallersTask'[t] = CallersTask[t] /\ Outcome'[t] = Outcome[t]
    BY <1>b, <2>1 DEF Mapped
  <2> QED
    BY <1>h, <2>1, <2>6, <2>7
<1>11. CASE PushAvailable(t)
  <2>1. /\ pc[t] = "pushAvailable" /\ pc'[t] = "release"
        /\ tasks_available' = tasks_available + 1 /\ result'[t]
        /\ UNCHANGED <<task_buffer, get_task_position, fn, task>>
        /\ fn[t] = "push"
    BY <1>0, <1>11 DEF PushAvailable, Goto, TypeOK, LocalInv
  <2>2. First = get_task_position /\ First' = First
    <3>1. First = get_task_position
      BY <1>0, <2>1, FirstSlot DEF Critical
    <3> QED
      BY <1>e, <2>1, <3>1 DEF First
  <2>3. /\ task_buffer[Wrap(First + tasks_available)] = task[t]
        /\ tasks_available < Limit
    BY <1>0, <2>1, <2>2 DEF RingInv, Window
  <2>4. tasks_available \in 0..(Limit - 1)
    BY <1>d, <2>3, LimitAssumption
  <2>5. CallersTask[t] = task[t] /\ CallersTask'[t] = CallersTask[t]
    BY <1>b, <2>1 DEF Mapped
  <2>6. Content' = Append(Content, CallersTask[t])
    BY <1>c, <1>d, <2>1, <2>2, <2>3, <2>4, <2>5, SegmentAppend
  <2>7. Outcome[t] = "pending" /\ Outcome'[t] = "ok"
    BY <1>b, <2>1 DEF Mapped
  <2>8. CallersTask' = CallersTask
    BY <1>a, <2>5
  <2>9. Fifo!Push(t)
    BY <1>a, <1>f, <2>1, <2>3, <2>6, <2>7, <2>8
    DEF Fifo!Push, Fifo!TakesEffect
  <2> QED
    BY <2>9 DEF Fifo!FifoNext
\* The visit.
<1>12. CASE ProcessVisit(t) \/ ProcessDone(t)
  <2>1. /\ pc[t] = "process" /\ pc'[t] \in {"process", "release"}
        /\ UNCHANGED <<ring, fn>> /\ fn[t] = "process"
    BY <1>0, <1>12 DEF ProcessVisit, ProcessDone, Goto, TypeOK, LocalInv
  <2>2. Content' = Content
    BY <1>g, <2>1
  <2>3. CallersTask'[t] = CallersTask[t]
    BY <1>b, <2>1 DEF Mapped
  <2>4. CallersTask' = CallersTask
    BY <1>a, <2>3
  <2>5. Outcome[t] = "pending"
    BY <1>b, <2>1 DEF Mapped
  <2>6. CASE pc'[t] = "process"
    <3>1. Outcome'[t] = "pending"
      BY <1>b, <2>6 DEF Mapped
    <3> QED
      BY <1>h, <2>1, <2>2, <2>3, <2>5, <3>1
  <2>7. CASE pc'[t] = "release"
    <3>1. Outcome'[t] = "ok"
      BY <1>b, <2>1, <2>7 DEF Mapped
    <3>2. Fifo!Process(t)
      BY <1>a, <2>1, <2>2, <2>4, <2>5, <3>1
      DEF Fifo!Process, Fifo!TakesEffect
    <3> QED
      BY <3>2 DEF Fifo!FifoNext
  <2> QED
    BY <2>1, <2>6, <2>7
\* The caller takes the result.
<1>13. CASE Return(t)
  <2>1. /\ pc[t] = "return" /\ pc'[t] = "idle" /\ fn[t] # "none"
        /\ fn' = [fn EXCEPT ![t] = "none"] /\ fn'[t] = "none"
        /\ task'[t] = NoTask /\ UNCHANGED ring
    BY <1>0, <1>13 DEF Return, TypeOK, LocalInv
  <2>2. CallersTask'[t] = NoTask /\ Outcome'[t] = "pending"
    BY <1>b, <2>1 DEF Mapped
  <2>3. Outcome[t] # "pending"
    BY <1>b, <2>1 DEF Mapped
  <2>4. Fifo!Return(t)
    BY <1>a, <1>g, <2>1, <2>2, <2>3 DEF Fifo!Return
  <2> QED
    BY <2>4 DEF Fifo!FifoNext
<1> QED
  BY <1>1, <1>2, <1>3, <1>4, <1>5, <1>6, <1>7, <1>8, <1>9, <1>10, <1>11,
     <1>12, <1>13 DEF Step

\* The ring of embb_mtapi_task_queue_t.c behind its spin lock implements the
\* bounded first-in first-out queue of TaskFifo, for every capacity, every
\* set of threads and every set of tasks.
THEOREM ImplementsFifoHolds == Spec => ImplementsFifo
<1>1. Init => Fifo!FifoInit
  <2> SUFFICES ASSUME Init PROVE Fifo!FifoInit
    OBVIOUS
  <2>1. TypeOK
    BY InitIInv DEF IInv
  <2>2. Content = <<>>
    <3>1. Content = Segment(task_buffer, First, 0)
      BY DEF Init, Content, Segment
    <3>2. First = 0 /\ First \in Slots /\ 0 \in 0..Limit
      BY LimitAssumption DEF Init, First, Slots
    <3>3. Content \in Seq(Cells) /\ Len(Content) = 0
      BY <2>1, <3>1, <3>2, SegmentSeq DEF TypeOK, Cells
    <3> QED
      BY <3>3, EmptySeq
  <2>3. \A t \in Threads : CallersTask[t] = NoTask /\ Outcome[t] = "pending"
    BY MappedNow DEF Init, Mapped
  <2> QED
    BY <2>2, <2>3 DEF Init, Fifo!FifoInit, CallersTask, Outcome
<1>2. IInv /\ IInv' /\ [Next]_vars => [Fifo!FifoNext]_(Fifo!fifoVars)
  <2> SUFFICES ASSUME IInv, IInv', [Next]_vars
               PROVE  [Fifo!FifoNext]_(Fifo!fifoVars)
    OBVIOUS
  <2>1. CASE UNCHANGED vars
    <3>1. Content' = Content /\ CallersTask' = CallersTask /\ fn' = fn
      BY <2>1 DEF vars, ring, locals, Content, First, CallersTask
    <3>2. Outcome' = Outcome
      BY <2>1, <3>1 DEF vars, ring, locals, Outcome
    <3> QED
      BY <3>1, <3>2 DEF Fifo!fifoVars
  <2>2. ASSUME NEW t \in Threads, Step(t)
        PROVE  [Fifo!FifoNext]_(Fifo!fifoVars)
    BY <2>2, StepSimulates
  <2> QED
    BY <2>1, <2>2 DEF Next
<1> QED
  BY SpecIInv, <1>1, <1>2, PTL DEF Spec, ImplementsFifo, Fifo!FifoSpec
=============================================================================
