---------------------------- MODULE IdPoolProofs ----------------------------
(***************************************************************************)
(* Proofs about IdPool for every capacity and every set of threads.        *)
(*                                                                         *)
(* NoIdLost and NoIdShared are not inductive: that allocate finds an id    *)
(* and that deallocate finds room both depend on the ids of the ring       *)
(* filling a window of consecutive slots that ids_available measures.      *)
(* RingInv states that window for each place the lock owner can be in.     *)
(***************************************************************************)
EXTENDS IdPool, TLAPS, FiniteSetTheorems

\* The lock owner is between the acquire and the release.
Critical == PC \ {"idle", "deallocLock"}

\* Where the lock owner has updated the ring in part.
Midway == {"allocPosition", "allocFetch", "deallocPut", "deallocAvailable"}

\* The spin lock of embb_mtapi_spinlock_t.c excludes: at most one thread is
\* in a critical section, and while it is there the lock is taken.
Mutex ==
  \A t \in Threads : pc[t] \in Critical =>
    /\ lock = 1
    /\ \A u \in Threads : pc[u] \in Critical => u = t

\* Slot s is one of the count slots of the ring that start at first.
InWindow(first, count, s) ==
  \/ first <= s /\ s < first + count
  \/ s + Capacity + 1 < first + count

\* The ids of the ring are in the count slots from first up to last.
Ring(first, count, last) ==
  /\ count <= Capacity
  /\ last = IF Capacity < first + count THEN first + count - (Capacity + 1)
                                        ELSE first + count
  /\ \A s \in Slots : id_buffer[s] # Invalid <=> InWindow(first, count, s)

\* The window that ids_available and the two positions describe, for every
\* place the lock owner of embb_mtapi_id_pool_t.c can be in.
RingInv ==
  /\ (\A t \in Threads : pc[t] \notin Midway)
       => Ring(get_id_position, ids_available, put_id_position)
  /\ \A t \in Threads :
       /\ pc[t] = "allocPosition"
            => Ring(get_id_position, ids_available + 1, put_id_position)
       /\ pc[t] = "allocFetch"
            => /\ get_id_position = Advance(id_position[t])
               /\ Ring(id_position[t], ids_available + 1, put_id_position)
       /\ pc[t] = "deallocPut"
            => /\ put_id_position = Advance(id_position[t])
               /\ ids_available < Capacity
               /\ Ring(get_id_position, ids_available, id_position[t])
       /\ pc[t] = "deallocAvailable"
            => Ring(get_id_position, ids_available + 1, put_id_position)

\* The id a thread gives back is an id; one that allocates has none yet.
ReturnsId ==
  \A t \in Threads :
    /\ pc[t] \in {"deallocLock", "deallocPosition", "deallocPut"}
         => id[t] \in Ids
    /\ pc[t] \in {"allocCheck", "allocPosition", "allocFetch"}
         => id[t] = Invalid

\* The inductive invariant.
IInv == TypeOK /\ Mutex /\ RingInv /\ ReturnsId /\ NoIdLost /\ NoIdShared

-----------------------------------------------------------------------------
\* A ring that is full leaves no room for an id in the hands of a thread:
\* the branch of deallocate that drops an id is never taken.
LEMMA RoomForCarriedId ==
  ASSUME IInv, NEW t \in Threads, pc[t] = "deallocPosition"
  PROVE  ids_available < Capacity
<1> SUFFICES ASSUME ids_available = Capacity PROVE FALSE
  BY CapacityAssumption DEF IInv, TypeOK
<1> DEFINE S == Slots \ {put_id_position}
           T == Ids \ {id[t]}
           f == [s \in S |-> id_buffer[s]]
<1>1. Ring(get_id_position, Capacity, put_id_position)
  BY DEF IInv, Mutex, RingInv, Midway, Critical, PC
<1>2. \A s \in S : InWindow(get_id_position, Capacity, s)
  BY <1>1, CapacityAssumption DEF IInv, TypeOK, Ring, InWindow, Slots
<1>3. \A s \in S : id_buffer[s] \in Ids
  <2> TAKE s \in S
  <2>1. id_buffer[s] # Invalid
    BY <1>1, <1>2 DEF Ring
  <2> QED
    BY <2>1, CapacityAssumption DEF IInv, TypeOK, Slots, Ids, Invalid
<1>4. \A s \in S : id_buffer[s] # id[t]
  BY <1>3 DEF IInv, NoIdShared, Carries, InRing
<1>5. f \in [S -> T]
  BY <1>3, <1>4
<1>6. IsFiniteSet(Slots) /\ Cardinality(Slots) = Capacity + 1
  BY FS_Interval, CapacityAssumption DEF Slots
<1>7. IsFiniteSet(Ids) /\ Cardinality(Ids) = Capacity
  BY FS_Interval, CapacityAssumption DEF Ids
<1>8. IsFiniteSet(S) /\ Cardinality(S) = Capacity
  <2>1. put_id_position \in Slots
    BY DEF IInv, TypeOK
  <2> QED
    BY <1>6, <2>1, FS_RemoveElement, CapacityAssumption
<1>9. IsFiniteSet(T) /\ Cardinality(T) = Capacity - 1
  <2>1. id[t] \in Ids
    BY DEF IInv, ReturnsId
  <2> QED
    BY <1>7, <2>1, FS_RemoveElement, CapacityAssumption
<1>10. \E r, s \in S : r # s /\ f[r] = f[s]
  <2> HIDE DEF S, T, f
  <2>1. Cardinality(T) < Cardinality(S)
    BY <1>8, <1>9, CapacityAssumption
  <2> QED
    BY <1>5, <1>8, <1>9, <2>1, FS_PigeonHole
<1> QED
  BY <1>3, <1>10 DEF IInv, NoIdShared

-----------------------------------------------------------------------------
\* embb_mtapi_id_pool_initialize establishes the invariant.
LEMMA InitIInv == Init => IInv
<1> SUFFICES ASSUME Init PROVE IInv
  OBVIOUS
<1> USE CapacityAssumption DEF Init, Slots, Ids, Invalid
<1>1. TypeOK
  BY DEF TypeOK, PC
<1>2. Mutex /\ ReturnsId
  BY DEF Mutex, ReturnsId, Critical
<1>3. RingInv
  BY DEF RingInv, Ring, InWindow, Midway
<1>4. NoIdLost
  BY DEF NoIdLost, InRing
<1>5. NoIdShared
  BY DEF NoIdShared, InRing, Carries
<1> QED
  BY <1>1, <1>2, <1>3, <1>4, <1>5 DEF IInv

\* The names of the program points, and the positions of the ring, are closed
\* under what the steps do with them.
LEMMA PointsAndSlots ==
  /\ {"idle", "allocCheck", "allocPosition", "allocFetch", "allocRelease"}
       \subseteq PC
  /\ {"deallocLock", "deallocPosition", "deallocPut", "deallocAvailable",
      "deallocRelease"} \subseteq PC
  /\ Invalid \in Slots /\ Ids \subseteq Slots
  /\ \A p \in Slots : Advance(p) \in Slots
BY CapacityAssumption DEF PC, Invalid, Slots, Ids, Advance

\* Every step of a thread keeps the variables in their types.
LEMMA StepTypeOK ==
  ASSUME IInv, NEW t \in Threads, Step(t)
  PROVE  TypeOK'
<1>0. TypeOK
  BY DEF IInv
<1> USE <1>0, PointsAndSlots
    DEF TypeOK, Goto, poolVars, spinlock_acquire, spinlock_release
<1>1. CASE AllocateCall(t)        BY <1>1 DEF AllocateCall
<1>2. CASE AllocateCheck(t)
  <2>1. ids_available' \in 0..Capacity
    BY <1>2, CapacityAssumption DEF AllocateCheck
  <2> QED
    BY <1>2, <2>1 DEF AllocateCheck
<1>3. CASE AllocatePosition(t)    BY <1>3 DEF AllocatePosition
<1>4. CASE AllocateFetch(t)       BY <1>4 DEF AllocateFetch
<1>5. CASE AllocateRelease(t)
  <2>1. id[t] # Invalid => id[t] \in Ids
    BY CapacityAssumption DEF Slots, Ids, Invalid
  <2>2. held' \in SUBSET Ids
    BY <1>5, <2>1 DEF AllocateRelease
  <2> QED
    BY <1>5, <2>2 DEF AllocateRelease
<1>6. CASE DeallocateCall(t)      BY <1>6 DEF DeallocateCall
<1>7. CASE DeallocateLock(t)      BY <1>7 DEF DeallocateLock
<1>8. CASE DeallocatePosition(t)  BY <1>8 DEF DeallocatePosition
<1>9. CASE DeallocatePut(t)       BY <1>9 DEF DeallocatePut
<1>10. CASE DeallocateAvailable(t)
  <2>1. ids_available' \in 0..Capacity
    BY <1>10, CapacityAssumption DEF DeallocateAvailable, IInv, RingInv, Ring
  <2> QED
    BY <1>10, <2>1 DEF DeallocateAvailable
<1>11. CASE DeallocateRelease(t)  BY <1>11 DEF DeallocateRelease
<1> QED
  BY <1>1, <1>2, <1>3, <1>4, <1>5, <1>6, <1>7, <1>8, <1>9, <1>10, <1>11
  DEF Step

\* Every step of a thread keeps the exclusion and what deallocate is given.
LEMMA StepMutex ==
  ASSUME IInv, NEW t \in Threads, Step(t)
  PROVE  Mutex' /\ ReturnsId'
<1>0. TypeOK /\ Mutex /\ ReturnsId
  BY DEF IInv
<1> USE <1>0 DEF TypeOK, Mutex, ReturnsId, Critical, Goto, PC, poolVars,
        spinlock_acquire, spinlock_release
<1>1. CASE AllocateCall(t)        BY <1>1 DEF AllocateCall
<1>2. CASE AllocateCheck(t)
  <2>1. /\ pc[t] \in Critical /\ pc'[t] \in {"allocPosition", "allocRelease"}
        /\ \A u \in Threads \ {t} : pc'[u] = pc[u]
        /\ UNCHANGED <<lock, id>>
    BY <1>2 DEF AllocateCheck
  <2>2. pc[t] = "allocCheck"
    BY <1>2 DEF AllocateCheck
  <2> QED
    BY <2>1, <2>2
<1>3. CASE AllocatePosition(t)    BY <1>3 DEF AllocatePosition
<1>4. CASE AllocateFetch(t)       BY <1>4 DEF AllocateFetch
<1>5. CASE AllocateRelease(t)
  <2>1. \A u \in Threads \ {t} : pc'[u] = pc[u] /\ pc[u] \notin Critical
    BY <1>5 DEF AllocateRelease
  <2>2. pc'[t] = "idle"
    BY <1>5 DEF AllocateRelease
  <2>3. \A u \in Threads \ {t} : id'[u] = id[u]
    BY <1>5 DEF AllocateRelease
  <2> QED
    BY <2>1, <2>2, <2>3
<1>6. CASE DeallocateCall(t)      BY <1>6 DEF DeallocateCall
<1>7. CASE DeallocateLock(t)      BY <1>7 DEF DeallocateLock
<1>8. CASE DeallocatePosition(t)
  <2>1. /\ pc[t] \in Critical /\ pc'[t] \in {"deallocPut", "deallocRelease"}
        /\ \A u \in Threads \ {t} : pc'[u] = pc[u]
        /\ UNCHANGED <<lock, id>>
    BY <1>8 DEF DeallocatePosition
  <2>2. pc[t] = "deallocPosition" <=> pc'[t] \in {"deallocPut", "deallocRelease"}
    BY <1>8 DEF DeallocatePosition
  <2> QED
    BY <2>1, <2>2
<1>9. CASE DeallocatePut(t)       BY <1>9 DEF DeallocatePut
<1>10. CASE DeallocateAvailable(t) BY <1>10 DEF DeallocateAvailable
<1>11. CASE DeallocateRelease(t)
  <2>1. \A u \in Threads \ {t} : pc'[u] = pc[u] /\ pc[u] \notin Critical
    BY <1>11 DEF DeallocateRelease
  <2>2. pc'[t] = "idle"
    BY <1>11 DEF DeallocateRelease
  <2>3. \A u \in Threads \ {t} : id'[u] = id[u]
    BY <1>11 DEF DeallocateRelease
  <2> QED
    BY <2>1, <2>2, <2>3
<1> QED
  BY <1>1, <1>2, <1>3, <1>4, <1>5, <1>6, <1>7, <1>8, <1>9, <1>10, <1>11
  DEF Step

\* Every step of a thread keeps the ids of the ring in the window the
\* counters describe.
LEMMA StepRingInv ==
  ASSUME IInv, NEW t \in Threads, Step(t)
  PROVE  RingInv'
<1>0. TypeOK /\ Mutex /\ RingInv
  BY DEF IInv
<1>a. /\ ids_available \in Nat /\ ids_available <= Capacity
      /\ get_id_position \in Nat /\ get_id_position <= Capacity
      /\ put_id_position \in Nat /\ put_id_position <= Capacity
      /\ \A u \in Threads : id_position[u] \in Nat /\ id_position[u] <= Capacity
      /\ Capacity \in Nat /\ Capacity > 0
  BY <1>0, CapacityAssumption DEF TypeOK, Slots
<1>b. \A u \in Threads : pc[t] \in Critical /\ pc[u] \in Midway => u = t
  BY <1>0 DEF Mutex, Midway, Critical, PC
<1>c. pc[t] \in PC
  BY <1>0 DEF TypeOK
\* What the step leaves to the other threads.
<1>d. /\ \A u \in Threads \ {t} : pc'[u] = pc[u] /\ id_position'[u] = id_position[u]
  BY <1>0 DEF Step, TypeOK, Goto, AllocateCall, AllocateCheck,
     AllocatePosition, AllocateFetch, AllocateRelease, DeallocateCall,
     DeallocateLock, DeallocatePosition, DeallocatePut, DeallocateAvailable,
     DeallocateRelease
<1>1. CASE \/ AllocateCall(t) \/ DeallocateLock(t) \/ DeallocateCall(t)
  <2>1. UNCHANGED poolVars /\ pc[t] \notin Midway /\ pc'[t] \notin Midway
    BY <1>0, <1>1 DEF AllocateCall, DeallocateLock, DeallocateCall, poolVars,
       Goto, Midway, TypeOK
  <2> QED
    BY <1>0, <1>d, <2>1 DEF RingInv, Ring, Midway, poolVars
<1>2. CASE AllocateRelease(t) \/ DeallocateRelease(t)
  <2>1. UNCHANGED poolVars /\ pc[t] \notin Midway /\ pc'[t] \notin Midway
    BY <1>0, <1>2 DEF AllocateRelease, DeallocateRelease, poolVars,
       Goto, Midway, TypeOK
  <2> QED
    BY <1>0, <1>d, <2>1 DEF RingInv, Ring, Midway, poolVars
\* The other steps are those of the lock owner.
<1>3. ASSUME pc[t] \in Critical
      PROVE  \A u \in Threads \ {t} : pc'[u] \notin Midway
  BY <1>3, <1>b, <1>d
<1>4. CASE AllocateCheck(t)
  <2>1. pc[t] = "allocCheck" /\ UNCHANGED <<id_buffer, get_id_position, put_id_position>>
    BY <1>4 DEF AllocateCheck, Goto
  <2>2. \A u \in Threads \ {t} : pc'[u] \notin Midway
    BY <1>3, <2>1 DEF Critical, PC
  <2>3. Ring(get_id_position, ids_available, put_id_position)
    BY <1>0, <1>b, <2>1 DEF RingInv, Midway, Critical, PC
  <2>4. CASE 0 < ids_available
    <3>1. pc'[t] = "allocPosition" /\ ids_available' = ids_available - 1
      BY <1>0, <1>4, <2>4 DEF AllocateCheck, Goto, TypeOK
    <3>2. ids_available' + 1 = ids_available
      BY <3>1, <1>a
    <3> QED
      BY <2>1, <2>2, <2>3, <3>1, <3>2 DEF RingInv, Ring, Midway
  <2>5. CASE ~ (0 < ids_available)
    <3>1. pc'[t] = "allocRelease" /\ ids_available' = ids_available
      BY <1>0, <1>4, <2>5 DEF AllocateCheck, Goto, TypeOK
    <3> QED
      BY <2>1, <2>2, <2>3, <3>1 DEF RingInv, Ring, Midway
  <2> QED
    BY <2>4, <2>5
<1>5. CASE AllocatePosition(t)
  <2>1. /\ pc[t] = "allocPosition" /\ pc'[t] = "allocFetch"
        /\ id_position'[t] = get_id_position
        /\ get_id_position' = Advance(get_id_position)
        /\ UNCHANGED <<id_buffer, ids_available, put_id_position>>
    BY <1>0, <1>5 DEF AllocatePosition, Goto, TypeOK
  <2>2. \A u \in Threads \ {t} : pc'[u] \notin Midway
    BY <1>3, <2>1 DEF Critical, PC
  <2>3. Ring(get_id_position, ids_available + 1, put_id_position)
    BY <1>0, <2>1 DEF RingInv
  <2> QED
    BY <2>1, <2>2, <2>3 DEF RingInv, Ring, Midway, Advance
<1>6. CASE AllocateFetch(t)
  <2>1. /\ pc[t] = "allocFetch" /\ pc'[t] = "allocRelease"
        /\ id_buffer' = [id_buffer EXCEPT ![id_position[t]] = Invalid]
        /\ UNCHANGED <<ids_available, get_id_position, put_id_position>>
    BY <1>0, <1>6 DEF AllocateFetch, Goto, TypeOK
  <2>2. \A u \in Threads \ {t} : pc'[u] \notin Midway
    BY <1>3, <2>1 DEF Critical, PC
  <2>3. /\ get_id_position = Advance(id_position[t])
        /\ Ring(id_position[t], ids_available + 1, put_id_position)
    BY <1>0, <2>1 DEF RingInv
  <2>4. /\ ids_available <= Capacity
        /\ put_id_position = IF Capacity < get_id_position + ids_available
             THEN get_id_position + ids_available - (Capacity + 1)
             ELSE get_id_position + ids_available
    BY <2>3, <1>a DEF Ring, Advance
  <2>5. ASSUME NEW s \in Slots
        PROVE  id_buffer'[s] # Invalid
                 <=> InWindow(get_id_position, ids_available, s)
    <3>1. id_buffer[s] # Invalid
            <=> InWindow(id_position[t], ids_available + 1, s)
      BY <2>3 DEF Ring
    <3>2. s = id_position[t] => ~ InWindow(get_id_position, ids_available, s)
      BY <2>3, <1>a DEF InWindow, Advance, Ring
    <3>3. s # id_position[t] =>
            (InWindow(id_position[t], ids_available + 1, s)
               <=> InWindow(get_id_position, ids_available, s))
      BY <2>3, <1>a DEF InWindow, Advance, Ring, Slots
    <3>4. id_buffer'[s] = IF s = id_position[t] THEN Invalid ELSE id_buffer[s]
      BY <1>0, <2>1 DEF TypeOK
    <3> QED
      BY <3>1, <3>2, <3>3, <3>4
  <2>6. Ring(get_id_position, ids_available, put_id_position)'
    BY <2>1, <2>4, <2>5 DEF Ring, InWindow
  <2> QED
    BY <2>1, <2>2, <2>6 DEF RingInv, Midway
<1>7. CASE DeallocatePosition(t)
  <2>1. pc[t] = "deallocPosition"
    BY <1>7 DEF DeallocatePosition
  <2>2. ids_available < Capacity
    BY <2>1, RoomForCarriedId
  <2>3. /\ pc'[t] = "deallocPut"
        /\ id_position'[t] = put_id_position
        /\ put_id_position' = Advance(put_id_position)
        /\ UNCHANGED <<id_buffer, ids_available, get_id_position>>
    BY <1>0, <1>7, <1>a, <2>2 DEF DeallocatePosition, Goto, TypeOK
  <2>4. \A u \in Threads \ {t} : pc'[u] \notin Midway
    BY <1>3, <2>1 DEF Critical, PC
  <2>5. Ring(get_id_position, ids_available, put_id_position)
    BY <1>0, <1>b, <2>1 DEF RingInv, Midway, Critical, PC
  <2> QED
    BY <2>2, <2>3, <2>4, <2>5 DEF RingInv, Ring, Midway, Advance
<1>8. CASE DeallocatePut(t)
  <2>1. /\ pc[t] = "deallocPut" /\ pc'[t] = "deallocAvailable"
        /\ id_buffer' = [id_buffer EXCEPT ![id_position[t]] = id[t]]
        /\ UNCHANGED <<ids_available, get_id_position, put_id_position>>
    BY <1>0, <1>8 DEF DeallocatePut, Goto, TypeOK
  <2>2. \A u \in Threads \ {t} : pc'[u] \notin Midway
    BY <1>3, <2>1 DEF Critical, PC
  <2>3. /\ put_id_position = Advance(id_position[t])
        /\ ids_available < Capacity
        /\ Ring(get_id_position, ids_available, id_position[t])
    BY <1>0, <2>1 DEF RingInv
  <2>4. id[t] # Invalid
    BY <2>1 DEF IInv, ReturnsId, Ids, Invalid
  <2>5. /\ ids_available + 1 <= Capacity
        /\ put_id_position = IF Capacity < get_id_position + (ids_available + 1)
             THEN get_id_position + (ids_available + 1) - (Capacity + 1)
             ELSE get_id_position + (ids_available + 1)
    BY <2>3, <1>a DEF Ring, Advance
  <2>6. ASSUME NEW s \in Slots
        PROVE  id_buffer'[s] # Invalid
                 <=> InWindow(get_id_position, ids_available + 1, s)
    <3>1. id_buffer[s] # Invalid
            <=> InWindow(get_id_position, ids_available, s)
      BY <2>3 DEF Ring
    <3>2. s = id_position[t] => InWindow(get_id_position, ids_available + 1, s)
      BY <2>3, <1>a DEF InWindow, Advance, Ring
    <3>3. s # id_position[t] =>
            (InWindow(get_id_position, ids_available, s)
               <=> InWindow(get_id_position, ids_available + 1, s))
      BY <2>3, <1>a DEF InWindow, Advance, Ring, Slots
    <3>4. id_buffer'[s] = IF s = id_position[t] THEN id[t] ELSE id_buffer[s]
      BY <1>0, <2>1 DEF TypeOK
    <3> QED
      BY <2>4, <3>1, <3>2, <3>3, <3>4
  <2>7. Ring(get_id_position, ids_available + 1, put_id_position)'
    BY <2>1, <2>5, <2>6 DEF Ring, InWindow
  <2> QED
    BY <2>1, <2>2, <2>7 DEF RingInv, Midway
<1>9. CASE DeallocateAvailable(t)
  <2>1. /\ pc[t] = "deallocAvailable" /\ pc'[t] = "deallocRelease"
        /\ ids_available' = ids_available + 1
        /\ UNCHANGED <<id_buffer, get_id_position, put_id_position>>
    BY <1>0, <1>9 DEF DeallocateAvailable, Goto, TypeOK
  <2>2. \A u \in Threads \ {t} : pc'[u] \notin Midway
    BY <1>3, <2>1 DEF Critical, PC
  <2>3. Ring(get_id_position, ids_available + 1, put_id_position)
    BY <1>0, <2>1 DEF RingInv
  <2> QED
    BY <2>1, <2>2, <2>3 DEF RingInv, Ring, Midway
<1> QED
  BY <1>1, <1>2, <1>4, <1>5, <1>6, <1>7, <1>8, <1>9 DEF Step

\* Every step of a thread keeps every id in exactly one place.
LEMMA StepIds ==
  ASSUME IInv, NEW t \in Threads, Step(t)
  PROVE  NoIdLost' /\ NoIdShared'
<1>0. TypeOK /\ ReturnsId /\ NoIdLost /\ NoIdShared
  BY DEF IInv
<1> DEFINE Carrying == {"allocRelease", "deallocLock", "deallocPosition",
                        "deallocPut"}
<1>a. \A u \in Threads \ {t} : pc'[u] = pc[u] /\ id'[u] = id[u]
  BY <1>0 DEF Step, TypeOK, Goto, AllocateCall, AllocateCheck,
     AllocatePosition, AllocateFetch, AllocateRelease, DeallocateCall,
     DeallocateLock, DeallocatePosition, DeallocatePut, DeallocateAvailable,
     DeallocateRelease
<1>b. \A u \in Threads \ {t} : \A i \in Ids : Carries(u, i)' <=> Carries(u, i)
  BY <1>a DEF Carries
<1>c. Invalid \notin Ids
  BY DEF Ids, Invalid
\* A step that moves no id.
<1>d. ASSUME UNCHANGED <<id_buffer, held>>,
             \A i \in Ids : Carries(t, i)' <=> Carries(t, i)
      PROVE  NoIdLost' /\ NoIdShared'
  <2>1. \A u \in Threads : \A i \in Ids : Carries(u, i)' <=> Carries(u, i)
    BY <1>b, <1>d
  <2>2. \A i \in Ids : InRing(i)' <=> InRing(i)
    BY <1>d DEF InRing
  <2>3. NoIdLost'
    BY <1>0, <1>d, <2>1, <2>2 DEF NoIdLost
  <2>4. NoIdShared'
    BY <1>0, <1>d, <2>1, <2>2 DEF NoIdShared
  <2> QED
    BY <2>3, <2>4
<1>1. CASE AllocateCall(t)
  <2>1. pc[t] \notin Carrying /\ pc'[t] \notin Carrying
    BY <1>0, <1>1 DEF AllocateCall, Goto, TypeOK
  <2> QED
    BY <1>1, <1>d, <2>1 DEF AllocateCall, poolVars, Carries
<1>2. CASE AllocateCheck(t)
  <2>1. pc[t] = "allocCheck" /\ id' = id /\ UNCHANGED <<id_buffer, held>>
    BY <1>2 DEF AllocateCheck, Goto
  <2>2. id[t] = Invalid
    BY <1>0, <2>1 DEF ReturnsId
  <2> QED
    BY <1>c, <1>d, <2>1, <2>2 DEF Carries
<1>3. CASE AllocatePosition(t) \/ DeallocateAvailable(t)
  <2>1. pc[t] \notin Carrying /\ pc'[t] \notin Carrying
    BY <1>0, <1>3 DEF AllocatePosition, DeallocateAvailable, Goto, TypeOK
  <2> QED
    BY <1>3, <1>d, <2>1 DEF AllocatePosition, DeallocateAvailable, Carries
<1>4. CASE DeallocateRelease(t)
  <2>1. pc[t] \notin Carrying /\ pc'[t] \notin Carrying
    BY <1>0, <1>4 DEF DeallocateRelease, Goto, TypeOK
  <2> QED
    BY <1>4, <1>d, <2>1 DEF DeallocateRelease, poolVars, Carries
<1>5. CASE DeallocateLock(t)
  <2>1. pc[t] \in Carrying /\ pc'[t] \in Carrying
    BY <1>0, <1>5 DEF DeallocateLock, Goto, TypeOK
  <2> QED
    BY <1>5, <1>d, <2>1 DEF DeallocateLock, poolVars, Carries
<1>6. CASE DeallocatePosition(t)
  <2>1. ids_available < Capacity
    BY <1>6, RoomForCarriedId DEF DeallocatePosition
  <2>2. Capacity > ids_available
    BY <1>0, <2>1, CapacityAssumption DEF TypeOK
  <2>3. pc[t] \in Carrying /\ pc'[t] \in Carrying
    BY <1>0, <1>6, <2>2 DEF DeallocatePosition, Goto, TypeOK
  <2> QED
    BY <1>6, <1>d, <2>3 DEF DeallocatePosition, Carries
\* The steps that move one id.
<1>7. CASE AllocateFetch(t)
  <2> DEFINE p == id_position[t]
  <2>1. /\ p \in Slots
        /\ \A s \in Slots :
             id_buffer'[s] = IF s = p THEN Invalid ELSE id_buffer[s]
        /\ held' = held
    BY <1>0, <1>7 DEF AllocateFetch, TypeOK
  <2>2. \A i \in Ids : Carries(t, i)' <=> id_buffer[p] = i
    BY <1>0, <1>7 DEF AllocateFetch, Goto, Carries, TypeOK
  <2>3. \A i \in Ids : ~ Carries(t, i)
    BY <1>7 DEF AllocateFetch, Goto, Carries
  <2>4. \A i \in Ids : InRing(i)' <=> InRing(i) /\ id_buffer[p] # i
    BY <1>0, <1>c, <2>1 DEF InRing, NoIdShared
  <2>5. NoIdLost'
    BY <1>0, <1>b, <2>1, <2>2, <2>3, <2>4 DEF NoIdLost
  <2>6. \A i \in Ids : id_buffer[p] = i => InRing(i)
    BY <2>1 DEF InRing
  <2> HIDE DEF p
  <2>7. ASSUME NEW i \in Ids
        PROVE  \A r, s \in Slots :
                 id_buffer'[r] = i /\ id_buffer'[s] = i => r = s
    BY <1>0, <1>c, <2>1, <2>7 DEF NoIdShared
  <2>8. ASSUME NEW i \in Ids PROVE ~ (InRing(i)' /\ i \in held')
    BY <1>0, <2>1, <2>4 DEF NoIdShared
  <2>9. ASSUME NEW i \in Ids, NEW u \in Threads, Carries(u, i)'
        PROVE  /\ ~ InRing(i)' /\ i \notin held'
               /\ \A v \in Threads : Carries(v, i)' => v = u
    BY <1>0, <1>b, <2>1, <2>2, <2>4, <2>6, <2>9 DEF NoIdShared
  <2> QED
    BY <2>5, <2>7, <2>8, <2>9 DEF NoIdShared
<1>8. CASE AllocateRelease(t)
  <2>1. /\ held' = held \cup ({id[t]} \ {Invalid})
        /\ id_buffer' = id_buffer
        /\ \A i \in Ids : ~ Carries(t, i)'
        /\ \A i \in Ids : Carries(t, i) <=> id[t] = i
    BY <1>0, <1>8 DEF AllocateRelease, Goto, poolVars, Carries, TypeOK
  <2>2. \A i \in Ids : InRing(i)' <=> InRing(i)
    BY <2>1 DEF InRing
  <2>3. \A i \in Ids : i \in held' <=> i \in held \/ Carries(t, i)
    BY <1>c, <2>1
  <2>4. NoIdLost'
    BY <1>0, <1>b, <2>1, <2>2, <2>3 DEF NoIdLost
  <2>5. NoIdShared'
    BY <1>0, <1>b, <2>1, <2>2, <2>3 DEF NoIdShared
  <2> QED
    BY <2>4, <2>5
<1>9. CASE DeallocateCall(t)
  <2>1. PICK j \in held : /\ id' = [id EXCEPT ![t] = j]
                          /\ held' = held \ {j}
    BY <1>9 DEF DeallocateCall
  <2>2. /\ id_buffer' = id_buffer
        /\ \A i \in Ids : ~ Carries(t, i)
        /\ \A i \in Ids : Carries(t, i)' <=> j = i
    BY <1>0, <1>9, <2>1 DEF DeallocateCall, Goto, poolVars, Carries, TypeOK
  <2>3. \A i \in Ids : InRing(i)' <=> InRing(i)
    BY <2>2 DEF InRing
  <2>4. NoIdLost'
    BY <1>0, <1>b, <2>1, <2>2, <2>3 DEF NoIdLost
  <2>5. NoIdShared'
    BY <1>0, <1>b, <2>1, <2>2, <2>3 DEF NoIdShared
  <2> QED
    BY <2>4, <2>5
<1>10. CASE DeallocatePut(t)
  <2> DEFINE p == id_position[t]
  <2>1. /\ p \in Slots
        /\ \A s \in Slots :
             id_buffer'[s] = IF s = p THEN id[t] ELSE id_buffer[s]
        /\ held' = held
    BY <1>0, <1>10 DEF DeallocatePut, TypeOK
  <2>2. /\ \A i \in Ids : ~ Carries(t, i)'
        /\ \A i \in Ids : Carries(t, i) <=> id[t] = i
    BY <1>0, <1>10 DEF DeallocatePut, Goto, Carries, TypeOK
  <2>3. id_buffer[p] = Invalid
    <3>1. Ring(get_id_position, ids_available, p) /\ ids_available < Capacity
      BY <1>10 DEF IInv, RingInv, DeallocatePut, Goto
    <3>2. ~ InWindow(get_id_position, ids_available, p)
      BY SMTT(40), <1>0, <3>1, CapacityAssumption DEF Ring, InWindow, TypeOK, Slots
    <3> QED
      BY <2>1, <3>1, <3>2 DEF Ring
  <2> HIDE DEF p
  <2>4. \A i \in Ids : InRing(i)' <=> InRing(i) \/ id[t] = i
    BY <1>c, <2>1, <2>3 DEF InRing
  <2>5. NoIdLost'
    BY <1>0, <1>b, <2>1, <2>2, <2>4 DEF NoIdLost
  <2>6. id[t] \in Ids => \A s \in Slots : id_buffer[s] # id[t]
    BY <1>0, <2>2 DEF NoIdShared, InRing
  <2>7. ASSUME NEW i \in Ids
        PROVE  \A r, s \in Slots :
                 id_buffer'[r] = i /\ id_buffer'[s] = i => r = s
    BY <1>0, <2>1, <2>6, <2>7 DEF NoIdShared
  <2>8. ASSUME NEW i \in Ids PROVE ~ (InRing(i)' /\ i \in held')
    BY <1>0, <2>1, <2>2, <2>4 DEF NoIdShared
  <2>9. ASSUME NEW i \in Ids, NEW u \in Threads, Carries(u, i)'
        PROVE  /\ ~ InRing(i)' /\ i \notin held'
               /\ \A v \in Threads : Carries(v, i)' => v = u
    BY <1>0, <1>b, <2>1, <2>2, <2>4, <2>9 DEF NoIdShared
  <2> QED
    BY <2>5, <2>7, <2>8, <2>9 DEF NoIdShared
<1> QED
  BY <1>1, <1>2, <1>3, <1>4, <1>5, <1>6, <1>7, <1>8, <1>9, <1>10 DEF Step

\* The invariant is inductive.
LEMMA NextIInv == IInv /\ [Next]_vars => IInv'
<1>1. ASSUME IInv, NEW t \in Threads, Step(t) PROVE IInv'
  BY <1>1, StepTypeOK, StepMutex, StepRingInv, StepIds DEF IInv
<1>2. ASSUME IInv, UNCHANGED vars PROVE IInv'
  BY <1>2 DEF IInv, vars, poolVars, threadVars, TypeOK, Mutex, RingInv, Ring,
     ReturnsId, NoIdLost, NoIdShared, InRing, Carries
<1> QED
  BY <1>1, <1>2 DEF Next

\* The inductive invariant holds in every reachable state.
THEOREM SpecIInv == Spec => []IInv
  BY InitIInv, NextIInv, PTL DEF Spec

-----------------------------------------------------------------------------
\* The counters and the ring of embb_mtapi_id_pool_t.c keep their types: in
\* particular ids_available never exceeds the capacity or drops below zero.
THEOREM TypeCorrect == Spec => []TypeOK
<1>1. IInv => TypeOK
  BY DEF IInv
<1> QED
  BY <1>1, SpecIInv, PTL

\* embb_mtapi_id_pool_deallocate never drops an id.
THEOREM NoIdLostHolds == Spec => []NoIdLost
<1>1. IInv => NoIdLost
  BY DEF IInv
<1> QED
  BY <1>1, SpecIInv, PTL

\* embb_mtapi_id_pool_allocate never hands out an id that is in use.
THEOREM NoIdSharedHolds == Spec => []NoIdShared
<1>1. IInv => NoIdShared
  BY DEF IInv
<1> QED
  BY <1>1, SpecIInv, PTL

\* embb_mtapi_id_pool_allocate fails only when all ids are in use.
THEOREM FailsOnlyWhenExhaustedHolds == Spec => FailsOnlyWhenExhausted
<1> DEFINE A == \A t \in Threads :
                  pc[t] = "allocCheck" /\ pc'[t] = "allocRelease" =>
                    \A i \in Ids : i \in held \/ \E u \in Threads : Carries(u, i)
<1>1. ASSUME IInv, Next PROVE A
  <2> SUFFICES ASSUME NEW t \in Threads,
                      pc[t] = "allocCheck", pc'[t] = "allocRelease",
                      NEW i \in Ids
               PROVE  i \in held \/ \E u \in Threads : Carries(u, i)
    OBVIOUS
  <2>1. PICK u \in Threads : Step(u)
    BY <1>1 DEF Next
  <2>2. u = t
    BY <1>1, <2>1 DEF IInv, TypeOK, Step, Goto, AllocateCall, AllocateCheck,
       AllocatePosition, AllocateFetch, AllocateRelease, DeallocateCall,
       DeallocateLock, DeallocatePosition, DeallocatePut,
       DeallocateAvailable, DeallocateRelease
  <2>3. AllocateCheck(t)
    BY <2>1, <2>2 DEF Step, Goto, AllocateCall, AllocatePosition,
       AllocateFetch, AllocateRelease, DeallocateCall, DeallocateLock,
       DeallocatePosition, DeallocatePut, DeallocateAvailable,
       DeallocateRelease
  <2>4. ~ (0 < ids_available)
    BY <1>1, <2>3 DEF AllocateCheck, Goto, IInv, TypeOK
  <2>5. ids_available = 0
    BY <1>1, <2>4, CapacityAssumption DEF IInv, TypeOK
  <2>6. Ring(get_id_position, 0, put_id_position)
    BY <1>1, <2>5 DEF IInv, Mutex, RingInv, Midway, Critical, PC
  <2>7. \A s \in Slots : ~ InWindow(get_id_position, 0, s)
    BY <1>1, CapacityAssumption DEF InWindow, IInv, TypeOK, Slots
  <2>8. ~ InRing(i)
    BY <2>6, <2>7 DEF Ring, InRing, Ids, Invalid
  <2> QED
    BY <1>1, <2>8 DEF IInv, NoIdLost
<1>2. IInv /\ [Next]_vars => [A]_vars
  BY <1>1
<1> QED
  BY <1>2, SpecIInv, PTL DEF Spec, FailsOnlyWhenExhausted

\* A successful embb_mtapi_id_pool_allocate never returns Invalid.
THEOREM FetchesAnIdHolds == Spec => FetchesAnId
<1> DEFINE A == \A t \in Threads :
                  pc[t] = "allocFetch" /\ pc'[t] = "allocRelease"
                    => id'[t] \in Ids
<1>1. ASSUME IInv, Next PROVE A
  <2> SUFFICES ASSUME NEW t \in Threads,
                      pc[t] = "allocFetch", pc'[t] = "allocRelease"
               PROVE  id'[t] \in Ids
    OBVIOUS
  <2>1. PICK u \in Threads : Step(u)
    BY <1>1 DEF Next
  <2>2. u = t
    BY <1>1, <2>1 DEF IInv, TypeOK, Step, Goto, AllocateCall, AllocateCheck,
       AllocatePosition, AllocateFetch, AllocateRelease, DeallocateCall,
       DeallocateLock, DeallocatePosition, DeallocatePut,
       DeallocateAvailable, DeallocateRelease
  <2>3. AllocateFetch(t)
    BY <2>1, <2>2 DEF Step, Goto, AllocateCall, AllocateCheck,
       AllocatePosition, AllocateRelease, DeallocateCall, DeallocateLock,
       DeallocatePosition, DeallocatePut, DeallocateAvailable,
       DeallocateRelease
  <2>4. id_position[t] \in Slots /\ id'[t] = id_buffer[id_position[t]]
    BY <1>1, <2>3 DEF AllocateFetch, IInv, TypeOK
  <2>5. Ring(id_position[t], ids_available + 1, put_id_position)
    BY <1>1 DEF IInv, RingInv
  <2>6. InWindow(id_position[t], ids_available + 1, id_position[t])
    <3>1. id_position[t] \in Nat /\ ids_available \in Nat
      BY <1>1, <2>4, CapacityAssumption DEF IInv, TypeOK, Slots
    <3> QED
      BY <3>1 DEF InWindow
  <2>7. id_buffer[id_position[t]] # Invalid
    BY <2>4, <2>5, <2>6 DEF Ring
  <2> QED
    BY <1>1, <2>4, <2>7, CapacityAssumption
    DEF IInv, TypeOK, Slots, Ids, Invalid
<1>2. IInv /\ [Next]_vars => [A]_vars
  BY <1>1
<1> QED
  BY <1>2, SpecIInv, PTL DEF Spec, FetchesAnId
=============================================================================
