------------------------------- MODULE IdPool -------------------------------
(***************************************************************************)
(* The id pool of the MTAPI runtime (mtapi_c/src/embb_mtapi_id_pool_t.c).   *)
(* It hands out the indices of the storage arrays of tasks, actions,       *)
(* groups and queues.  Free ids sit in a ring of Capacity + 1 slots that   *)
(* a spin lock protects; the slots that hold no free id hold Invalid.      *)
(*                                                                         *)
(* Every assignment inside a critical section is a step of its own, so     *)
(* that the exclusion comes from the lock and not from the model.  The     *)
(* callers are part of the model as the set of ids they hold: an id may be *)
(* allocated by one thread and given back by another, as the task started  *)
(* by one thread is deleted by the one that waits for it.                  *)
(***************************************************************************)
EXTENDS Naturals, FiniteSets

CONSTANTS Threads,   \* the threads that call the pool
          Capacity   \* the capacity the pool is initialized with

ASSUME CapacityAssumption == Capacity \in Nat \ {0}

VARIABLES lock,             \* embb_mtapi_spinlock_t: 0 free, 1 taken
          id_buffer,        \* the ring
          ids_available,    \* number of ids in the ring
          get_id_position,  \* slot the next allocate reads
          put_id_position,  \* slot the next deallocate writes
          pc,               \* per thread: where it is in a call
          id_position,      \* per thread: local variable id_position
          id,               \* per thread: local variable / argument id
          held              \* ids the callers own

poolVars   == <<id_buffer, ids_available, get_id_position, put_id_position>>
threadVars == <<pc, id_position, id>>
vars       == <<lock, poolVars, threadVars, held>>

Invalid == 0                  \* EMBB_MTAPI_IDPOOL_INVALID_ID
Ids     == 1..Capacity
Slots   == 0..Capacity

\* Mutant: the wrap-around one slot late.
AdvanceLate(pos) == IF Capacity < pos THEN 0 ELSE pos + 1

\* What get_id_position and put_id_position become after an increment.
Advance(pos) == IF Capacity < pos + 1 THEN 0 ELSE pos + 1

\* embb_mtapi_id_pool_initialize
Init ==
  /\ lock = 0
  /\ id_buffer = [s \in Slots |-> s]      \* slot 0 holds Invalid
  /\ ids_available = Capacity
  /\ put_id_position = 0
  /\ get_id_position = 1
  /\ pc = [t \in Threads |-> "idle"]
  /\ id_position = [t \in Threads |-> 0]
  /\ id = [t \in Threads |-> Invalid]
  /\ held = {}

Goto(t, from, to) == pc[t] = from /\ pc' = [pc EXCEPT ![t] = to]

-----------------------------------------------------------------------------
(* The spin lock: a failed compare-and-swap only spins, so acquiring is a  *)
(* step that waits for the lock to be 0.                                   *)

\* Mutant: the lock is taken without a look at it.
spinlock_acquire_blindly == lock' = 1

spinlock_acquire == lock = 0 /\ lock' = 1
spinlock_release == lock = 1 /\ lock' = 0

-----------------------------------------------------------------------------
(* embb_mtapi_id_pool_allocate                                             *)

AllocateCall(t) ==
  /\ Goto(t, "idle", "allocCheck")
  /\ spinlock_acquire
  /\ id' = [id EXCEPT ![t] = Invalid]
  /\ UNCHANGED <<poolVars, id_position, held>>

AllocateCheck(t) ==
  /\ \/ /\ 0 < ids_available
        /\ ids_available' = ids_available - 1
        /\ Goto(t, "allocCheck", "allocPosition")
     \/ /\ ~ (0 < ids_available)
        /\ UNCHANGED ids_available
        /\ Goto(t, "allocCheck", "allocRelease")
  /\ UNCHANGED <<lock, id_buffer, get_id_position, put_id_position,
                 id_position, id, held>>

AllocatePosition(t) ==
  /\ Goto(t, "allocPosition", "allocFetch")
  /\ id_position' = [id_position EXCEPT ![t] = get_id_position]
  /\ get_id_position' = Advance(get_id_position)
  /\ UNCHANGED <<lock, id_buffer, ids_available, put_id_position, id, held>>

\* Mutant: the slot keeps the id that was taken from it.
AllocateFetchKeeps(t) ==
  /\ Goto(t, "allocFetch", "allocRelease")
  /\ id' = [id EXCEPT ![t] = id_buffer[id_position[t]]]
  /\ UNCHANGED <<lock, poolVars, id_position, held>>

AllocateFetch(t) ==
  /\ Goto(t, "allocFetch", "allocRelease")
  /\ id' = [id EXCEPT ![t] = id_buffer[id_position[t]]]
  /\ id_buffer' = [id_buffer EXCEPT ![id_position[t]] = Invalid]
  /\ UNCHANGED <<lock, ids_available, get_id_position, put_id_position,
                 id_position, held>>

AllocateRelease(t) ==
  /\ Goto(t, "allocRelease", "idle")
  /\ spinlock_release
  /\ held' = held \cup ({id[t]} \ {Invalid})
  /\ id' = [id EXCEPT ![t] = Invalid]
  /\ UNCHANGED <<poolVars, id_position>>

-----------------------------------------------------------------------------
(* embb_mtapi_id_pool_deallocate: the caller gives up an id it holds.      *)

DeallocateCall(t) ==
  /\ Goto(t, "idle", "deallocLock")
  /\ \E i \in held : /\ id' = [id EXCEPT ![t] = i]
                     /\ held' = held \ {i}
  /\ UNCHANGED <<lock, poolVars, id_position>>

DeallocateLock(t) ==
  /\ Goto(t, "deallocLock", "deallocPosition")
  /\ spinlock_acquire
  /\ UNCHANGED <<poolVars, id_position, id, held>>

\* Mutant: the ring is taken to be full one id early.
DeallocatePositionEarly(t) ==
  /\ pc[t] = "deallocPosition"
  /\ IF Capacity > ids_available + 1
       THEN /\ Goto(t, "deallocPosition", "deallocPut")
            /\ id_position' = [id_position EXCEPT ![t] = put_id_position]
            /\ put_id_position' = Advance(put_id_position)
       ELSE /\ Goto(t, "deallocPosition", "deallocRelease")
            /\ UNCHANGED <<id_position, put_id_position>>
  /\ UNCHANGED <<lock, id_buffer, ids_available, get_id_position, id, held>>

\* The capacity check and the position it guards; a full ring drops the id.
DeallocatePosition(t) ==
  /\ pc[t] = "deallocPosition"
  /\ IF Capacity > ids_available
       THEN /\ Goto(t, "deallocPosition", "deallocPut")
            /\ id_position' = [id_position EXCEPT ![t] = put_id_position]
            /\ put_id_position' = Advance(put_id_position)
       ELSE /\ Goto(t, "deallocPosition", "deallocRelease")
            /\ UNCHANGED <<id_position, put_id_position>>
  /\ UNCHANGED <<lock, id_buffer, ids_available, get_id_position, id, held>>

DeallocatePut(t) ==
  /\ Goto(t, "deallocPut", "deallocAvailable")
  /\ id_buffer' = [id_buffer EXCEPT ![id_position[t]] = id[t]]
  /\ UNCHANGED <<lock, ids_available, get_id_position, put_id_position,
                 id_position, id, held>>

\* Mutant: the id is in the ring but not counted.
DeallocateUncounted(t) ==
  /\ Goto(t, "deallocAvailable", "deallocRelease")
  /\ UNCHANGED <<lock, poolVars, id_position, id, held>>

DeallocateAvailable(t) ==
  /\ Goto(t, "deallocAvailable", "deallocRelease")
  /\ ids_available' = ids_available + 1
  /\ UNCHANGED <<lock, id_buffer, get_id_position, put_id_position,
                 id_position, id, held>>

DeallocateRelease(t) ==
  /\ Goto(t, "deallocRelease", "idle")
  /\ spinlock_release
  /\ id' = [id EXCEPT ![t] = Invalid]
  /\ UNCHANGED <<poolVars, id_position, held>>

-----------------------------------------------------------------------------
Step(t) ==
  \/ AllocateCall(t)    \/ AllocateCheck(t)  \/ AllocatePosition(t)
  \/ AllocateFetch(t)   \/ AllocateRelease(t)
  \/ DeallocateCall(t)  \/ DeallocateLock(t) \/ DeallocatePosition(t)
  \/ DeallocatePut(t)   \/ DeallocateAvailable(t) \/ DeallocateRelease(t)

Next == \E t \in Threads : Step(t)

Spec == Init /\ [][Next]_vars
-----------------------------------------------------------------------------
(* Properties                                                              *)

PC == {"idle", "allocCheck", "allocPosition", "allocFetch", "allocRelease",
       "deallocLock", "deallocPosition", "deallocPut", "deallocAvailable",
       "deallocRelease"}

\* Type invariant of the pool of embb_mtapi_id_pool_t.c and its callers.
TypeOK ==
  /\ lock \in {0, 1}
  /\ id_buffer \in [Slots -> Slots]
  /\ ids_available \in 0..Capacity
  /\ get_id_position \in Slots
  /\ put_id_position \in Slots
  /\ pc \in [Threads -> PC]
  /\ id_position \in [Threads -> Slots]
  /\ id \in [Threads -> Slots]
  /\ held \in SUBSET Ids

\* A thread that carries an id which is neither in the ring nor held.
Carries(t, i) ==
  /\ pc[t] \in {"allocRelease", "deallocLock", "deallocPosition", "deallocPut"}
  /\ id[t] = i

InRing(i) == \E s \in Slots : id_buffer[s] = i

\* No id leaks: whatever the interleaving of allocate and deallocate, every
\* id is in the ring, held by a caller or on its way between the two.  The
\* silent branch of embb_mtapi_id_pool_deallocate that drops an id when
\* capacity <= ids_available would break it.
NoIdLost ==
  \A i \in Ids : InRing(i) \/ i \in held \/ \E t \in Threads : Carries(t, i)

\* No id is handed out twice: an id is never in two slots, never in the ring
\* while a caller uses it, and never carried by two threads.
NoIdShared ==
  \A i \in Ids :
    /\ \A r, s \in Slots : id_buffer[r] = i /\ id_buffer[s] = i => r = s
    /\ ~ (InRing(i) /\ i \in held)
    /\ \A t \in Threads : Carries(t, i) =>
         /\ ~ InRing(i) /\ i \notin held
         /\ \A u \in Threads : Carries(u, i) => u = t

\* allocate reports exhaustion (EMBB_MTAPI_IDPOOL_INVALID_ID) only when every
\* id is in use: ids_available never understates what the ring holds.
FailsOnlyWhenExhausted ==
  [][\A t \in Threads :
       pc[t] = "allocCheck" /\ pc'[t] = "allocRelease" =>
         \A i \in Ids : i \in held \/ \E u \in Threads : Carries(u, i)]_vars

\* A successful allocate returns an id the ring really held, never Invalid.
FetchesAnId ==
  [][\A t \in Threads :
       pc[t] = "allocFetch" /\ pc'[t] = "allocRelease" => id'[t] \in Ids]_vars
=============================================================================
