----------------------------- MODULE SpscQueue ------------------------------
(***************************************************************************)
(* WaitFreeSPSCQueue: one thread puts, one takes, without locks.  The two  *)
(* indices only grow and wrap at the range of size_t (IndexMod here).      *)
(***************************************************************************)
EXTENDS Integers, Sequences

CONSTANTS Nothing, IndexMod,  \* IndexMod: the range of an index, a power of two
          SpscSetups   \* [capacity, puts : sequence of values, gets : number of calls]

VARIABLES ring,        \* [capacity, queue_array, head_index, tail_index]
          spsc         \* the two calls and what is left to do

\* AlignCapacityToPowerOfTwo
AlignCapacityToPowerOfTwo(c) ==
  CHOOSE p \in {2^k : k \in 0..c} : p >= c /\ (p = 1 \/ p \div 2 < c)

Free == [op |-> "idle", value |-> Nothing, result |-> Nothing, saw |-> FALSE]

SpscInit ==
  \E s \in SpscSetups :
    /\ ring = [capacity |-> AlignCapacityToPowerOfTwo(s.capacity), head |-> 0, tail |-> 0,
               array |-> [i \in 0..(AlignCapacityToPowerOfTwo(s.capacity) - 1) |-> Nothing]]
    /\ spsc = [puts |-> s.puts, gets |-> s.gets, put |-> Free, get |-> Free]

Used == (ring.tail - ring.head) % IndexMod

\* The values in the queue, the oldest first.
RingContents == [k \in 1..Used |-> ring.array[((ring.head + k - 1) % IndexMod) % ring.capacity]]

PutBegins ==
  /\ spsc.put = Free /\ spsc.puts # <<>>
  /\ spsc' = [spsc EXCEPT !.puts = Tail(@), !.put = [Free EXCEPT !.op = "put",
                                                       !.value = Head(spsc.puts)]]
  /\ UNCHANGED ring

\* Mutant: one place more.
RingFullLate == Used > ring.capacity

RingFull == Used = ring.capacity

\* TryEnqueue: the test, then the store, then the index.
PutTests ==
  /\ spsc.put.op = "put" /\ spsc.put.result = Nothing
  /\ spsc' = [spsc EXCEPT !.put = IF RingFull THEN [@ EXCEPT !.result = "full"]
                                  ELSE [@ EXCEPT !.op = "store"]]
  /\ UNCHANGED ring

PutStores ==
  /\ spsc.put.op = "store"
  /\ ring' = [ring EXCEPT !.array[ring.tail % ring.capacity] = spsc.put.value]
  /\ spsc' = [spsc EXCEPT !.put.op = "publish"]

PutPublishes ==
  /\ spsc.put.op = "publish"
  /\ ring' = [ring EXCEPT !.tail = (@ + 1) % IndexMod]
  /\ spsc' = [spsc EXCEPT !.put.op = "put", !.put.result = "done"]

GetBegins ==
  /\ spsc.get = Free /\ spsc.gets > 0
  /\ spsc' = [spsc EXCEPT !.gets = @ - 1, !.get = [Free EXCEPT !.op = "get"]]
  /\ UNCHANGED ring

\* TryDequeue: the test, then the value, then the index.
GetTests ==
  /\ spsc.get.op = "get" /\ spsc.get.result = Nothing
  /\ spsc' = [spsc EXCEPT !.get = IF Used = 0 THEN [@ EXCEPT !.result = "empty"]
                                  ELSE [@ EXCEPT !.op = "load"]]
  /\ UNCHANGED ring

GetLoads ==
  /\ spsc.get.op = "load"
  /\ spsc' = [spsc EXCEPT !.get.op = "advance",
                          !.get.value = ring.array[ring.head % ring.capacity]]
  /\ UNCHANGED ring

GetAdvances ==
  /\ spsc.get.op = "advance"
  /\ ring' = [ring EXCEPT !.head = (@ + 1) % IndexMod]
  /\ spsc' = [spsc EXCEPT !.get = [Free EXCEPT !.op = "get", !.result = spsc.get.value]]

SpscReturn ==
  /\ \/ spsc.put.result # Nothing /\ spsc' = [spsc EXCEPT !.put = Free]
     \/ spsc.get.result # Nothing /\ spsc' = [spsc EXCEPT !.get = Free]
  /\ UNCHANGED ring

SpscStep == \/ PutBegins \/ PutTests \/ PutStores \/ PutPublishes
            \/ GetBegins \/ GetTests \/ GetLoads \/ GetAdvances \/ SpscReturn
=============================================================================
