-------------------------- MODULE LinearContainer ---------------------------
(***************************************************************************)
(* What the containers of containers_cpp promise: every call takes effect  *)
(* at one moment between its begin and its return.  A put adds a value, a  *)
(* get takes the newest one (stack) or the oldest one (queue); a get fails *)
(* if the container was empty at a moment of the call, a put if the        *)
(* guaranteed capacity is used up by values and by other puts under way.   *)
(***************************************************************************)
EXTENDS Integers, Sequences, FiniteSets

CONSTANTS Threads, Values, Nothing   \* Nothing: no value, no result yet

VARIABLES shape,     \* [lifo, capacity]: never changes
          contents,  \* the values, the next one to be taken first
          call       \* per thread: [op, value, result, saw]

vars == <<shape, contents, call>>

Idle == [op |-> "idle", value |-> Nothing, result |-> Nothing, saw |-> FALSE]

Init == shape = [lifo |-> shape.lifo, capacity |-> shape.capacity]
        /\ contents = <<>> /\ call = [t \in Threads |-> Idle]

\* The call of a thread becomes c; a get under way may notice that the
\* container is empty.
Becomes(t, c) ==
  \A u \in Threads :
    LET to == IF u = t THEN c ELSE call[u]
    IN  \/ call'[u] = to
        \/ /\ call[u].op = "get" /\ to.op = "get" /\ contents = <<>>
           /\ call'[u] = [to EXCEPT !.saw = TRUE]

Open(t, op)   == call[t].op = op /\ call[t].result = Nothing
Ends(t, r)    == Becomes(t, [call[t] EXCEPT !.result = r])

Begin(t) ==
  /\ call[t] = Idle /\ UNCHANGED contents
  /\ \E op \in {"put", "get"}, v \in Values \cup {Nothing} :
       Becomes(t, [Idle EXCEPT !.op = op, !.value = v])

Put(t) ==
  /\ Open(t, "put")
  /\ contents' = IF shape.lifo THEN <<call[t].value>> \o contents
                               ELSE Append(contents, call[t].value)
  /\ Ends(t, "done")

PutFails(t) ==
  /\ Open(t, "put") /\ UNCHANGED contents
  /\ Len(contents) + Cardinality({u \in Threads \ {t} : call[u].op = "put"})
       >= shape.capacity
  /\ Ends(t, "full")

Get(t) ==
  /\ Open(t, "get") /\ contents # <<>>
  /\ contents' = Tail(contents)
  /\ Ends(t, Head(contents))

GetFails(t) ==
  /\ Open(t, "get") /\ (call[t].saw \/ contents = <<>>)
  /\ UNCHANGED contents
  /\ Ends(t, "empty")

\* A call that has no effect because the thread has no index.
Throws(t) ==
  /\ \E op \in {"put", "get"} : Open(t, op)
  /\ UNCHANGED contents
  /\ Ends(t, "exception")

Return(t) ==
  /\ call[t].result # Nothing /\ UNCHANGED contents
  /\ Becomes(t, Idle)

Notice(t) == Becomes(t, call[t]) /\ UNCHANGED contents

Next == /\ UNCHANGED shape
        /\ \E t \in Threads : \/ Notice(t) \/ Begin(t) \/ Put(t) \/ PutFails(t) \/ Get(t)
                              \/ GetFails(t) \/ Throws(t) \/ Return(t)

Spec == Init /\ [][Next]_vars
=============================================================================
