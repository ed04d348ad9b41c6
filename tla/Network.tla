------------------------------ MODULE Network ------------------------------
(***************************************************************************)
(* The network plugin of MTAPI (mtapi_network_c/src) and the part of the   *)
(* runtime that a plugin action takes (mtapi_c/src): tasks that one node   *)
(* starts, another runs, and whose results come back over TCP.             *)
(*                                                                         *)
(* Every node has one network thread, which accepts connections and reads  *)
(* all sockets; application threads send requests, and the workers that    *)
(* ran a request send its result.  TCP delivers in order; a buffer that is *)
(* sent may still travel in pieces, so a frame is two chunks here, and     *)
(* only the mutex of the sender keeps the chunks of two frames apart.      *)
(*                                                                         *)
(* Of the remote runtime only this is left: a request takes a slot of the  *)
(* task pool, which a detached task never gives back, and the worker that  *)
(* has run it calls the complete function.  The assertions of the plugin   *)
(* are compiled out, as in a release build.                                *)
(***************************************************************************)
EXTENDS Integers, Sequences, FiniteSets, FiniteSetsExt

CONSTANTS Nodes, Actions,
          Home, Remote,   \* [Actions -> Nodes]: where an action is created, and runs
          Apps, AppNode,  \* application threads, and [Apps -> Nodes]
          Programs,       \* a set of [Apps -> Seq(statement)]: what they do
          MaxTasks,       \* slots of the task pool for network tasks of a node
          MaxServed,      \* slots of the task pool left for requests of others
          MaxConnections, \* max_connections
          NoAction, NoLock

Slots   == 1..MaxTasks
Places  == 0..(2 * MaxConnections)        \* the array plugin->sockets
Ends    == Actions \X {"client", "server"}
Listen  == <<NoAction, "listen">>
Unset   == <<NoAction, "unset">>          \* a place of the array not written yet

ASSUME NetworkAssumption ==
  /\ MaxTasks \in Nat \ {0} /\ MaxServed \in Nat /\ MaxConnections \in Nat \ {0}
  /\ NoAction \notin Actions /\ NoLock \notin Nat \cup Apps

VARIABLES
  plugin,   \* [Nodes -> record]: run, the sockets to select from, send_mutex
  backlog,  \* [Nodes -> Seq(Actions)]: connections not accepted yet
  sock,     \* [Ends -> "none", "open" or "closed"]
  wire,     \* [Ends -> Seq(chunk)]: what an end has still to read
  action,   \* [Actions -> record]: the network actions
  task,     \* [Nodes -> [Slots -> record]]: tasks started on network actions
  free,     \* [Nodes -> Seq(Slots)]: its id pool
  group,    \* [Nodes -> Seq(Slots)]: the queue of the group of a node
  served,   \* [Nodes -> Seq(record)]: the requests of others it has started
  reader,   \* [Nodes -> record]: the network thread
  app,      \* [Apps -> record]: the application threads
  starts    \* how many tasks were started: the argument tells them apart

vars == <<plugin, backlog, sock, wire, action, task, free, group, served, reader, app, starts>>

End(a, side) == <<a, side>>
Peer(e)      == End(e[1], IF e[2] = "client" THEN "server" ELSE "client")
ValidTask(n, h) == task[n][h.id].tag = h.tag

\* What is sent: the operation and the header, then the payload.
Frame(op, h, value) == <<[part |-> "head", op |-> op, id |-> h.id, tag |-> h.tag],
                         [part |-> "body", value |-> value]>>

\* embb_mtapi_network_socket_sendbuffer, one piece: lost if the peer has closed.
Sends(e, chunk) == wire' = IF sock[Peer(e)] = "open"
                           THEN [wire EXCEPT ![Peer(e)] = Append(@, chunk)] ELSE wire

NoTask == [tag |-> 0, state |-> "ERROR", action |-> NoAction, grouped |-> FALSE,
           argument |-> 0, result |-> 0,
           late |-> FALSE]   \* history: written in the place of another task
Idle   == [at |-> "select"]

\* plugin->sockets[plugin->socket_count] = socket; plugin->socket_count++;
\* is run by application threads and by the network thread without a lock, and
\* the count is a plain int.  A thread reads it, stores the socket at that
\* place, may read it again (the build may keep the value), and writes one more.
StoreAt(n, count, e) == plugin' = [plugin EXCEPT ![n].sockets[count] = e]
Count(n, count)      == plugin' = [plugin EXCEPT ![n].socket_count = count + 1]

Init ==
  /\ plugin = [n \in Nodes |-> [up |-> FALSE, run |-> FALSE, lock |-> NoLock,
                 sockets |-> [k \in Places |-> Unset], socket_count |-> 0]]
  /\ backlog = [n \in Nodes |-> <<>>]
  /\ sock = [e \in Ends |-> "none"]
  /\ wire = [e \in Ends |-> <<>>]
  /\ action = [a \in Actions |-> [valid |-> FALSE, num_tasks |-> 0, lock |-> NoLock]]
  /\ task = [n \in Nodes |-> [s \in Slots |-> NoTask]]
  /\ free = [n \in Nodes |-> [s \in Slots |-> s]]
  /\ group = [n \in Nodes |-> <<>>]
  /\ served = [n \in Nodes |-> <<>>]
  /\ reader = [n \in Nodes |-> [Idle EXCEPT !.at = "none"]]
  /\ \E p \in Programs : app = [k \in Apps |->
       [program |-> p[k], at |-> "user", handles |-> <<>>, slot |-> 0, count |-> 0]]
  /\ starts = 0

-----------------------------------------------------------------------------
(* The statements of an application thread                                 *)

Statement(k) == Head(app[k].program)
Ready(k, op) == app[k].at = "user" /\ app[k].program # <<>> /\ Statement(k).op = op
At(k, where) == app[k].at = where
Goes(k, where) == app' = [app EXCEPT ![k].at = where]
Done(k) == app' = [app EXCEPT ![k].at = "user", ![k].program = Tail(@), ![k].count = 0]

\* mtapi_network_plugin_initialize
Initialize(k) ==
  LET n == AppNode[k] IN
  /\ Ready(k, "initialize")
  /\ plugin' = [plugin EXCEPT ![n] = [@ EXCEPT !.up = TRUE, !.run = TRUE,
                  !.socket_count = 1, !.sockets = [@ EXCEPT ![0] = Listen]]]
  /\ reader' = [reader EXCEPT ![n] = Idle]
  /\ Done(k)
  /\ UNCHANGED <<backlog, sock, wire, action, task, group, free, served, starts>>

\* mtapi_network_plugin_finalize: tell the thread and wait for it; then the
\* mutex and the buffer are destroyed and the listening socket closed.
Finalize(k) ==
  /\ Ready(k, "finalize")
  /\ plugin' = [plugin EXCEPT ![AppNode[k]].run = FALSE]
  /\ Goes(k, "join")
  /\ UNCHANGED <<backlog, sock, wire, action, task, group, free, served, reader, starts>>
Joined(k) ==
  LET n == AppNode[k] IN
  /\ At(k, "join") /\ reader[n].at = "none"
  /\ plugin' = [plugin EXCEPT ![n].up = FALSE]
  /\ backlog' = [backlog EXCEPT ![n] = <<>>]
  /\ Done(k)
  /\ UNCHANGED <<sock, wire, action, task, group, free, served, reader, starts>>

\* mtapi_network_action_create: connect,
Connect(k) ==
  /\ Ready(k, "create")
  /\ LET a == Statement(k).a IN
     IF plugin[Remote[a]].up
     THEN /\ backlog' = [backlog EXCEPT ![Remote[a]] = Append(@, a)]
          /\ sock' = [sock EXCEPT ![End(a, "client")] = "open", ![End(a, "server")] = "open"]
          /\ Goes(k, "place")
     ELSE Done(k) /\ UNCHANGED <<backlog, sock>>
  /\ UNCHANGED <<plugin, wire, action, task, group, free, served, reader, starts>>

\* append the socket to the array of the plugin,
ReadCount(k) ==
  /\ app[k].at \in {"place", "load"}
  /\ app' = [app EXCEPT ![k].at = IF @ = "place" THEN "store" ELSE "count",
                        ![k].count = plugin[AppNode[k]].socket_count]
  /\ UNCHANGED <<plugin, backlog, sock, wire, action, task, group, free, served, reader, starts>>
StoreSocket(k) ==
  /\ At(k, "store")
  /\ StoreAt(AppNode[k], app[k].count, End(Statement(k).a, "client"))
  /\ \E where \in {"load", "count"} : Goes(k, where)
  /\ UNCHANGED <<backlog, sock, wire, action, task, group, free, served, reader, starts>>

\* then count it, and mtapi_ext_plugin_action_create.
CreateAction(k) ==
  /\ At(k, "count")
  /\ Count(AppNode[k], app[k].count)
  /\ action' = [action EXCEPT ![Statement(k).a].valid = TRUE]
  /\ Done(k)
  /\ UNCHANGED <<backlog, sock, wire, task, group, free, served, reader, starts>>

\* mtapi_action_delete of a network action waits for its tasks;
\* network_action_finalize closes the socket, which stays in the array.
DeleteAction(k) ==
  /\ Ready(k, "delete")
  /\ LET a == Statement(k).a IN
     IF action[a].valid
     THEN /\ action[a].num_tasks = 0
          /\ action' = [action EXCEPT ![a].valid = FALSE]
          /\ sock' = [sock EXCEPT ![End(a, "client")] = "closed"]
     ELSE UNCHANGED <<action, sock>>
  /\ Done(k)
  /\ UNCHANGED <<plugin, backlog, wire, task, group, free, served, reader, starts>>

\* embb_mtapi_task_start with a plugin action: take a slot,
StartTask(k) ==
  LET n == AppNode[k]
      a == Statement(k).a IN
  /\ Ready(k, "start")
  /\ IF action[a].valid /\ free[n] # <<>>
     THEN LET s == Head(free[n]) IN
            /\ free' = [free EXCEPT ![n] = Tail(@)]
            /\ task' = [task EXCEPT ![n][s] = [NoTask EXCEPT !.tag = task[n][s].tag,
                 !.state = "SCHEDULED", !.action = a, !.grouped = Statement(k).grouped,
                 !.argument = starts + 1]]
            /\ starts' = starts + 1
            /\ app' = [app EXCEPT ![k].at = "lock", ![k].slot = s,
                 ![k].handles = Append(@, [id |-> s, tag |-> task[n][s].tag])]
     ELSE Done(k) /\ UNCHANGED <<task, free, starts>>
  /\ UNCHANGED <<plugin, backlog, sock, wire, action, group, served, reader>>

\* Mutant: the send buffer is used without its mutex.
LockSendAlways(k) ==
  /\ At(k, "lock")
  /\ Goes(k, "head")
  /\ UNCHANGED <<plugin, backlog, sock, wire, action, task, group, free, served, reader, starts>>

\* network_task_start: serialize the sending,
LockSend(k) ==
  /\ At(k, "lock")
  /\ action[Statement(k).a].lock = NoLock
  /\ action' = [action EXCEPT ![Statement(k).a].lock = k]
  /\ Goes(k, "head")
  /\ UNCHANGED <<plugin, backlog, sock, wire, task, group, free, served, reader, starts>>

\* send the request,
Request(k) == LET t == task[AppNode[k]][app[k].slot]
              IN  Frame("START_TASK", [id |-> app[k].slot, tag |-> t.tag], t.argument)
SendHead(k) ==
  /\ At(k, "head")
  /\ Sends(End(Statement(k).a, "client"), Request(k)[1])
  /\ Goes(k, "body")
  /\ UNCHANGED <<plugin, backlog, sock, action, task, group, free, served, reader, starts>>
SendBody(k) ==
  /\ At(k, "body")
  /\ Sends(End(Statement(k).a, "client"), Request(k)[2])
  /\ Goes(k, "sent")
  /\ UNCHANGED <<plugin, backlog, sock, action, task, group, free, served, reader, starts>>

\* then count the task, and only then set its state to running.
CountTask(k) ==
  /\ At(k, "sent")
  /\ action' = [action EXCEPT ![Statement(k).a].num_tasks = @ + 1]
  /\ Goes(k, "counted")
  /\ UNCHANGED <<plugin, backlog, sock, wire, task, group, free, served, reader, starts>>
SetRunning(k) ==
  /\ At(k, "counted")
  /\ task' = [task EXCEPT ![AppNode[k]][app[k].slot].state = "RUNNING"]
  /\ action' = [action EXCEPT ![Statement(k).a].lock = NoLock]
  /\ Done(k)
  /\ UNCHANGED <<plugin, backlog, sock, wire, group, free, served, reader, starts>>

Used(n, s) == \A i \in DOMAIN free[n] : free[n][i] # s

\* embb_mtapi_task_delete
Delete(n, s) ==
  /\ task' = [task EXCEPT ![n][s] = [NoTask EXCEPT !.tag = task[n][s].tag + 1]]
  /\ free' = [free EXCEPT ![n] = Append(@, s)]

\* mtapi_task_wait on the i-th task this thread has started.
Waited(k) == app[k].handles[Statement(k).i]
HasHandle(k) == Statement(k).i \in DOMAIN app[k].handles /\ ValidTask(AppNode[k], Waited(k))
WaitTask(k) ==
  LET n == AppNode[k] IN
  /\ Ready(k, "wait")
  /\ IF HasHandle(k)
     THEN LET s == Waited(k).id IN
          /\ task[n][s].state \notin {"SCHEDULED", "RUNNING"}
          /\ IF task[n][s].grouped THEN UNCHANGED <<task, free>> ELSE Delete(n, s)
     ELSE UNCHANGED <<task, free>>
  /\ Done(k)
  /\ UNCHANGED <<plugin, backlog, sock, wire, action, group, served, reader, starts>>

\* The same with a timeout that expires: the task stays.
WaitTimeout(k) ==
  /\ Ready(k, "wait") /\ Statement(k).timed
  /\ Done(k)
  /\ UNCHANGED <<plugin, backlog, sock, wire, action, task, group, free, served, reader, starts>>

\* mtapi_task_cancel: network_task_cancel does nothing.
CancelTask(k) ==
  LET n == AppNode[k] IN
  /\ Ready(k, "cancel")
  /\ task' = IF HasHandle(k)
             THEN [task EXCEPT ![n][Waited(k).id].state = "CANCELLED"] ELSE task
  /\ Done(k)
  /\ UNCHANGED <<plugin, backlog, sock, wire, action, group, free, served, reader, starts>>

\* mtapi_group_wait_any: a task of the group that is done, which is deleted.
WaitGroup(k) ==
  LET n == AppNode[k] IN
  /\ Ready(k, "any") /\ group[n] # <<>>
  /\ Delete(n, Head(group[n]))
  /\ group' = [group EXCEPT ![n] = Tail(@)]
  /\ Done(k)
  /\ UNCHANGED <<plugin, backlog, sock, wire, action, served, reader, starts>>

-----------------------------------------------------------------------------
(* The network thread                                                      *)

Reads(n, where) == reader' = [reader EXCEPT ![n].at = where]
NextRead(n)     == reader' = [reader EXCEPT ![n] = Idle]

\* embb_mtapi_network_socket_select: the first socket that can be read, be it
\* only to learn that the peer has closed it; nothing at all, ever, once the
\* array holds a socket that this node has closed.
Listed(n)    == {k \in Places : k < plugin[n].socket_count}
Socket(n, k) == plugin[n].sockets[k]
Closed(e)    == e \in Ends /\ sock[e] = "closed"
Deaf(n)      == \E k \in Listed(n) : Closed(Socket(n, k))
Readable(n, e) ==
  \/ e = Listen /\ backlog[n] # <<>>
  \/ e \in Ends /\ (wire[e] # <<>> \/ Closed(Peer(e)))
ReadyPlaces(n) == {k \in Listed(n) : Readable(n, Socket(n, k))}

Select(n) ==
  /\ reader[n].at = "select" /\ plugin[n].run
  /\ ~Deaf(n) /\ ReadyPlaces(n) # {}
  /\ LET e == Socket(n, Min(ReadyPlaces(n))) IN
     IF e = Listen
     THEN /\ reader' = [reader EXCEPT ![n] =
               [at |-> "place", e |-> End(Head(backlog[n]), "server")]]
          /\ backlog' = [backlog EXCEPT ![n] = Tail(@)]
     ELSE /\ reader' = [reader EXCEPT ![n] = [at |-> "head", from |-> Min(ReadyPlaces(n))]]
          /\ UNCHANGED backlog
  /\ UNCHANGED <<plugin, sock, wire, action, task, group, free, served, app, starts>>

\* An uninitialized place of the array can make select fail for good.
SelectFails(n) ==
  /\ reader[n].at = "select" /\ plugin[n].run
  /\ \E k \in Listed(n) : Socket(n, k) = Unset
  /\ Reads(n, "failing")
  /\ UNCHANGED <<plugin, backlog, sock, wire, action, task, group, free, served, app, starts>>

\* The accepted socket is appended to the array.
ReadCountAccepted(n) ==
  /\ reader[n].at \in {"place", "load"}
  /\ reader' = [reader EXCEPT ![n] = [at |-> IF @.at = "place" THEN "store" ELSE "count",
                                      e |-> @.e, count |-> plugin[n].socket_count]]
  /\ UNCHANGED <<plugin, backlog, sock, wire, action, task, group, free, served, app, starts>>
StoreAccepted(n) ==
  /\ reader[n].at = "store"
  /\ StoreAt(n, reader[n].count, reader[n].e)
  /\ \E where \in {"load", "count"} : Reads(n, where)
  /\ UNCHANGED <<backlog, sock, wire, action, task, group, free, served, app, starts>>
CountAccepted(n) ==
  /\ reader[n].at = "count"
  /\ Count(n, reader[n].count)
  /\ NextRead(n)
  /\ UNCHANGED <<backlog, sock, wire, action, task, group, free, served, app, starts>>

\* embb_mtapi_network_socket_recvbuffer_sized reads from the place that was
\* selected, and blocks until the bytes are there.
From(n)     == Socket(n, reader[n].from)
Arrived(n)  == wire[From(n)] # <<>>
Piece(n)    == Head(wire[From(n)])
Receives(n) == wire' = [wire EXCEPT ![From(n)] = Tail(@)]

\* The operation and the header; a closed connection is ignored.
ReceiveHead(n) ==
  /\ reader[n].at = "head"
  /\ IF Arrived(n)
     THEN /\ Receives(n)
          /\ reader' = [reader EXCEPT ![n] =
               IF Piece(n).part = "head"
               THEN [at |-> Piece(n).op, from |-> @.from, id |-> Piece(n).id, tag |-> Piece(n).tag]
               ELSE [@ EXCEPT !.at = "garbled"]]
     ELSE Closed(Peer(From(n))) /\ NextRead(n) /\ UNCHANGED wire
  /\ UNCHANGED <<plugin, backlog, sock, action, task, group, free, served, app, starts>>

\* START_TASK: read the arguments, start a detached task.  When the task pool
\* is full the request is lost.
ReceiveRequest(n) ==
  LET r == reader[n] IN
  /\ r.at = "START_TASK" /\ Arrived(n)
  /\ Receives(n)
  /\ IF Piece(n).part = "body"
     THEN /\ NextRead(n)
          /\ served' = IF Len(served[n]) < MaxServed
               THEN [served EXCEPT ![n] = Append(@, [at |-> "scheduled", e |-> From(n),
                       id |-> r.id, tag |-> r.tag, argument |-> Piece(n).value])]
               ELSE served
     ELSE Reads(n, "garbled") /\ UNCHANGED served
  /\ UNCHANGED <<plugin, backlog, sock, action, task, group, app, starts, free>>

\* RETURN_RESULT: read the result and see whether the handle is still valid,
\* ("seen" is history: the tag that the slot has then)
Received(n, r) == [at |-> "copy", id |-> r.id, a |-> task[n][r.id].action,
                   value |-> Piece(n).value, seen |-> task[n][r.id].tag]

\* Mutant: the handle is not checked.
ReceiveResultUnchecked(n) ==
  LET r == reader[n] IN
  /\ r.at = "RETURN_RESULT" /\ Arrived(n)
  /\ Receives(n)
  /\ reader' = [reader EXCEPT ![n] =
       IF Piece(n).part # "body" THEN [r EXCEPT !.at = "garbled"]
       ELSE IF task[n][r.id].action # NoAction THEN Received(n, r)
       ELSE Idle]
  /\ UNCHANGED <<plugin, backlog, sock, action, task, group, free, served, app, starts>>

ReceiveResult(n) ==
  LET r == reader[n] IN
  /\ r.at = "RETURN_RESULT" /\ Arrived(n)
  /\ Receives(n)
  /\ reader' = [reader EXCEPT ![n] =
       IF Piece(n).part # "body" THEN [r EXCEPT !.at = "garbled"]
       ELSE IF ValidTask(n, r) /\ action[task[n][r.id].action].valid THEN Received(n, r)
       ELSE Idle]
  /\ UNCHANGED <<plugin, backlog, sock, action, task, group, free, served, app, starts>>

\* copy the result and the error code into the slot, which is not looked at again,
Overtaken(n) == task[n][reader[n].id].tag # reader[n].seen
CopyResult(n) ==
  /\ reader[n].at = "copy"
  /\ task' = [task EXCEPT ![n][reader[n].id] =
       [@ EXCEPT !.result = reader[n].value, !.late = @ \/ Overtaken(n)]]
  /\ Reads(n, "complete")
  /\ UNCHANGED <<plugin, backlog, sock, wire, action, group, free, served, app, starts>>
Complete(n) ==
  /\ reader[n].at = "complete"
  /\ task' = [task EXCEPT ![n][reader[n].id] =
       [@ EXCEPT !.state = "COMPLETED", !.late = @ \/ Overtaken(n)]]
  /\ Reads(n, "uncount")
  /\ UNCHANGED <<plugin, backlog, sock, wire, action, group, free, served, app, starts>>

\* count it for its action, and tell its group.
CountDown(n) ==
  /\ reader[n].at = "uncount"
  /\ action' = [action EXCEPT ![reader[n].a].num_tasks = @ - 1]
  /\ Reads(n, "push")
  /\ UNCHANGED <<plugin, backlog, sock, wire, task, group, free, served, app, starts>>
PushToGroup(n) ==
  /\ reader[n].at = "push"
  /\ group' = IF task[n][reader[n].id].grouped
              THEN [group EXCEPT ![n] = Append(@, reader[n].id)] ELSE group
  /\ NextRead(n)
  /\ UNCHANGED <<plugin, backlog, sock, wire, action, task, free, served, app, starts>>

\* The loop ends when the plugin is being finalized.
ThreadEnds(n) ==
  /\ reader[n].at \in {"select", "failing"} /\ ~plugin[n].run
  /\ Reads(n, "none")
  /\ UNCHANGED <<plugin, backlog, sock, wire, action, task, group, free, served, app, starts>>

-----------------------------------------------------------------------------
(* The worker that runs a request calls embb_mtapi_network_task_complete   *)

ServedGoes(n, i, where) == served' = [served EXCEPT ![n][i].at = where]
Result(r) == Frame("RETURN_RESULT", [id |-> r.id, tag |-> r.tag], r.argument)

Execute(n, i) ==
  /\ served[n][i].at = "scheduled"
  /\ ServedGoes(n, i, "executed")
  /\ UNCHANGED <<plugin, backlog, sock, wire, action, task, group, reader, app, starts, free>>

\* The plugin's one send buffer serves all connections.  After the plugin is
\* finalized the buffer has no room and an empty one is sent.
LockReply(n, i) ==
  /\ served[n][i].at = "executed"
  /\ IF plugin[n].up
     THEN /\ plugin[n].lock = NoLock
          /\ plugin' = [plugin EXCEPT ![n].lock = i]
          /\ ServedGoes(n, i, "head")
     ELSE ServedGoes(n, i, "lost") /\ UNCHANGED plugin
  /\ UNCHANGED <<backlog, sock, wire, action, task, group, reader, app, starts, free>>
ReplyHead(n, i) ==
  /\ served[n][i].at = "head"
  /\ Sends(served[n][i].e, Result(served[n][i])[1])
  /\ ServedGoes(n, i, "body")
  /\ UNCHANGED <<plugin, backlog, sock, action, task, group, reader, app, starts, free>>

\* Mutant: the mutex is not released.
ReplyBodyKeepsLock(n, i) ==
  /\ served[n][i].at = "body"
  /\ Sends(served[n][i].e, Result(served[n][i])[2])
  /\ ServedGoes(n, i, "replied")
  /\ UNCHANGED <<plugin, backlog, sock, action, task, group, free, reader, app, starts>>

ReplyBody(n, i) ==
  /\ served[n][i].at = "body"
  /\ Sends(served[n][i].e, Result(served[n][i])[2])
  /\ plugin' = [plugin EXCEPT ![n].lock = NoLock]
  /\ ServedGoes(n, i, "replied")
  /\ UNCHANGED <<backlog, sock, action, task, group, reader, app, starts, free>>

\* finalize does not wait for a reply: it destroys the mutex and frees the
\* buffer, and what the worker has not sent by then is never sent.
LoseReply(n, i) ==
  /\ served[n][i].at \in {"head", "body"} /\ ~plugin[n].up
  /\ ServedGoes(n, i, "lost")
  /\ UNCHANGED <<plugin, backlog, sock, wire, action, task, group, reader, app, starts, free>>

-----------------------------------------------------------------------------

AppStep(k) ==
  \/ Initialize(k) \/ Finalize(k) \/ Joined(k)
  \/ Connect(k) \/ ReadCount(k) \/ StoreSocket(k) \/ CreateAction(k) \/ DeleteAction(k)
  \/ StartTask(k) \/ LockSend(k) \/ SendHead(k) \/ SendBody(k) \/ CountTask(k) \/ SetRunning(k)
  \/ WaitTask(k) \/ WaitTimeout(k) \/ CancelTask(k) \/ WaitGroup(k)
ReaderStep(n) ==
  \/ Select(n) \/ SelectFails(n) \/ ReadCountAccepted(n) \/ StoreAccepted(n) \/ CountAccepted(n)
  \/ ReceiveHead(n) \/ ReceiveRequest(n) \/ ReceiveResult(n)
  \/ CopyResult(n) \/ Complete(n) \/ CountDown(n) \/ PushToGroup(n) \/ ThreadEnds(n)
WorkerStep(n, i) ==
  /\ i \in DOMAIN served[n]
  /\ Execute(n, i) \/ LockReply(n, i) \/ ReplyHead(n, i) \/ ReplyBody(n, i) \/ LoseReply(n, i)

Next ==
  \/ \E k \in Apps : AppStep(k)
  \/ \E n \in Nodes : ReaderStep(n) \/ \E i \in 1..MaxServed : WorkerStep(n, i)
Spec == Init /\ [][Next]_vars

\* No network thread stops, and the other threads do not stop all together.
\* That is less than the scheduler of the operating system gives; it is enough
\* because the other threads take finitely many steps.
OtherStep ==
  \/ \E k \in Apps : AppStep(k)
  \/ \E n \in Nodes, i \in 1..MaxServed : WorkerStep(n, i)
FairSpec == Spec /\ WF_vars(OtherStep) /\ \A n \in Nodes : WF_vars(ReaderStep(n))

-----------------------------------------------------------------------------
(* Properties                                                              *)

\* The ends that a node should listen to: those that its thread has appended,
\* or an application thread.  One is lost when two appends got the same place,
\* or when the count went back.
Appending(e) ==
  \/ \E n \in Nodes : reader[n].at \in {"place", "store", "load", "count"} /\ reader[n].e = e
  \/ \E k \in Apps : /\ app[k].at \in {"place", "store", "load", "count"}
                     /\ e = End(Statement(k).a, "client")
Waiting(n, e)  == \E i \in DOMAIN backlog[n] : e = End(backlog[n][i], "server")
EndsOf(n)      == {End(a, "client") : a \in {b \in Actions : Home[b] = n}} \cup
                  {End(a, "server") : a \in {b \in Actions : Remote[b] = n}}
Lost(n) == \E e \in EndsOf(n) :
  /\ sock[e] = "open" /\ ~Appending(e) /\ ~Waiting(n, e)
  /\ \A k \in Listed(n) : Socket(n, k) # e

\* A node that may not answer, or not hear, any more: it ends; it has lost a
\* socket or lists a place that is not written; or it lists a connection that
\* one side has closed.
Broken(n) ==
  \/ ~plugin[n].run \/ reader[n].at = "failing" \/ Lost(n)
  \/ \E k \in Listed(n) : LET e == Socket(n, k) IN
       e = Unset \/ Closed(e) \/ (e \in Ends /\ Closed(Peer(e)))

\* The server had no slot for the request of task s.
Refused(n, s) ==
  LET m == Remote[task[n][s].action] IN
  /\ Len(served[m]) = MaxServed
  /\ \A i \in DOMAIN served[m] : served[m][i].argument # task[n][s].argument
Impaired(n, s) ==
  Broken(n) \/ Broken(Remote[task[n][s].action]) \/ Refused(n, s)

\* Streams of bytes are read in whole frames as long as no socket is lost, and
\* a task that is completed has the result of its own request, whatever the
\* order in which requests, connections and workers are served, also when a
\* task was cancelled, deleted and its slot used again before the answer came:
\* that is up to the two mutexes, and to the id and the tag that travel with a
\* request (network_task_start, embb_mtapi_network_task_complete,
\* embb_mtapi_network_thread).  Excepted is a task whose slot the network
\* thread wrote after it had seen another task there: the code looks at the
\* handle once and writes later (network.c:360-380).
RightAnswer ==
  \A n \in Nodes :
    /\ reader[n].at = "garbled" => Lost(n)
    /\ \A s \in Slots : LET t == task[n][s] IN
         Used(n, s) /\ t.state = "COMPLETED" => t.result = t.argument \/ t.late

\* Task s waits for its result.
Unanswered(n, s) == Used(n, s) /\ task[n][s].result = 0

\* Every request that is sent is answered: in the end (the programs are finite)
\* a task that has no result is one that its own nodes could not serve
\* (embb_mtapi_network_thread serves the sockets one by one and always begins
\* with the first).
EveryRequestAnswered ==
  <>[](\A n \in Nodes, s \in Slots : Unanswered(n, s) => Impaired(n, s))

\* mtapi_task_wait without a timeout returns.
Waits(k) == Ready(k, "wait") /\ ~Statement(k).timed /\ HasHandle(k)
WaitsReturn ==
  \A k \in Apps : Waits(k) ~> (Waits(k) => Impaired(AppNode[k], Waited(k).id))
=============================================================================
