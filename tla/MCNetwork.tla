----------------------------- MODULE MCNetwork -----------------------------
(***************************************************************************)
(* Instances of Network.  Each is a set of programs for three application  *)
(* threads: two on the node "client", one on the node "server".            *)
(***************************************************************************)
EXTENDS Network, TLC

CONSTANTS app1, app2, app3

TheNodes   == {"client", "server"}
TheActions == {"there", "back"}
TheHome    == [a \in TheActions |-> IF a = "back" THEN "server" ELSE "client"]
TheRemote  == [a \in TheActions |-> IF a = "back" THEN "client" ELSE "server"]
TheAppNode == (app1 :> "client") @@ (app2 :> "client") @@ (app3 :> "server")

initialize == [op |-> "initialize"]
finalize   == [op |-> "finalize"]
create(a)  == [op |-> "create", a |-> a]
delete(a)  == [op |-> "delete", a |-> a]
start(a)   == [op |-> "start", a |-> a, grouped |-> FALSE]
grouped(a) == [op |-> "start", a |-> a, grouped |-> TRUE]
wait(i)    == [op |-> "wait", i |-> i, timed |-> FALSE]
trywait(i) == [op |-> "wait", i |-> i, timed |-> TRUE]
cancel(i)  == [op |-> "cancel", i |-> i]
any        == [op |-> "any"]

Threads3(p, q, r) == (app1 :> p) @@ (app2 :> q) @@ (app3 :> r)

\* Two threads use one connection.
Shared == Threads3(
  <<initialize, create("there"), start("there"), trywait(1), cancel(1)>>,
  <<start("there"), wait(1)>>,
  <<initialize>>)

\* A task is deleted and its slot used again while its answer may be on its
\* way; three requests for two slots of the server.
Reused == Threads3(
  <<initialize, create("there"), start("there"), cancel(1), wait(1), start("there"), wait(2)>>,
  <<start("there")>>,
  <<initialize>>)

\* Both nodes serve and ask, and append to their arrays at the same time.
Mutual == Threads3(
  <<initialize, create("there"), grouped("there"), any>>,
  <<>>,
  <<initialize, create("back"), start("back"), wait(1)>>)

\* A node deletes its action and ends; one ends that has requests to answer.
Closes == Threads3(
  <<initialize, create("there"), grouped("there"), any, delete("there"), finalize>>,
  <<>>,
  <<initialize>>)
Leaves == Threads3(
  <<initialize, finalize>>,
  <<>>,
  <<initialize, create("back"), start("back"), start("back"), wait(2)>>)

ThePrograms == {Shared, Reused, Mutual, Closes, Leaves}

\* The least that can be done with the plugin.
OneTask == {Threads3(<<initialize, create("there"), start("there"), wait(1)>>, <<>>, <<initialize>>)}
=============================================================================
