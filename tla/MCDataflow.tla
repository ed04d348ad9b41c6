----------------------------- MODULE MCDataflow -----------------------------
(***************************************************************************)
(* A network with every kind of node.  Depending on the truth value of the *)
(* source, a token goes from the switch to the selection through a serial  *)
(* process or directly, so that it overtakes the tokens before it:         *)
(*                                                                         *)
(*   source --> parallel --> switch --> serial --> select --> sink         *)
(*                                  -------------->                        *)
(***************************************************************************)
EXTENDS Dataflow, TLC

TheSources == <<"source", "constant">>
TheArity ==
  ("parallel" :> 1) @@ ("switch" :> 2) @@ ("serial" :> 1) @@ ("select" :> 3) @@ ("sink" :> 2)
TheTargets ==
  ("source"   :> << << <<"parallel", 1>> >>, << <<"switch", 1>>, <<"select", 1>> >> >>) @@
  ("constant" :> << << <<"sink", 2>> >> >>) @@
  ("parallel" :> << << <<"switch", 2>> >> >>) @@
  ("switch"   :> << << <<"serial", 1>> >>, << <<"select", 3>> >> >>) @@
  ("serial"   :> << << <<"select", 2>> >> >>) @@
  ("select"   :> << << <<"sink", 1>> >> >>)
TheQueueOf == ("serial" :> "first") @@ ("sink" :> "second")
=============================================================================
