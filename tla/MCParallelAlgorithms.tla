------------------------ MODULE MCParallelAlgorithms ------------------------
(***************************************************************************)
(* Every range of three to five small values under every block size, and   *)
(* longer ranges chosen for their trees: six blocks (the unbalanced tree   *)
(* whose numbers exceed the number of its tasks), nine blocks (refused),   *)
(* eight elements (quick sort's median of nine), and eleven elements on    *)
(* which quick sort spawns more tasks than its check allows for.           *)
(***************************************************************************)
EXTENDS ParallelAlgorithms

Array(s) == [i \in 0 .. Len(s) - 1 |-> s[i + 1]]

Arrays(n, v) == [0 .. n - 1 -> v]

Call(alg, op, data, block, cores) ==
    [alg |-> alg, op |-> op, data |-> data, block |-> block, cores |-> cores,
     distance |-> Cardinality(DOMAIN data)]

Sizes(n, v, blocks, kinds) ==
    {Call(k[1], k[2], d, b, 2) : k \in kinds, d \in Arrays(n, v), b \in blocks}

Folds == {<<"ForEach", "add">>, <<"Reduce", "concat">>, <<"Count", "add">>,
          <<"Scan", "add">>}
Sorts == {<<"MergeSort", "add">>, <<"QuickSort", "add">>}

(* The numbers of elements are the same for all: distinct elements show    *)
(* where each one went.                                                    *)
Distinct(n) == [i \in 0 .. n - 1 |-> i + 1]

Folding == {Call(k[1], k[2], Distinct(n), b, 2) :
               k \in Folds, n \in 1 .. 5, b \in 0 .. 3}
           \cup {Call("Count", "add", d, 1, 2) : d \in Arrays(3, 0 .. 1)}

Sorting == Sizes(3, 0 .. 2, 0 .. 2, Sorts) \cup Sizes(4, 0 .. 3, 1 .. 3, Sorts)
           \cup Sizes(5, 0 .. 2, 1 .. 3, Sorts)
           \cup Sizes(8, 0 .. 2, {4}, {<<"QuickSort", "add">>})
           \cup {Call("MergeSort", "add", Array(<<2, 3, 1, 2, 3, 1, 2>>),
                      b, 2) : b \in 2 .. 4}

Large == {Call(k[1], k[2], Distinct(6), 1, 2) : k \in Folds}
         \cup {Call("Scan", "add", Distinct(9), 1, 2),
               Call("QuickSort", "add",
                    Array(<<8, 3, 5, 1, 6, 4, 7, 0, 10, 2, 9>>), 2, 2)}

Refused == {Call("ForEach", "add", <<>>, 0, 2),
            Call("Reduce", "concat", Distinct(2), 0, 0),
            [Call("MergeSort", "add", Distinct(2), 0, 2)
                EXCEPT !.distance = -2]}

Others == {Call("Invoke", "add", Distinct(n), 0, 2) : n \in {2, 5}}
          \cup {Call("Continuation", "add", Distinct(n), 0, 2) : n \in {1, 3}}

AllCalls == Folding \cup Sorting \cup Large \cup Refused \cup Others

MaxCalls == {Call("Scan", "max", Distinct(n), 1, 2) : n \in 1 .. 4}

=============================================================================
