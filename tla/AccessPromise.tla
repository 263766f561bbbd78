--------------------------- MODULE AccessPromise ---------------------------
(***************************************************************************)
(* What a reader of the access answers may rely on, whatever is stored     *)
(* behind them: one graph is published at a time, and the answers are      *)
(* exactly those of that graph.                                            *)
(***************************************************************************)
CONSTANTS
    Graphs,      \* what can be published
    FirstGraph,  \* published when the process starts without a snapshot
    NoGraph,     \* published while there is no process
    Exact        \* Exact[G]: the answers the full calculation gives on G

VARIABLES graph, answers

Init == graph = FirstGraph /\ answers = Exact[FirstGraph]

Publish == graph' \in Graphs /\ answers' = Exact[graph']

Stop == graph' = NoGraph /\ answers' = << >>

Next == Publish \/ Stop

Spec == Init /\ [][Next]_<<graph, answers>>
=============================================================================
