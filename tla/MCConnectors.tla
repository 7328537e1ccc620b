---------------------------- MODULE MCConnectors ----------------------------
(***************************************************************************)
(* Small instances of Connectors for TLC.  Requests are interchangeable,   *)
(* so it is enough to start from the assignments of operations to requests *)
(* 1, 2, 3, ... that are sorted: a reduction by symmetry that, unlike a    *)
(* SYMMETRY clause, is also sound for the liveness property.               *)
(***************************************************************************)
EXTENDS Connectors

Rank == [query |-> 1, introspect |-> 2, update |-> 3, delete |-> 4]

MCInit ==
    /\ Init
    /\ \A r, q \in Request : r < q => Rank[req[r].op] <= Rank[req[q].op]

MCSpec == MCInit /\ [][Next]_vars /\ Fairness
=============================================================================
