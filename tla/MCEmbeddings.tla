---------------------------- MODULE MCEmbeddings ----------------------------
(***************************************************************************)
(* Small instances of Embeddings for TLC.  In MCSpec introspections 1 and  *)
(* 2, which overlapped, are over when the server starts: each has left its *)
(* table, and everything or nothing has a vector.                          *)
(***************************************************************************)
EXTENDS Embeddings

MCInit ==
    /\ used \in SUBSET Term
    /\ rows = used \union ({1, 2} \X Table)
    /\ pc = [u \in Task |-> CASE u \in {Request(1), Request(2)} -> "done"
                              [] u \in {Job(1), Job(2)} -> "ended"
                              [] OTHER -> "idle"]
    /\ embedded \in {{}, rows}
    /\ todo = [u \in Task |-> {}]
    /\ pending = [i \in Introspection |-> {}]
    /\ held = [u \in Task |-> {}]
    /\ counted = {}
    /\ progress = NoProgress
    /\ restarts = 0
    /\ quiet = NoTask

MCSpec == MCInit /\ [][Next]_vars /\ Fairness
=============================================================================
