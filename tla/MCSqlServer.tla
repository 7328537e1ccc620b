---------------------------- MODULE MCSqlServer ----------------------------
(***************************************************************************)
(* A small instance of SqlServer for TLC: a pool of one connection, so     *)
(* that calls wait for each other, and statements at, below and above the  *)
(* limit of rows.                                                          *)
(***************************************************************************)
EXTENDS SqlServer

S(keyword, top, rows) ==
    [keyword |-> keyword, top |-> top, inner |-> FALSE, setop |-> FALSE, safe |-> TRUE,
     rows |-> rows, partly |-> rows]

\* Four rows EXCEPT two of them, of which TOP 3 leaves one; one in
\* parentheses; a lower-case select with a SELECT in its NOT IN.
Except == [S("SELECT", FALSE, 2) EXCEPT !.setop = TRUE, !.partly = 1]
Parenthesised == [S("other", FALSE, 5) EXCEPT !.setop = TRUE]
NotIn == [S("select", FALSE, 1) EXCEPT !.inner = TRUE, !.partly = 3]

MCStatement == {S("SELECT", FALSE, 2), S("SELECT", FALSE, 3), S("distinct", FALSE, 1),
                S("SELECT", TRUE, 4), S("select", FALSE, 1), S("with", FALSE, 1),
                [S("SELECT", FALSE, 1) EXCEPT !.safe = FALSE],
                Except, Parenthesised, NotIn}

\* Only execute_query looks at its statement, and calls of the same methods
\* differ by their numbers alone.
MCOrder == <<"test", "schemas", "tables", "samples", "execute", "disconnect">>
Rank(c) == CHOOSE i \in 1 .. 6 : MCOrder[i] = call[c].op

MCInit ==
    /\ Init
    /\ \A c \in Call : call[c].op # "execute" => call[c].statement = S("distinct", FALSE, 1)
    /\ \A c, d \in Call : c < d => Rank(c) <= Rank(d)

MCSpec == MCInit /\ [][Next]_vars /\ Fairness
=============================================================================
