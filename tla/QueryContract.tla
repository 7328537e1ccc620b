--------------------------- MODULE QueryContract ---------------------------
(***************************************************************************)
(* What POST /query promises the application database: one turn is one     *)
(* atomic change.  An answer that carries an execution id comes with that  *)
(* execution in the log; any other ending of the turn, refusal, error or   *)
(* answer without an id, leaves the log as it was, and only an answer ever *)
(* gives the chat its automatic title.                                     *)
(***************************************************************************)
EXTENDS Naturals

CONSTANT MaxTurns   \* the turns of a conversation

VARIABLES
    turn,     \* the number of questions asked so far
    busy,     \* the last one is being processed
    code,     \* how the last turn ended, "none" before
    id,       \* its answer has an execution id
    log,      \* the turns with an execution in query_executions
    titled    \* the chat has its automatic title

contractVars == <<turn, busy, code, id, log, titled>>

Init ==
    /\ turn = 0 /\ busy = FALSE
    /\ code = "none" /\ id = FALSE
    /\ log = {} /\ titled = FALSE

Ask ==
    /\ ~ busy /\ turn < MaxTurns
    /\ busy' = TRUE /\ turn' = turn + 1
    /\ code' = "none" /\ id' = FALSE
    /\ UNCHANGED <<log, titled>>

Answer ==
    /\ busy /\ busy' = FALSE
    /\ code' = "ok"
    /\ id' \in BOOLEAN
    /\ log' = IF id' THEN log \union {turn} ELSE log
    /\ titled' \in {titled, TRUE}
    /\ UNCHANGED turn

Refuse ==
    /\ busy /\ busy' = FALSE
    /\ code' \in {"refused", "failed"}
    /\ id' = FALSE
    /\ UNCHANGED <<turn, log, titled>>

\* The user renames or deletes the chat, with or without a turn running.
EditChat ==
    /\ log' \in SUBSET log
    /\ titled' = FALSE
    /\ UNCHANGED <<turn, busy, code, id>>

Next == Ask \/ Answer \/ Refuse \/ EditChat

Spec == Init /\ [][Next]_contractVars
=============================================================================
