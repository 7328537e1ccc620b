---------------------------- MODULE FilterMemory ----------------------------
(***************************************************************************)
(* What the accumulation of filters promises (the docstrings of            *)
(* plan_updater.py): as long as the topic stays, every answer still        *)
(* honours what was said before.  A field that may have several values     *)
(* collects them, any other has the last one.  The order of the filters,   *)
(* their operators and how they get into the SQL are left to PlanTurns.    *)
(***************************************************************************)
CONSTANTS Topics,   \* what questions are about
          Multi,    \* the fields that collect values
          Said(_)   \* the sets of filters that a question about a topic may state

VARIABLES topic,    \* the topic of the last answer, NoTopic at first
          wanted    \* what is wanted of each field: a set of values

NoTopic == <<>>
Nothing == [f \in {} |-> {}]

Init == topic = NoTopic /\ wanted = Nothing

\* A question adds to what was said about its topic.
Updated(said) ==
    [f \in DOMAIN wanted \union DOMAIN said |->
        IF f \notin DOMAIN said THEN wanted[f]
        ELSE IF f \in DOMAIN wanted \intersect Multi THEN wanted[f] \union said[f]
        ELSE said[f]]

Remember(tp, said) ==
    /\ topic' = tp
    /\ wanted' = IF tp = topic THEN Updated(said) ELSE said

\* A switch of the topic, an answer without a plan, or the user clears it:
\* all is forgotten, never a part.
Forget == topic' = NoTopic /\ wanted' = Nothing

Next ==
    \/ \E tp \in Topics : \E said \in Said(tp) : Remember(tp, said)
    \/ Forget

Spec == Init /\ [][Next]_<<topic, wanted>>
=============================================================================
