---------------------------- MODULE MCQueryTurn ----------------------------
(***************************************************************************)
(* A small catalog for QueryTurn: two intents of domain resource, one of   *)
(* them a topic switch away from the other, and one of user_self.          *)
(***************************************************************************)
EXTENDS QueryTurn

MCIntent == {"active_resources", "benched_resources", "my_projects"}
MCSelfIntent == {"my_projects"}
MCDomainOf == [i \in MCIntent |-> IF i \in MCSelfIntent THEN "user_self" ELSE "resource"]
MCSwitches == {<<"active_resources", "benched_resources">>}
=============================================================================
