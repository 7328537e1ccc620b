--------------------------- MODULE TopicSwitches ---------------------------
(***************************************************************************)
(* _is_topic_switch (intent_classifier.py), which execute_nl_query asks    *)
(* whether the context of the answer is to be dropped.                     *)
(***************************************************************************)

NoTopic == <<>>

_RESOURCE_TOPIC_SWITCHES ==
    {<<"active_resources", "benched_resources">>, <<"active_resources", "resource_by_skill">>,
     <<"active_resources", "resource_availability">>, <<"benched_resources", "active_resources">>,
     <<"benched_resources", "resource_by_skill">>, <<"benched_resources", "resource_availability">>,
     <<"resource_by_skill", "active_resources">>, <<"resource_by_skill", "benched_resources">>}

_PROJECT_TOPIC_SWITCHES ==
    {<<"active_projects", "project_budget">>, <<"active_projects", "project_timeline">>,
     <<"project_by_client", "project_budget">>, <<"project_timeline", "project_resources">>}

\* A topic is a pair <<domain, intent>>, or NoTopic.
_is_topic_switch(current, last) ==
    /\ last # NoTopic
    /\ current # NoTopic
    /\ \/ current[1] # last[1]
       \/ current[1] = "resource" /\ <<last[2], current[2]>> \in _RESOURCE_TOPIC_SWITCHES
       \/ current[1] = "project" /\ <<last[2], current[2]>> \in _PROJECT_TOPIC_SWITCHES
=============================================================================
