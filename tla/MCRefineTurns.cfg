CONSTANTS
    Topics <- MCTopics
    Findable = {"skill", "start_date", "end_date", "resource_name"}
    MaxTurns = 3
SPECIFICATION Spec
INVARIANTS TypeOK RefinesBaseOnly BaseIsLastResort PlannedNeverRefines
CHECK_DEADLOCK FALSE
