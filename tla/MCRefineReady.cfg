CONSTANTS
    Topics <- MCTopics
    Findable = {"skill", "resource_name"}
    MaxTurns = 2
SPECIFICATION Spec
INVARIANT RefinedIsReady
CHECK_DEADLOCK FALSE
