CONSTANTS
    Topics <- MCTopics
    Questions <- MCQuestions
    Replies <- MCReplies
    Entries = {"regex", "groq", "hybrid"}
    Carried = {TRUE, FALSE}
    MaxTurns = 2
    MaxValues = 2
    Rewritten <- MCRewritten
    Complex <- MCComplex
SPECIFICATION Spec
INVARIANTS TypeOK ParamsAligned NamesResolve OneClausePerField OwnRowsOnly GateHolds ComplexFallsBack
PROPERTIES PlanIsMemory TurnsEnd
CHECK_DEADLOCK FALSE
