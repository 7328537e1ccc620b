CONSTANTS
    Topics <- MCTopics
    Questions <- MCQuestions
    Replies <- MCReplies
    Entries = {"regex"}
    Carried = {FALSE}
    MaxTurns = 2
    MaxValues = 2
    Rewritten <- MCRewritten
    Complex <- MCComplex
SPECIFICATION Spec
PROPERTY FollowUpKeepsFilters
CHECK_DEADLOCK FALSE
