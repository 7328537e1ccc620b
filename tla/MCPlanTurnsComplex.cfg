CONSTANTS
    Topics <- MCTopics
    Questions <- MCQuestions
    Replies <- MCReplies
    Entries = {"hybrid"}
    Carried = {FALSE}
    MaxTurns = 1
    MaxValues = 2
    Rewritten <- MCRewritten
    Complex <- MCComplex
SPECIFICATION Spec
INVARIANT NullChecksFallBack
CHECK_DEADLOCK FALSE
