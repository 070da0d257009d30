\* Requests are bounded: the link stops when they are used up.
SPECIFICATION MCSpec
CONSTANT MaxRequests = 6
INVARIANTS
    AnsweredMeansDone
    FramesArrive
    ValuesArrive
CHECK_DEADLOCK FALSE
