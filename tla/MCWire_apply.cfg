\* apply_screen, whose labels are sent without waiting.
SPECIFICATION MCSpec
CONSTANT MaxRequests = 6
INVARIANT AppliedMeansDone
CHECK_DEADLOCK FALSE
