SPECIFICATION Spec
CONSTANTS
    Interval = 4
    MaxDelay = 2
    MaxTime = 9
    MaxChanges = 0
    MaxEarly = 5
CHECK_DEADLOCK FALSE
INVARIANT EvaluationSettles
