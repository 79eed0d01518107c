SPECIFICATION Spec
CONSTANTS
    w1 = w1
    w2 = w2
    deploy = deploy
    Absent = Absent
    Replicas = {r1}
    Checks = {c1}
    Webhooks = {w1, w2}
    Resources <- MCResources
    Specs <- TwoHooks
    Readings <- TwoReadings
    MaxEdits = 1
    MaxChanges = 3
    MaxFaults = 1
CHECK_DEADLOCK FALSE
INVARIANT NothingToResolve
