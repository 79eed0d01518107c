SPECIFICATION ElectionSpec
CONSTANTS
    w1 = w1
    w2 = w2
    deploy = deploy
    Absent = Absent
    Replicas = {r1, r2}
    Checks = {c1}
    Webhooks = {w1}
    Resources <- MCResources
    Specs <- OneHook
    Readings <- TwoReadings
    MaxEdits = 1
    MaxChanges = 1
    MaxFaults = 0
    MaxHandovers = 1
    ObstaclesMet <- AccessOnly
CHECK_DEADLOCK FALSE
PROPERTIES
    StatusConverges
    LeaderNotifies
    PromiseKept
