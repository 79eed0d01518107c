SPECIFICATION FairSpec
CONSTANTS
    w1 = w1
    w2 = w2
    deploy = deploy
    Absent = Absent
    Replicas = {r1}
    Checks = {c1}
    Webhooks = {w1, w2}
    Resources <- MCResources
    Specs <- AnySpec
    Readings <- TwoReadings
    MaxEdits = 2
    MaxChanges = 2
    MaxFaults = 2
CHECK_DEADLOCK FALSE
INVARIANTS
    TypeOK
    IndInv
    NoCheckForgotten
    GaugeMatchesStatus
    ResolvedOnlyAfterDrift
    QuietInv
PROPERTIES
    FingerprintEarned
    NoRepeat
    StatusConverges
    NotificationConverges
