SPECIFICATION Spec
CONSTANTS
    w1 = w1
    w2 = w2
    deploy = deploy
    Absent = Absent
    Replicas = {r1, r2}
    Checks = {c1}
    Webhooks = {w1}
    Resources <- MCResources
    Specs <- InvalidOrOneHook
    Readings <- TwoReadings
    MaxEdits = 3
    MaxChanges = 1
    MaxFaults = 0
CHECK_DEADLOCK FALSE
CONSTRAINT ThirdEditRecreates
SYMMETRY ReplicaSymmetry
INVARIANTS
    HandInv
PROPERTIES
    StatusDescribesCurrentSpec
    PromiseKept
