SPECIFICATION FairSpec
CONSTANTS
    MaxLoads = 3
    MaxFaults = 2
CHECK_DEADLOCK FALSE
INVARIANTS
    TypeOK
    LeaksAreNamed
    RendersWhatWasFetched
    FetchesDoNotOverlap
    SendsNeverBlock
    IndInv
PROPERTY StopReleasesWorker
