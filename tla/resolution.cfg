SPECIFICATION DeliverySpec
CONSTANTS
    Nil = Nil
    Requests <- Sources
    MaxRedirects = 2
    Secrets <- MCSecrets
    ConfigMaps <- MCConfigMaps
INVARIANTS
    ClonesAsAsked
    HostKeysArePinned
    ShownWhereAsked
    IndInv
PROPERTY NoManifestLost
