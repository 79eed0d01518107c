SPECIFICATION Spec
CONSTANTS
    Nil = Nil
    Requests <- ConfigMapRequests
    Secrets <- NoSecrets
    ConfigMaps <- MCConfigMaps
INVARIANT NoSilentNoOp
