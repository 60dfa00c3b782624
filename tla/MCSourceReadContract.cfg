\* A native service that reports incomplete data through the freshness contract.
CONSTANTS
    None = None
    NonFinite = NonFinite
    Absent = Absent
    Offline = Offline
    MaxFinite = 3000
    AgeLimit = 2
    K = 1
    Mqtt = {}
    Snapshots = {}
    Frames <- MCFramesContract
    Ttl = 1
    ReconnectInterval = 1
SPECIFICATION Spec
PROPERTY StaleContractRejected
