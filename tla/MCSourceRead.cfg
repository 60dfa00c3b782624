\* An MQTT chain read as a snapshot and a native service read item by item.
CONSTANTS
    None = None
    NonFinite = NonFinite
    Absent = Absent
    Offline = Offline
    MaxFinite = 3000
    AgeLimit = 2
    K = 2
    Mqtt = {1}
    Snapshots = {1}
    Frames <- MCFrames
    Ttl = 1
    ReconnectInterval = 1
SPECIFICATION Spec
PROPERTIES WholeMqttFrame ReadSinceBegin
