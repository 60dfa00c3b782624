\* Two MQTT chains, one shunt to discover late, every interleaving of publishers,
\* clock, connection, restarts and D-Bus calls.
CONSTANTS
    None = None
    NonFinite = NonFinite
    Absent = Absent
    Offline = Offline
    MaxFinite = 3000
    N = 2
    Ports = {3, 4}
    ShuntProducts = {1, 3}
    MqttChains = {1, 2}
    ConfiguredShunt = None
    ShuntIndex = 0
    Capacity = 100
    AgeLimit = 2
    DiscoveryInterval = 1
    Frames <- MCFrames2
SPECIFICATION Spec
INVARIANTS TypeOK AvailableWhenComplete ConnectedMeansMeasured ShuntIdentified
PROPERTIES CurrentFromEverySource ShuntKept
