\* One MQTT chain under fairness of the main loop, the supervisor and the clock.
CONSTANTS
    None = None
    NonFinite = NonFinite
    Absent = Absent
    Offline = Offline
    MaxFinite = 3000
    N = 1
    Ports = {3}
    ShuntProducts = {3}
    MqttChains = {1}
    ConfiguredShunt = None
    ShuntIndex = 0
    Capacity = 100
    AgeLimit = 2
    DiscoveryInterval = 1
    Frames <- MCFrames1
SPECIFICATION FairSpec
PROPERTIES FrozenChainExpires Recovers
