\* The chain is measured by a shunt, and the second shunt is the one to use.
CONSTANTS
    None = None
    NonFinite = NonFinite
    Absent = Absent
    Offline = Offline
    MaxFinite = 3000
    N = 1
    Ports = {3}
    ShuntProducts = {1, 3}
    MqttChains = {1}
    ConfiguredShunt = None
    ShuntIndex = 1
    Capacity = 100
    AgeLimit = 2
    DiscoveryInterval = 1
    Frames <- MCFrames1
SPECIFICATION FairSpec
PROPERTY DelayedShuntFound
