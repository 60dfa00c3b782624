\* Discovery: a chain and two more ports; two shunts and a BMS that move among them.
\* Calculator: up to two chains; MaxFinite is small so that sums, products and partial
\* sums overflow.
SPECIFICATION MCSpec
CONSTANTS
    None = None
    Nothing = Nothing
    Ports = {1, 2, 3}
    Chains = {1}
    Devices = {shuntA, shuntB, bms}
    Shunts = {shuntA, shuntB}
    ShuntIndex = 0
    DiscoveryInterval = 1
    ReconnectInterval = 2
    MaxEvents = 3
    NonFinite = NonFinite
    MaxFinite = 3000
    ShuntSamples <- MCShunt
    ChainSamples <- MCChain
    ChainCounts = {0, 1, 2}
    Capacities = {0, 1, 2500, NonFinite}
INVARIANTS UndisturbedIsOneStep SubtractsEveryChain NothingFromPartialInput
           AmpHoursBalance TimeToGoSound
PROPERTIES SelectedWasShunt Reconnects MoreDrawnLastsLess
CHECK_DEADLOCK FALSE
