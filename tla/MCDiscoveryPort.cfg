\* Devices that move between ports while the service keeps the name it selected.
SPECIFICATION Spec
CONSTANTS
  Ports = {1, 2, 3}
  Chains = {1}
  Devices = {shuntA, shuntB, bms}
  Shunts = {shuntA, shuntB}
  ShuntIndex = 0
  DiscoveryInterval = 1
  ReconnectInterval = 2
  MaxEvents = 3
  Nothing = Nothing
INVARIANT ReadsAShunt
