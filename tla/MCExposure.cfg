SPECIFICATION Spec
CONSTANTS
  Servers <- MCServers
  NameOf <- MCNames
  PortNames = {"game", "voice"}
  EggPorts <- MCEggPorts
  Extras <- MCExtras
  PortRangeMin = 1
  PortRangeMax = 3
  CaughtUp = TRUE
  MaxEvents = 2
INVARIANTS PortsDistinct NothingLeft
PROPERTIES AddressStable FreedLast
CHECK_DEADLOCK FALSE
