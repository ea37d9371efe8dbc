CONSTANTS
  LastMonth = 3
  Malformed = {3}
  LastTable = 2
  Zones = {1, 2}
  ZonesOf <- MCZonesOf
  MaxFaults = 2
SPECIFICATION Spec
INVARIANTS EachRowInOneFile LayersNest StoresAgree
PROPERTIES StatusIsTrue
