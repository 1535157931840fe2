CONSTANTS
  MaxDevs = 2
  NumPos = 2
  Wanted = {8, 9}
  Targets = {1, 2}
  Expected = {2}
SPECIFICATION BusSpec
INVARIANTS PosIndexOK RoutedToDevice SirOnlyFromAttached AddressProtected OkIsOwn HeardByOwn
