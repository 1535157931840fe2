CONSTANTS
  MaxDevs = 3
  NumPos = 2
  Wanted = {8, 9, 62}
SPECIFICATION Spec
INVARIANTS PosIndexOK RoutedToDevice SirOnlyFromAttached AddressProtected
