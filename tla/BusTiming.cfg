SPECIFICATION TimingSpec
CONSTANTS
  Buses = {b1, b2}
  ApbSels = {2, 9, 15}
  Dividers <- MCDividers
  Speeds = {100000, 400000, 1000000}
  OwnClocks <- MCOwnClocks
  Manuals <- MCManuals
  I3cConfs <- MCI3cConfs
  MaxOps = 2
INVARIANTS CoreRate DriversAgree I3cMinimaMet
CHECK_DEADLOCK FALSE
