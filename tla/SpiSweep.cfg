SPECIFICATION Spec
CONSTANTS
  Configs <- MCConfigs
  Devices <- MCDevices
  FlashSizes <- MCFlashSizes
  Pages = {0, 1, 64}
  PagesPerSector = 1
  MaxCalls = 2
  Hcycles = 6
  Delays = 4
INVARIANT SweepsOwnChip
