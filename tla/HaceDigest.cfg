CONSTANTS
  Lens = {0, 1, 7, 8, 9, 33}
  MaxUpdates = 3
  MaxOps = 2
  Apis = {"owned", "scoped", "mac"}
  SmallBlock = 8
  LargeBlock = 16
  BufSize = 32
  DigestSize = 5
  Modulus = 64
SPECIFICATION Spec
INVARIANTS StreamIntact OwnedDigest MacOfMessage OnlyLongMacsPanic
