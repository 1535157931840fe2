CONSTANTS
  Lens = {0, 1, 7, 8, 9, 33}
  MaxUpdates = 2
  MaxOps = 1
  Apis = {"scoped"}
  SmallBlock = 8
  LargeBlock = 16
  BufSize = 32
  DigestSize = 5
  Modulus = 64
SPECIFICATION Spec
INVARIANT ScopedDigest
