\* y^2 = x^3 + 7 over the field of 43 has the prime order 31.
CONSTANTS
  Parts = {"law", "mul", "multi", "keys", "sign", "cert"}
  P = 43
  MaxMag = 32
  CurveB = 7
  Beta = 6
  N = 31
  GX = 2
  GY = 12
  Lambda = 5
  Bits = 5
  WindowA = 4
  WindowG = 4
  Half = 3
  NoScalar = 100
  Scales = {5}
  Logs = {0, 1, 2, 30, 7}
  Factors = {0, 1, 3, 30}
  GFactors = {100, 0, 1, 9, 16, 29, 30}
  Few = {0, 1, 30}
  FewFactors = {0, 1, 22, 30}
  FewGFactors = {100, 13}
  BucketWindows = {1, 2}
  Sizes = {3, 4, 5}
  Teeth = 2
  Combs = 3
  Nums = 10
  Ctxs = {1, 2}
  Blinds = {7, 30}
  Projections = {5}
  MaxSizes = {0, 900, 1700, 3500, 4000, 20000, 60000, 120000}
  Counts = {0, 1, 2, 7, 30, 161, 400}
  Held = {0, 800}
  MaxPerBatch = 300
  Scale = 5
  KeyBytes = {0, 30, 32}
  Tweaks = {0, 17, 31}
  Coordinates = {2, 12, 44}
  SignKeys = {0, 1, 16, 30, 31}
  Messages = {0, 1, 61}
  Nonces <- Bytes32
  WireS = {0, 1, 16, 31}
  MaxCount = 2
  NKeys = 2
  Random = {1, 30, 31}
  Hashes = {0, 32}
  Heights = {3}
  VoteNonces = {1, 20}
  IdShift = 0
  MaxSent = 2
SPECIFICATION Spec
CHECK_DEADLOCK FALSE
INVARIANTS PointsAreRight SignaturesAreRight
