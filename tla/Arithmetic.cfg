CONSTANTS
  Parts = {"limbs", "chain", "wnaf", "hash", "rounds", "der"}
  Word = 64
  N <- N64
  NC <- NC64
  NH <- NH64
  MaxMag52 = 2047
  MaxMag26 = 31
  Depth = 2
  Products = 1
  WBits = 9
  WOrder = 491
  WHalf = 5
  Windows = {2, 3, 4, 5}
  Block = 8
  LenLen = 2
  DigestLen = 4
  MaxLen = 33
  MaxPiece = 9
  KeyLens = {0, 4, 8, 9}
  AskLens = {0, 3, 4, 9}
  MaxAsked = 3
  ScalarLen = 2
  DerOrder = 40000
  SizeT = 4
  Scalars = {0, 128, 39999}
  LongSizes = {128}
  Alphabet = {0, 1, 2, 48, 127, 128, 129, 130, 255}
  Places = 9
  MaxEdits = 2
SPECIFICATION Spec
INVARIANTS NumbersAreRight BytesAreRight
CHECK_DEADLOCK FALSE
