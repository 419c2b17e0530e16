CONSTANTS
  Parts = {"config", "text", "setup", "wire", "quorum", "promise", "pointer"}
  Radix = 2
  U8 = 1
  U16 = 2
  U32 = 3
  U64 = 4
  HashWords = 2
  SigLen = 2
  NoBlock = 6
  PayloadLen = 1
  Bits4 = 4
  Bits5 = 5
  MsgTypes = {1, 2, 3}
  Indeterminate = {0, 6}
  NReplicas = 6
  Leavers = {0, 4}
  Void = Void
  NoHandler = NoHandler
  aValue = aValue
SPECIFICATION Spec
CHECK_DEADLOCK FALSE
INVARIANTS
  OptionsAreRead
  TextsComeBack
  StartupAgrees
  MessagesAreRead
  CertificatesCarryVotes
  PointersAreSafe
PROPERTY PromisesAreKept
