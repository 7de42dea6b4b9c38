SPECIFICATION Spec
CONSTANTS
  Entries <- MCEntries
  MaxEntries = 5
  ParamLengths <- MCLengths
  IoAddrNums <- MCIoAddrNums
  Word = 1048576
  HeadSize = 20
  kMaxParamLen = 15360
  kMaxIoAddrNumParamLen = 1024
  kMaxExtendLen = 4
  Inputs = 2
  Outputs = 1
INVARIANTS
  WalksAgree
  Understood
  InsideBlock
CHECK_DEADLOCK FALSE
