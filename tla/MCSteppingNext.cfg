CONSTANTS
  u1 = u1 tmp = tmp op = op trap = trap
  Bp <- MCBp UserBp <- MCUserBp TempBp = tmp NoBp = NoBp
  Addr <- MCAddr Opcode = {op} BPT = trap Orig <- MCOrig Late = {}
  UserAddrs <- MCUserAddrs DestAddrs = {9}
  Kind <- MCKind Succ <- MCSucc Callee <- MCCallee Func <- MCFunc
  Line <- MCLine LineStart <- MCLineStart MinBpt <- MCMinBpt
  PltFunc = {"stub"} NoSource = {"k"}
  Main = 2 Handler = 18 StartRet = 21
  MaxDepth = 4 MaxSig = 1 MaxStop = 1
CHECK_DEADLOCK FALSE
SPECIFICATION Spec
INVARIANT NextEndsAtNextLine
