CONSTANTS
  UserBp = {u1}
  LinkerBp = lk
  TempBp = tmp
  NoBp = none
  Bp = {u1, lk, tmp}
  Addr <- MCAddr
  Opcode <- MCAddr
  BPT = BPT
  Orig <- MCOrig
  Late = {}
  UserAddrs = {8, 10}
  LdAddr = 2
  EntryAddr = 6
  LinkerAddr = 4
  MainAddr = 8
  Exit = 0
  Succ <- MCSucc
  Sig = {"chld", "hup", "stop"}
  ContSig = {"chld", "hup"}
  CaughtSig = {"chld"}
  AcceptSig = {"chld", "hup"}
  FatalSig = {}
  Deadly = {"hup"}
  AttachSig = "stop"
  MaxSig = 0
  MaxX = 1
SPECIFICATION Spec
CHECK_DEADLOCK FALSE
INVARIANT
  ExecutesProgram
