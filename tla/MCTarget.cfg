CONSTANTS
  UserBp = {u1}
  LinkerBp = lk
  TempBp = tmp
  NoBp = none
  Bp = {u1, lk, tmp}
  Addr <- MCShortAddr
  Opcode <- MCShortAddr
  BPT = BPT
  Orig <- MCShortOrig
  Late = {}
  UserAddrs = {8}
  LdAddr = 2
  EntryAddr = 6
  LinkerAddr = 4
  MainAddr = 8
  Exit = 0
  Succ <- MCShortSucc
  Sig = {"chld", "hup", "stop", "ill"}
  ContSig = {"chld", "hup"}
  CaughtSig = {"chld"}
  AcceptSig = {"chld", "hup"}
  FatalSig = {"ill"}
  Deadly = {"hup"}
  AttachSig = "stop"
  MaxSig = 2
  MaxX = 1
SPECIFICATION Spec
CHECK_DEADLOCK FALSE
INVARIANTS
  TypeOK
  UndisturbedRunsExact
  BreakpointsArmed
  TrapsAccountedFor
  NoTemporaryLeft
PROPERTY
  StopNoticed
