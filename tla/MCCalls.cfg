CONSTANTS
  u1 = u1 c1 = c1 c2 = c2 op = op trap = trap hdl = hdl segv = segv
  Bp <- MCBp UserBp = {u1} CallBp = {c1, c2} NoBp = NoBp
  Addr <- MCAddr Opcode = {op} BPT = trap Orig <- MCOrig Late = {}
  UserAddrs = {3} Entry = 1 Succ <- MCSucc Callee <- MCCallee Rets = {3, 5, 6} Func <- MCFunc
  Callable = {4} Mprotect = 6
  Sig <- MCSig Segv = segv State <- MCState DflIgnore = {} InitAttrs <- MCAttrs
  MaxEvents = 4 MaxProc = 2
CHECK_DEADLOCK FALSE
SPECIFICATION Spec
INVARIANTS TypeOK CallsTransparent CallsRunToEnd ListClean SignalsKept  PanicOnlyOnStop
PROPERTY StopHonoured
