CONSTANTS
  a1 = a1
  aL = aL
  aD = aD
  o1 = o1
  o2 = o2
  Bp = {b1, b2, b3, bx}
  Addr = {a1, aL, aD}
  UserAddrs = {a1, aD}
  LinkerAddr = aL
  StartAddrs = {a1}
  ExecBp = bx
  Late = {aD}
  Opcode = {o1, o2}
  BPT = BPT
  Junk = {BPT}
  Orig <- MCOrig
SYMMETRY Symmetry
SPECIFICATION Spec
INVARIANTS
  TypeOK
  UniqueAddresses
  TextIntegrity
  SavedOpcode
  DetachedClean
  NothingInstalledWithoutProcess
PROPERTY ImplementsTrapSet
