CONSTANTS
  Wp = {w1, w2}
  Wphead = Wphead
  Reg = {0}
  Place = {small, large}
  Small = {small}
  PageOf <- MCPageOf
  Val = {0, 1}
  Nowhere = nowhere
  MaxProc = 2
  MaxFail = 0
SPECIFICATION Spec
INVARIANT
  NoUnseenChange
