SPECIFICATION ServerSpec
CONSTANTS
  Thread = {w1, w2, w3}
  Conn = {c1, c2, c3}
  NULL = NULL
  MaxSlips = 1
  Fd = {f1, f2, f3}
  NoFd = NoFd
  MaxSignals = 2
INVARIANT Exclusive
INVARIANT Accounted
INVARIANT Plenty
INVARIANT MisuseHasCause
SYMMETRY Symmetry
