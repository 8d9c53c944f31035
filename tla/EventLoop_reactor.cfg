SPECIFICATION Spec
CONSTANTS
  Fd <- MCFd
  Client = {c1, c2}
  Worker = {w1, w2}
  NoFd = NoFd
  NoClient = nobody
  Listen = Listen
  Pipe = Pipe
  ActorModel = 1
  ListenET = TRUE
  MAX_FD = 1
  MaxRequests = 1
  HttpCodes <- AllCodes
  Signals <- BothSignals
  MaxSend = 1
  RespPieces = 1
  Timely = FALSE
SYMMETRY Symmetry
INVARIANT EveryDescriptorTimed
INVARIANT SpinServed
