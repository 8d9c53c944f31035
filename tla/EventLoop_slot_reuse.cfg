SPECIFICATION Spec
CONSTANTS
  Fd <- MCFd
  Client = {c1, c2}
  Worker = {w1, w2}
  NoFd = NoFd
  NoClient = nobody
  Listen = Listen
  Pipe = Pipe
  ActorModel = 0
  ListenET = FALSE
  MAX_FD = 2
  MaxRequests = 1
  HttpCodes <- AllCodes
  Signals <- AlarmOnly
  MaxSend = 1
  RespPieces = 1
  Timely = TRUE
SYMMETRY Symmetry
INVARIANT TableDescribesSocket
