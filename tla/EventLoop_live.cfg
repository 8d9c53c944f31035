SPECIFICATION FairSpec
CONSTANTS
  Fd <- MCOneFd
  Client = {c1, c2}
  Worker = {w1}
  NoFd = NoFd
  NoClient = nobody
  Listen = Listen
  Pipe = Pipe
  ActorModel = 1
  ListenET = FALSE
  MAX_FD = 2
  MaxRequests = 1
  HttpCodes <- AllCodes
  Signals <- AlarmOnly
  MaxSend = 1
  RespPieces = 1
  Timely = FALSE
PROPERTY SpinEnds
PROPERTY HungUpIsClosed
PROPERTY BacklogServed
PROPERTY RequestTaken
