SPECIFICATION BusySpec
CONSTANTS
  Timer = {1, 2, 3, 4, 5}
  Fd = {1, 2, 3, 4, 5}
  NoTimer = NoTimer
  NoFd = NoFd
  TIMESLOT = 1
  MaxLate = 0
  Prompt = TRUE
PROPERTY DueHandled
