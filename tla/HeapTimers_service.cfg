SPECIFICATION FairSpec
CONSTANTS
  Timer = {t1, t2, t3}
  Fd = {f1, f2}
  NoTimer = NoTimer
  NoFd = NoFd
  TIMESLOT = 1
  MaxLate = 0
  Prompt = FALSE
INVARIANT SlotsMatchTimers
PROPERTY ServiceSpec
PROPERTY InTimeWhenOrdered
PROPERTY DueHandledOnceQuiet
