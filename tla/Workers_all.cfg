\* the pool rests when the clients are quiet
CHECK_DEADLOCK FALSE
SPECIFICATION FairSpec
CONSTANTS
  Worker = {w1, w2}
  Main = main
  Request = {r1, r2, r3}
  NoRequest = NoRequest
  NoWorker = NoWorker
  Forms <- MCForms
  Name <- MCName
  Password <- MCPassword
  NoPassword = NoPassword
  m_max_requests = 2
  MaxSlips = 1
  MaxFailures = 1
  MaxRestarts = 1
  MaxForms = 3
INVARIANT Balanced
INVARIANT MapMatchesRows
INVARIANT ConfirmedKept
INVARIANT EachServedOnce
PROPERTY FifoSpec
PROPERTY Answered
