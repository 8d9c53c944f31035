SPECIFICATION FairSpec
CONSTANTS
  Producer = {p1, p2}
  Writer = w
  NoLine = NoLine
  m_split_lines = 2
  max_queue_size = 2
  MaxLines = 2
  MaxDay = 2
INVARIANT LinesConserved
INVARIANT OrderKept
INVARIANT FileMatchesCount
INVARIANT DirectOnDisk
PROPERTY LossNeedsRace
PROPERTY Settles
CHECK_DEADLOCK FALSE
