SPECIFICATION Spec
CONSTANTS
  Thread = {t1, t2, t3}
  Item = {a, b}
  NoItem = NoItem
  m_max_size = 3
INVARIANT NoLostWakeup
PROPERTY FifoSpec
SYMMETRY Symmetry
