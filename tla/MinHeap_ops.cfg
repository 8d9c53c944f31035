SPECIFICATION OpsSpec
CONSTANTS
  Member = {1, 2, 3, 4, 5}
  MaxKey = 3
CHECK_DEADLOCK TRUE
PROPERTY Exact
