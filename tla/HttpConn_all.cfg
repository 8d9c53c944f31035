SPECIFICATION FairSpec
CONSTANTS
  ContentLength = 2
  HeaderLen = 3
  PageLen = 2
  FileLen = 2
  READ_BUFFER_SIZE = 13
  Requests <- MCRequests
  FileResults <- MCFileResults
  MaxConns = 2
  MaxRequests = 2
INVARIANT UnderstoodExactly
INVARIANT WaitsOnlyForMore
INVARIANT SentInOrder
INVARIANT NeverDeaf
INVARIANT MappedExactly
PROPERTY Responds
