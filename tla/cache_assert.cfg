SPECIFICATION Spec
CONSTANTS
  NumPages = 3
  PageSize = 2
  MaxSize = 10
  MaxCount = 4
  InitSizes = {0}
  Watched = {3}
  Values = {a}
  Junk = junk
  Calls = {"read", "write", "seek", "flush", "close"}
  Failures = {}
INVARIANTS NoAssertFails
CHECK_DEADLOCK FALSE
