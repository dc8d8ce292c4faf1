SPECIFICATION FairSpec
CONSTANTS
  NumPages = 3
  PageSize = 2
  MaxSize = 10
  MaxCount = 4
  InitSizes = {0, 5}
  Watched = {3}
  Values = {a}
  Junk = junk
  Calls = {"read", "write", "seek", "flush", "close", "seek_end"}
  Failures = {"seek", "write"}
INVARIANTS DirtyRun DirtyPagesFull SizeIsExact
PROPERTIES ImplementsFile CallsReturn
CHECK_DEADLOCK FALSE
