SPECIFICATION FairSpec
CONSTANTS
  PageSize = 2
  MaxDescriptors = 2
  MaxSize = 5
  MaxCount = 2
  OldSizes = {0, 5}
  Watched = {1}
  Values = {a}
  Junk = junk
  Calls = {"new", "read", "write", "seek", "close", "remove", "truncate"}
  Failures = {"open", "seek", "read", "write"}
INVARIANTS DescriptorsMatch PagesFull
PROPERTIES ImplementsFile CallsReturn
CHECK_DEADLOCK FALSE
