SPECIFICATION Spec
CONSTANTS
  PageSize = 2
  MaxDescriptors = 2
  MaxSize = 6
  MaxCount = 3
  OldSizes = {0}
  Watched = {1}
  Values = {a}
  Junk = junk
  Calls = {"new", "write", "truncate"}
  Failures = {}
INVARIANTS NoCrash
CHECK_DEADLOCK FALSE
