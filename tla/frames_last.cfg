SPECIFICATION Spec
CONSTANTS
  Files <- MCFiles
  Elements <- MCElements
  Opened = "frame"
  Clients = {}
PROPERTIES LastWrittenCanBeRead
CHECK_DEADLOCK FALSE
