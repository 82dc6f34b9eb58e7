SPECIFICATION SqlSpec
CONSTANTS
  Threads = {e}  Executor = e  Objects = {o}  PoolSizes = {1}  NoObject = NoObject
  Statements = {s}  Formats = {}  MaxErrors = 5  NoJob = NoJob
INVARIANT RetriesEnd
CHECK_DEADLOCK FALSE
