SPECIFICATION PollerSpec
CONSTANTS
  t1 = t1  t2 = t2  a = a  b = b
  Threads <- TwoThreads  Tasks <- TwoTasks  Loop = Loop  Exit = Exit  Nobody = Nobody
  PipeCap = 2  ReadMax = 1  Kinds = {"back"}  Captures = {FALSE}
  Delayed <- TwoTasks  NoTask = NoTask  Never = Never
  Delays = {0}  Horizon = 1  IntSpan = 16
  s1 = s1  s2 = s2  s3 = s3  f1 = f1  f2 = f2
  Socks <- ThreeSocks  Fds <- TwoFds  None = None  Pipe = Pipe  EarlyClose = TRUE
INVARIANT NoLeakedFile
CHECK_DEADLOCK FALSE
