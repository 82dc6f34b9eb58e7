\* Two tasks of every kind, whose closures may hold the poller; two delay
\* tasks, with delays shorter and longer than the time the loop takes; more
\* sockets than descriptor numbers, so that numbers are reused.
SPECIFICATION PollerSpec
CONSTANTS
  t1 = t1  t2 = t2  a = a  b = b
  Threads <- TwoThreads  Tasks <- TwoTasks  Loop = Loop  Exit = Exit  Nobody = Nobody
  PipeCap = 2  ReadMax = 1  Kinds = {"back", "first", "delay"}  Captures = {FALSE, TRUE}
  Delayed <- TwoTasks  NoTask = NoTask  Never = Never
  Delays = {0, 1, 3}  Horizon = 4  IntSpan = 16
  s1 = s1  s2 = s2  s3 = s3  f1 = f1  f2 = f2
  Socks <- ThreeSocks  Fds <- TwoFds  None = None  Pipe = Pipe  EarlyClose = FALSE
INVARIANTS
  NoLostWakeup DestroyedWhenUnused NothingLost
  InDeadlineOrder NoTimerLost SleepsInTime
  RightCallback MapMatchesKernel NoLeakedFile
PROPERTIES
  ImplementsTaskOrder PollerServes TimersRun EventuallyClosed
CHECK_DEADLOCK FALSE
