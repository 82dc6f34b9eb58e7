SPECIFICATION LibSpec
CONSTANTS
  a1 = a1  a2 = a2
  Pollers = {p1}  Readers <- MCPair  None = None
  MaxSize = 2  MaxGops = 2  GopLimits = {0, 1, 2}  MaxWrites = 3
  Users = {u1, u2}  Workers <- MCPair  MaxPoolTasks = 3  NoTask = NoTask
  PoolSize = 2  MaxRecords = 2  Window = 1  MaxTime = 2
  Threads = {t1, exe}  Executor = exe  Objects = {o1, o2, o3}  PoolSizes = {1, 2}
  NoObject = NoObject  Statements = {q1, q2}  Formats = {q2}  MaxErrors = 2  NoJob = NoJob
  Callers <- MCPair  Tags = {g1, g2}  NoTag = NoTag  MaxAdds = 2  MaxEmits = 1
  LogThreads <- MCPair  Texts = {"a", "b"}  MaxLogs = 3  MaxClock = 1  NoMessage = NoMessage
  Radix = 2  MaxDays = {1, 2}  MaxCounts = {1, 4}  LastDay = 1  MaxIndex = 5  NoFile = NoFile
  ListLengths = {1, 3}  MaxLen = 2  IovMax = 2
  Counts = {0, 1, 4}  Capacities = {0, 1, 2, 8}  DefaultCount = 2  DefaultCapacity = 3
  MaxTotal = 8  SizeSpan = 16  MaxDatagrams = 5
  Flights = 2  PeerData = 3  OwnData = 3  BuffSize = 2
  EpollThreads <- MCPair  NoThread = NoThread  Handles = {h1}  SockStates = {s1, s2}
  Null = Null  PollGroups = {g1, g2}  GroupSize = 1  Wanted <- MCWanted  Conditions = {"IN", "HUP"}
  MaxCtls = 3
  MaxKey = 7
  Chars = {1, 2}  MaxStored = 5
  LongNames <- MCLongNames  ShortNames <- MCShortNames  ArgTypes <- MCArgTypes  Defaults = {2}
  Required = {}  AllArgs <- MCAllArgs  PlainArgs <- MCPlainArgs  MaxArgs = 3  MaxLine = 6
  Makers <- MCPair  NoAddress = NoAddress  LocalIps = {"::", "v4"}  MaxFd = 3  ExpireSec = 1
  MaxSeconds = 2  MaxMoves = 1  MaxCalls = 3
  Askers <- MCPair  RefreshInterval = 60  Zones <- MCZones
  Bases = {951800370, 951761670, 1735621170, 2145896070}  TimeStep = 40  MaxSteps = 2
  MaxGap = 3  MaxPassed = 4  Shifts <- MCShifts  MaxShifts = 1  ResetMs = 2  MaxAsks = 6
  SpeedPeriod = 2  BytesAtOnce = 2  SomeBytes = {1, 3}
  TreeUsers = {a1, a2, a3}  PortAddrs = {e1, e2}  HandleValues = {x1, x2}  NoHandle = NoHandle
  NoPort = NoPort  MaxEpollCalls = 4
  BlockBytes = 4  WordBits = 6  Pieces = {1, 2, 3, 5, 6, 11}  MaxMessage = 18
  SomeBytes64 = {0, 91, 255}  MaxBytes = 6  WordWidth = 20
  FileUsers <- MCPair  Targets <- MCTargets  MaxFileOps = 4  Root <- MCRoot
  Parts = {"x", "..", "."}  MaxParts = 4
  DateFormats <- MCFormats  Dates <- MCDates  NoDate <- MCNoDate
  Sections <- MCSections  IniKeys <- MCIniKeys  Values = {"", "1"}  Remarks = {"", "#"}
  MaxLines = 3  MaxSets = 2
  Letters = {1, 2}  LastByte = 255  MaxText = 4  MaxPattern = 2  MaxNew = 2  NameLimit = 12
  QueueHeads = {e1, e2}  QueueNodes = {m1, m2, x1, x2}
  PollFiles <- MCPair  PollFds = {f1, f2}  TooBig = {f2}  NoPolled = NoPolled
  MaxPollCalls = 6  MaxReady = 2
  UdpPeers <- MCPair  NoAddr = NoAddr  MaxTries = 2  MaxWaiting = 1
VIEW LibView
SYMMETRY Interchangeable
INVARIANTS
  LibraryTypeOK ReadersServed NoTaskStranded LendingSafe ListenersAreCalled UdpClientServed
  HandlesSafe BackendsServe SystemCallsSafe MessagesKept WaitersServed DataKept TimeKept
  AgreesWithReference
CHECK_DEADLOCK FALSE
