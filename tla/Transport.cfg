SPECIFICATION FairTransportSpec
CONSTANTS
  s1 = s1  Senders <- MCOne  Poller = Poller  Nobody = Nobody
  Client = Client  Server = Server  Junk = Junk  Lost = Lost
  Parts = {"send", "kcp", "pacing", "stream"}
  MaxUnits = 4  MaxShared = 3  KernelCap = 2  MaxConns = 2  MayFail = TRUE
  Messages <- ClientSends  SndWnd = 2  RcvWnd = 4  Uninit = {0}
  Settings <- MCSettings  SndWndSize = 4  Windows = {0, 3}  Interval = 1
  MinRto = 1  DefRto = 2  MaxRto = 4  ThreshMin = 1  Mss = 16  FastLimit = 2  DeadLink = 3
  TimeSpan = 1000  Starts = {0}  Rtts = {0, 2}  MaxSegs = 2  MaxTicks = 3  MaxInputs = 3
  PayloadMax = 3  HeaderSize = 2  FragmentMax = 4  BufLens = {1, 2, 4, 7}  MaxGiven = 9
INVARIANTS
  StreamKept WatchedAlone MessagesInOrder OnlyReceivedDropped PacedWell 
PROPERTIES TransportServes
CHECK_DEADLOCK FALSE
