SPECIFICATION TransportSpec
CONSTANTS
  s1 = s1  Senders <- MCOne  Poller = Poller  Nobody = Nobody
  Client = Client  Server = Server  Junk = Junk  Lost = Lost
  Parts = {"pacing"}
  MaxUnits = 3  MaxShared = 3  KernelCap = 1  MaxConns = 1  MayFail = FALSE
  Messages <- ClientSends  SndWnd = 2  RcvWnd = 4  Uninit = {0}
  Settings <- MCSettings  SndWndSize = 4  Windows = {0, 3}  Interval = 1
  MinRto = 1  DefRto = 2  MaxRto = 4  ThreshMin = 1  Mss = 16  FastLimit = 2  DeadLink = 3
  TimeSpan = 8  Starts = {5}  Rtts = {0, 2}  MaxSegs = 2  MaxTicks = 3  MaxInputs = 3
  PayloadMax = 3  HeaderSize = 2  FragmentMax = 4  BufLens = {1, 2, 4, 7}  MaxGiven = 9
INVARIANT ResentWhenDue
CHECK_DEADLOCK FALSE
