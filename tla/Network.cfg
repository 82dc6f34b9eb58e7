SPECIFICATION NetSpec
CONSTANTS
  p1 = p1  p2 = p2
  Pollers = {p1, p2}  Main = p1  Conns = {c1, c2}  NoConn = NoConn  Addresses = {1}  MaxFds = 1
  Attempts = {a1, a2}  NoAttempt = NoAttempt  MaxInbox = 2  MaxShutdowns = 2
  x1 = x1  x2 = x2
  Loops = {p1, p2}  Peers = {x1, x2}  Packets = {1, 2, 3}  PeerOf <- MCPeerOf
  UdpSessions = {s1, s2, s3}  NoSession = NoSession
INVARIANTS
  NetworkTypeOK SessionsServed OneResult ConnectedIsHeard PeersServed
PROPERTIES NetworkServes
CHECK_DEADLOCK FALSE
