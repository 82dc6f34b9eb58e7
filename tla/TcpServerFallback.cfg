SPECIFICATION TcpSpec
CONSTANTS
  Pollers = {p, q}  Main = p  Conns = {c}  NoConn = NoConn  Addresses = {1}  MaxFds = 1
INVARIANT SessionOnItsPoller
CHECK_DEADLOCK FALSE
