------------------------------ MODULE MCNetwork ------------------------------
(* The classes of src/src/Network that use Sockets, each on its own: a      *)
(* behaviour is about one of them, and one search covers them all.          *)
EXTENDS TcpServer, TcpClient, UdpServer

CONSTANTS x1, x2
VARIABLE part  \* the component this behaviour is about

netVars == <<tcpVars, cliVars, udpVars, part>>

(* The third packet is the second peer's.                                   *)
MCPeerOf == [k \in Packets |-> IF k = 3 THEN x2 ELSE x1]

NetInit ==
  /\ part \in {"server", "client", "udp"}
  /\ TcpInit /\ CliInit /\ UdpInit

NetNext ==
  /\ UNCHANGED part
  /\ \/ part = "server" /\ TcpNext /\ UNCHANGED <<cliVars, udpVars>>
     \/ part = "client" /\ CliNext /\ UNCHANGED <<tcpVars, udpVars>>
     \/ part = "udp" /\ UdpNext /\ UNCHANGED <<tcpVars, cliVars>>

(* TcpFairness and CliFairness.                                             *)
NetSpec ==
  /\ NetInit /\ [][NetNext]_netVars
  /\ \A p \in Pollers : /\ WF_tcpVars(part = "server" /\ (AcceptStep(p) \/ ManageStep(p)))
                        /\ SF_tcpVars(part = "server" /\ (StartAccept(p) \/ Retry(p)))
  /\ WF_cliVars(part = "client" /\ LoopTask) /\ WF_cliVars(part = "client" /\ ConnectTimeout)

NetworkTypeOK ==
  CASE part = "server" -> TcpTypeOK [] part = "client" -> CliTypeOK [] part = "udp" -> UdpTypeOK

(* Each connection is accepted and each attempt to connect comes to an end  *)
(* (Socket::onAccept and its retry timer; Socket::connect and its timeout). *)
NetworkServes == AllAccepted /\ Settles

=============================================================================
