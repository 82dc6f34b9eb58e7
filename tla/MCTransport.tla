----------------------------- MODULE MCTransport -----------------------------
(* What carries data to the peer, each on its own: a Socket's send buffers, *)
(* where the poller's thread alone calls send or another thread does, a KCP *)
(* conversation, when KCP resends, and how it cuts data into datagrams.     *)
EXTENDS SocketSend, Kcp, KcpPacing, KcpStream

CONSTANTS s1, MaxShared, Parts

VARIABLE part  \* the component this behaviour is about: one of Parts

transportVars == <<sendVars, vars, paceVars, streamVars, alone, part>>

MCOne == {s1}
PerEnd(c, s) == [e \in Ends |-> IF e = Client THEN c ELSE s]
BothSend == PerEnd(<<2>>, <<1>>)
ClientSends == PerEnd(<<1, 2>>, <<>>)

Pace(mode, fastresend, conserve, nocwnd) ==
  [mode |-> mode, fastresend |-> fastresend, conserve |-> conserve, nocwnd |-> nocwnd]
MCSettings == {Pace("normal", 0, FALSE, FALSE), Pace("nodelay", 1, TRUE, FALSE),
               Pace("fast", 1, FALSE, TRUE)}

TransportInit ==
  /\ part \in Parts
  /\ SendInit /\ Init /\ PaceInit /\ StreamInit
  /\ part # "send" => alone
  /\ part # "pacing" => settings = CHOOSE p \in Settings : TRUE
  /\ part # "stream" => ~streaming

TransportNext ==
  /\ UNCHANGED <<part, alone>>
  /\ IF part = "send"
     THEN /\ SendNext
          /\ ~alone => count' <= MaxShared
     ELSE UNCHANGED sendVars
  /\ IF part = "kcp" THEN Next ELSE UNCHANGED vars
  /\ IF part = "pacing" THEN PaceNext ELSE UNCHANGED paceVars
  /\ IF part = "stream" THEN StreamNext ELSE UNCHANGED streamVars

TransportSpec == TransportInit /\ [][TransportNext]_transportVars

(* The fairness of SendFairSpec and of Kcp's FairSpec.                      *)
FairTransportSpec ==
  /\ TransportSpec
  /\ WF_sendVars(part = "send" /\ Drain) /\ WF_sendVars(part = "send" /\ LoopStep)
  /\ \A a \in Actors : WF_sendVars(part = "send" /\ FlushStep(a))
  /\ \A e \in Ends :
       /\ WF_vars(part = "kcp" /\ ResendsAll(e))
       /\ SF_vars(part = "kcp" /\ Arrives(e, Missing))
       /\ SF_vars(part = "kcp" /\ Arrives(e, Resent))
       /\ SF_vars(part = "kcp" /\ Arrives(e, News))

-----------------------------------------------------------------------------
(* While the poller alone sends, what a Socket accepted is received, and    *)
(* every message KCP accepted is read and no longer resent.                 *)
TransportServes == ReceivedAlone /\ AllRead
=============================================================================
