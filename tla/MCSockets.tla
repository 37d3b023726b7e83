----------------------------- MODULE MCSockets ------------------------------
(***************************************************************************)
(* TcpSocket and UdpSocket for TLC, in one run: a behaviour is one of the  *)
(* first or one of the second, as the kind of socket says.                 *)
(***************************************************************************)
EXTENDS TcpSocket, UdpSocket, TLC

CONSTANTS a, b

VARIABLE kind

MCPortOf == a :> 2 @@ b :> 3

vars == <<kind, tcpVars, udpVars>>

Init == kind \in {"stream", "datagram"} /\ TcpInit /\ UdpInit

Next ==
  \/ kind = "stream" /\ TcpNext /\ UNCHANGED <<kind, udpVars>>
  \/ kind = "datagram" /\ UdpNext /\ UNCHANGED <<kind, tcpVars>>

(* Who sleeps in recv or accept and has something to return with returns.  *)
Spec ==
  /\ Init /\ [][Next]_vars
  /\ \A e \in Ends : WF_vars(Wakes(e) /\ UNCHANGED <<kind, udpVars>>)
  /\ WF_vars(Arrivals /\ UNCHANGED <<kind, udpVars>>)
=============================================================================
