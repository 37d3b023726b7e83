-------------------------- MODULE TcpSocketProofs ---------------------------
(***************************************************************************)
(* Proofs about TcpSocket, for any number of clients, any backlog and any  *)
(* capacity of a connection.  The inductive invariant says that the two    *)
(* ends of a connection come into being together, and that an end where    *)
(* write failed cannot write again.                                        *)
(***************************************************************************)
EXTENDS TcpSocket, SequenceTheorems, TLAPS

TcpTypes ==
  /\ backlog \in Seq(Clients)
  /\ life \in [Ends -> {"none", "live", "destroyed"}]
  /\ conn \in [Ends -> {"none", "up", "shut"}]
  /\ heard \in [Ends -> {"open", "end", "reset", "broken"}]
  /\ unread \in [Ends -> Nat]
  /\ blocking \in [Ends -> BOOLEAN]
  /\ reader \in [Ends -> {"idle", "asleep"}]
  /\ wrote \in [Ends -> {"some", "none", "error"}]

(* A connection has two ends, also while it waits to be accepted. *)
BothEnds ==
  /\ \A e \in Ends : conn[e] = "none" <=> conn[Peer(e)] = "none"
  /\ \A i \in 1..Len(backlog) : conn[Server(backlog[i])] # "none"

(* What made a write fail is there to stay. *)
WritersKnow == \A e \in Ends : wrote[e] = "error" => WriteError(e)

TcpInv == TcpTypes /\ BothEnds /\ WritersKnow

-----------------------------------------------------------------------------
(* The two ends of a connection are each other's peers. *)
LEMMA Peers ==
  ASSUME NEW e \in Ends
  PROVE  Peer(e) \in Ends /\ Peer(Peer(e)) = e /\ Peer(e) # e
BY DEF Ends, Peer, Client, Server

(* The ends of a client's connection. *)
LEMMA ClientEnds ==
  ASSUME NEW c \in Clients
  PROVE  /\ Client(c) \in Ends /\ Server(c) \in Ends /\ Client(c) # Server(c)
         /\ Peer(Client(c)) = Server(c) /\ Peer(Server(c)) = Client(c)
BY DEF Ends, Peer, Client, Server

(* The initial state satisfies the invariant. *)
LEMMA TcpInvInit == TcpInit => TcpInv
<1> SUFFICES ASSUME TcpInit PROVE TcpInv
  OBVIOUS
<1>1. TcpTypes
  BY DEF TcpInit, TcpTypes
<1>2. BothEnds
  BY Peers DEF TcpInit, BothEnds
<1> QED
  BY <1>1, <1>2 DEF TcpInit, TcpInv, WritersKnow

(* What ending connections at some ends does to every end and its writer.  *)
LEMMA CutStep ==
  ASSUME TcpInv, NEW ends, NEW aborted \in SUBSET ends, Cut(ends, aborted),
         \A e \in ends \cap Ends : conn[e] # "none"
  PROVE  /\ conn' \in [Ends -> {"none", "up", "shut"}]
         /\ heard' \in [Ends -> {"open", "end", "reset", "broken"}]
         /\ unread' \in [Ends -> Nat]
         /\ \A e \in Ends : /\ conn'[e] = "none" <=> conn[e] = "none"
                            /\ WriteError(e) => WriteError(e)'
<1>1. /\ conn \in [Ends -> {"none", "up", "shut"}]
      /\ heard \in [Ends -> {"open", "end", "reset", "broken"}]
      /\ unread \in [Ends -> Nat]
  BY DEF TcpInv, TcpTypes
<1>2. /\ conn' \in [Ends -> {"none", "up", "shut"}]
      /\ \A e \in Ends : conn'[e] = IF e \in ends THEN "shut" ELSE conn[e]
  BY <1>1 DEF Cut
<1>3. /\ heard' \in [Ends -> {"open", "end", "reset", "broken"}]
      /\ \A e \in Ends :
           \/ heard'[e] = heard[e] /\ ~(Peer(e) \in aborted /\ heard[e] # "broken")
           \/ heard'[e] = "reset" /\ heard[e] # "broken"
           \/ heard'[e] = "end" /\ heard[e] = "open" /\ Peer(e) \notin aborted
  <2>1. heard' = [e \in Ends |->
          CASE Peer(e) \in aborted /\ heard[e] # "broken" -> "reset"
            [] Peer(e) \in ends \ aborted /\ heard[e] = "open" -> "end"
            [] OTHER -> heard[e]]
    BY DEF Cut
  <2>2. \A e \in Ends : heard'[e] =
          CASE Peer(e) \in aborted /\ heard[e] # "broken" -> "reset"
            [] Peer(e) \in ends \ aborted /\ heard[e] = "open" -> "end"
            [] OTHER -> heard[e]
    BY <2>1
  <2>3. heard' \in [Ends -> {"open", "end", "reset", "broken"}]
    BY <1>1, <2>1
  <2> QED
    BY <2>2, <2>3
<1>4. /\ unread' \in [Ends -> Nat]
      /\ \A e \in Ends : unread'[e] = IF Peer(e) \in aborted THEN 0 ELSE unread[e]
  BY <1>1 DEF Cut
<1>5. ASSUME NEW e \in Ends
      PROVE  /\ conn'[e] = "none" <=> conn[e] = "none"
             /\ WriteError(e) => WriteError(e)'
  <2>1. conn'[e] = "none" <=> conn[e] = "none"
    BY <1>2
  <2>2. WriteError(e) => WriteError(e)'
    BY <1>2, <1>3 DEF WriteError
  <2> QED
    BY <2>1, <2>2
<1> QED
  BY <1>2, <1>3, <1>4, <1>5

(* The invariant survives every step that leaves readers and writers where *)
(* they are and opens no connection.                                       *)
LEMMA QuietStep ==
  ASSUME TcpInv, UNCHANGED <<reader, wrote>>, TcpTypes',
         \A e \in Ends : /\ conn'[e] = "none" <=> conn[e] = "none"
                         /\ WriteError(e) => WriteError(e)',
         \A i \in 1..Len(backlog') : \E j \in 1..Len(backlog) : backlog'[i] = backlog[j]
  PROVE  TcpInv'
<1>1. \A i \in 1..Len(backlog) : Server(backlog[i]) \in Ends
  BY ClientEnds, ElementOfSeq DEF TcpInv, TcpTypes
<1>2. BothEnds'
  BY <1>1, Peers DEF TcpInv, BothEnds
<1>3. WritersKnow'
  BY DEF TcpInv, WritersKnow
<1> QED
  BY <1>2, <1>3 DEF TcpInv

-----------------------------------------------------------------------------
(* The listening socket. *)

(* The listener's steps that concern no connection. *)
LEMMA ListenerStep ==
  ASSUME TcpInv, Bind \/ Listen \/ AcceptBegins \/ AcceptFails
  PROVE  TcpInv'
BY DEF Bind, Listen, AcceptBegins, AcceptFails, lineVars, TcpInv, TcpTypes, BothEnds,
       WritersKnow, WriteError

(* accept takes a connection out of the backlog. *)
LEMMA AcceptStep ==
  ASSUME TcpInv, Accept
  PROVE  TcpInv'
<1>1. backlog \in Seq(Clients) /\ backlog # <<>> /\ backlog' = Tail(backlog)
  BY DEF Accept, TcpInv, TcpTypes
<1>2. /\ backlog' \in Seq(Clients) /\ Len(backlog') = Len(backlog) - 1 /\ Len(backlog) \in Nat
      /\ \A i \in 1..Len(backlog') : backlog'[i] = backlog[i + 1]
  BY <1>1, HeadTailProperties, LenProperties
<1>3. UNCHANGED <<conn, heard, unread, blocking, reader, wrote>>
  BY DEF Accept, lineVars
<1>4. TcpTypes'
  BY <1>2, <1>3 DEF Accept, TcpInv, TcpTypes
<1>5. \A i \in 1..Len(backlog') : i + 1 \in 1..Len(backlog) /\ backlog'[i] = backlog[i + 1]
  BY <1>2
<1> QED
  BY <1>3, <1>4, <1>5, QuietStep DEF WriteError

(* Shutting down or closing the listener aborts what nobody has accepted.  *)
LEMMA DropBacklogStep ==
  ASSUME TcpInv, ShutdownListener \/ DestroyListener
  PROVE  TcpInv'
<1> DEFINE waiting == {Server(c) : c \in ToSet(backlog)}
<1>1. /\ backlog' = <<>> /\ Cut(waiting, waiting) /\ UNCHANGED <<life, blocking, reader, wrote>>
  BY DEF ShutdownListener, DestroyListener, DropBacklog
<1>2. \A e \in waiting \cap Ends : conn[e] # "none"
  <2>1. \A c \in ToSet(backlog) : \E i \in 1..Len(backlog) : c = backlog[i]
    BY LenProperties DEF ToSet, TcpInv, TcpTypes
  <2> QED
    BY <2>1 DEF TcpInv, BothEnds
<1>3. /\ conn' \in [Ends -> {"none", "up", "shut"}]
      /\ heard' \in [Ends -> {"open", "end", "reset", "broken"}]
      /\ unread' \in [Ends -> Nat]
      /\ \A e \in Ends : /\ conn'[e] = "none" <=> conn[e] = "none"
                         /\ WriteError(e) => WriteError(e)'
  BY <1>1, <1>2, CutStep
<1>4. TcpTypes' /\ Len(backlog') = 0
  BY <1>1, <1>3, EmptySeq DEF TcpInv, TcpTypes
<1> QED
  BY <1>1, <1>3, <1>4, QuietStep

(* A new connection: neither end is in the hands of a reader or a writer.  *)
LEMMA ConnectStep ==
  ASSUME TcpInv, NEW c \in Clients, Connect(c)
  PROVE  TcpInv'
<1>1. /\ conn \in [Ends -> {"none", "up", "shut"}] /\ backlog \in Seq(Clients)
      /\ conn[Client(c)] = "none" /\ conn[Server(c)] = "none"
      /\ conn' = [conn EXCEPT ![Client(c)] = "up", ![Server(c)] = "up"]
      /\ backlog' = Append(backlog, c)
      /\ UNCHANGED <<life, heard, unread, blocking, reader, wrote>>
  BY ClientEnds DEF Connect, TcpInv, TcpTypes, BothEnds
<1>2. /\ backlog' \in Seq(Clients) /\ Len(backlog') = Len(backlog) + 1 /\ Len(backlog) \in Nat
      /\ \A i \in 1..Len(backlog) : backlog'[i] = backlog[i]
      /\ backlog'[Len(backlog) + 1] = c
  BY <1>1, AppendProperties, LenProperties
<1>3. /\ conn' \in [Ends -> {"none", "up", "shut"}]
      /\ conn'[Client(c)] = "up" /\ conn'[Server(c)] = "up"
      /\ \A e \in Ends \ {Client(c), Server(c)} : conn'[e] = conn[e]
  BY <1>1, ClientEnds
<1>4. TcpTypes'
  BY <1>1, <1>2, <1>3 DEF TcpInv, TcpTypes
<1>5. BothEnds'
  <2>1. ASSUME NEW e \in Ends PROVE conn'[e] = "none" <=> conn'[Peer(e)] = "none"
    <3>1. CASE e \in {Client(c), Server(c)}
      BY <3>1, <1>3, ClientEnds
    <3>2. CASE e \notin {Client(c), Server(c)}
      <4>1. Peer(e) \in Ends \ {Client(c), Server(c)}
        BY <3>2, Peers, ClientEnds
      <4> QED
        BY <4>1, <3>2, <1>3 DEF TcpInv, BothEnds
    <3> QED
      BY <3>1, <3>2
  <2>2. ASSUME NEW i \in 1..Len(backlog') PROVE conn'[Server(backlog'[i])] # "none"
    <3>1. CASE i \in 1..Len(backlog)
      <4>1. Server(backlog[i]) \in Ends /\ conn[Server(backlog[i])] # "none"
        BY <3>1, <1>1, ClientEnds, ElementOfSeq DEF TcpInv, BothEnds
      <4> QED
        BY <4>1, <3>1, <1>1, <1>2, <1>3
    <3>2. CASE i = Len(backlog) + 1
      BY <3>2, <1>2, <1>3
    <3>3. i \in 1..Len(backlog) \/ i = Len(backlog) + 1
      BY <1>2
    <3> QED
      BY <3>1, <3>2, <3>3
  <2> QED
    BY <2>1, <2>2 DEF BothEnds
<1>6. WritersKnow'
  BY <1>1, <1>3 DEF TcpInv, WritersKnow, WriteError
<1> QED
  BY <1>4, <1>5, <1>6 DEF TcpInv

-----------------------------------------------------------------------------
(* The ends of a connection. *)

(* A read takes bytes away from its own end only, whose reader is done.    *)
LEMMA ReadStep ==
  ASSUME TcpInv, NEW e \in Ends, NEW n, Read(e, n)
  PROVE  TcpInv'
<1>1. /\ unread \in [Ends -> Nat] /\ unread[e] \in Nat
      /\ (unread[e] > 0 /\ n \in 1..unread[e]) \/ (unread[e] = 0 /\ n = 0)
      /\ unread' = [unread EXCEPT ![e] = unread[e] - n]
  BY DEF Read, TcpInv, TcpTypes
<1>2. /\ heard' = [heard EXCEPT ![e] = IF heard[e] = "reset" THEN "broken" ELSE heard[e]]
      /\ reader' = [reader EXCEPT ![e] = "idle"]
      /\ UNCHANGED <<backlog, life, conn, blocking, wrote>>
  BY DEF Read, listenVars
<1>3. unread[e] - n \in Nat
  BY <1>1
<1>4. unread' \in [Ends -> Nat] /\ \A d \in Ends \ {e} : unread'[d] = unread[d]
  BY <1>1, <1>3
<1>5. TcpTypes' /\ BothEnds'
  BY <1>2, <1>4 DEF TcpInv, TcpTypes, BothEnds
<1>6. WritersKnow'
  BY <1>2, <1>4 DEF TcpInv, TcpTypes, WritersKnow, WriteError
<1> QED
  BY <1>5, <1>6 DEF TcpInv

(* A read that finds nothing. *)
LEMMA ReadNothingStep ==
  ASSUME TcpInv, NEW e \in Ends, ReadNothing(e)
  PROVE  TcpInv'
<1>1. \E r \in {"asleep", "idle"} : reader' = [reader EXCEPT ![e] = r]
  BY DEF ReadNothing
<1>2. UNCHANGED <<backlog, life, conn, heard, unread, blocking, wrote>>
  BY DEF ReadNothing, listenVars, lineVars
<1>3. TcpTypes' /\ BothEnds'
  BY <1>1, <1>2 DEF TcpInv, TcpTypes, BothEnds
<1>4. WritersKnow'
  BY <1>1, <1>2 DEF TcpInv, TcpTypes, WritersKnow, WriteError
<1> QED
  BY <1>3, <1>4 DEF TcpInv

(* A write that takes bytes adds them for the peer, or brings a reset upon *)
(* its own end; there was no error there yet.                              *)
LEMMA WriteStep ==
  ASSUME TcpInv, NEW e \in Ends, NEW n, Write(e, n)
  PROVE  TcpInv' /\ wrote[e] # "error" /\ wrote' = [wrote EXCEPT ![e] = "some"]
<1>1. /\ wrote' = [wrote EXCEPT ![e] = "some"] /\ conn[e] = "up" /\ heard[e] \in {"open", "end"}
      /\ UNCHANGED <<backlog, life, conn, blocking, reader>>
  BY DEF Write, listenVars
<1>2. wrote[e] # "error"
  BY <1>1 DEF TcpInv, WritersKnow, WriteError
<1>3. \/ /\ unread' = [unread EXCEPT ![Peer(e)] = unread[Peer(e)] + n] /\ heard' = heard
         /\ n \in 1..Room(e)
      \/ unread' = [unread EXCEPT ![e] = 0] /\ heard' = [heard EXCEPT ![e] = "reset"]
  BY DEF Write
<1>4. CASE /\ unread' = [unread EXCEPT ![Peer(e)] = unread[Peer(e)] + n] /\ heard' = heard
           /\ n \in 1..Room(e)
  <2>1. unread \in [Ends -> Nat] /\ unread[Peer(e)] \in Nat /\ Room(e) \in Int
    BY Peers, TcpAssumption DEF TcpInv, TcpTypes, Room
  <2>2. unread[Peer(e)] + n \in Nat /\ unread[Peer(e)] + n > 0
    BY <1>4, <2>1
  <2>3. /\ unread' \in [Ends -> Nat] /\ unread'[Peer(e)] > 0
        /\ \A d \in Ends \ {Peer(e)} : unread'[d] = unread[d]
    BY <1>4, <2>1, <2>2, Peers
  <2>4. TcpTypes' /\ BothEnds'
    BY <1>1, <1>4, <2>3 DEF TcpInv, TcpTypes, BothEnds
  <2>5. WritersKnow'
    BY <1>1, <1>4, <2>3 DEF TcpInv, TcpTypes, WritersKnow, WriteError
  <2> QED
    BY <1>1, <1>2, <2>4, <2>5 DEF TcpInv
<1>5. CASE unread' = [unread EXCEPT ![e] = 0] /\ heard' = [heard EXCEPT ![e] = "reset"]
  <2>1. TcpTypes' /\ BothEnds'
    BY <1>1, <1>5 DEF TcpInv, TcpTypes, BothEnds
  <2>2. WritersKnow'
    BY <1>1, <1>5 DEF TcpInv, TcpTypes, WritersKnow, WriteError
  <2> QED
    BY <1>1, <1>2, <2>1, <2>2 DEF TcpInv
<1> QED
  BY <1>3, <1>4, <1>5

(* Neither does a write that finds no room follow one that failed. *)
LEMMA WriteWouldBlockStep ==
  ASSUME TcpInv, NEW e \in Ends, WriteWouldBlock(e)
  PROVE  TcpInv' /\ wrote[e] # "error" /\ wrote' = [wrote EXCEPT ![e] = "none"]
<1>1. /\ wrote' = [wrote EXCEPT ![e] = "none"] /\ ~WriteError(e)
      /\ UNCHANGED <<backlog, life, conn, heard, unread, blocking, reader>>
  BY DEF WriteWouldBlock, listenVars, lineVars
<1>2. wrote[e] # "error"
  BY <1>1 DEF TcpInv, WritersKnow
<1>3. TcpTypes' /\ BothEnds'
  BY <1>1 DEF TcpInv, TcpTypes, BothEnds
<1>4. WritersKnow'
  BY <1>1 DEF TcpInv, TcpTypes, WritersKnow, WriteError
<1> QED
  BY <1>1, <1>2, <1>3, <1>4 DEF TcpInv

(* A write that fails. *)
LEMMA WriteFailsStep ==
  ASSUME TcpInv, NEW e \in Ends, WriteFails(e)
  PROVE  TcpInv' /\ wrote' = [wrote EXCEPT ![e] = "error"]
<1>1. /\ wrote' = [wrote EXCEPT ![e] = "error"] /\ WriteError(e)
      /\ heard' = [heard EXCEPT ![e] = IF heard[e] = "reset" THEN "broken" ELSE heard[e]]
      /\ UNCHANGED <<backlog, life, conn, unread, blocking, reader>>
  BY DEF WriteFails, listenVars
<1>2. TcpTypes' /\ BothEnds'
  BY <1>1 DEF TcpInv, TcpTypes, BothEnds
<1>3. WritersKnow'
  BY <1>1 DEF TcpInv, TcpTypes, WritersKnow, WriteError
<1> QED
  BY <1>1, <1>2, <1>3 DEF TcpInv

(* A change of mode. *)
LEMMA SetBlockingStep ==
  ASSUME TcpInv, NEW e \in Ends, NEW block \in BOOLEAN, SetBlocking(e, block)
  PROVE  TcpInv'
BY DEF SetBlocking, listenVars, lineVars, TcpInv, TcpTypes, BothEnds, WritersKnow,
       WriteError

(* The two ways in which an end gives its connection up. *)
LEMMA EndStep ==
  ASSUME TcpInv, NEW e \in Ends, Shutdown(e) \/ Destroy(e)
  PROVE  TcpInv'
<1>1. UNCHANGED <<backlog, blocking, reader, wrote>>
  BY DEF Shutdown, Destroy, listenVars
<1>2. life' \in [Ends -> {"none", "live", "destroyed"}]
  <2>1. life \in [Ends -> {"none", "live", "destroyed"}]
    BY DEF TcpInv, TcpTypes
  <2>2. life' = life \/ life' = [life EXCEPT ![e] = "destroyed"]
    BY DEF Shutdown, Destroy
  <2> QED
    BY <2>1, <2>2
<1>3. \/ UNCHANGED <<conn, heard, unread>>
      \/ conn[e] # "none" /\ \E aborted \in SUBSET {e} : Cut({e}, aborted)
  <2>1. CASE Shutdown(e)
    BY <2>1 DEF Shutdown, BothSides
  <2>2. CASE Destroy(e)
    <3>1. \/ UNCHANGED <<conn, heard, unread>>
          \/ conn[e] # "none" /\ Cut({e}, IF unread[e] > 0 THEN {e} ELSE {})
      BY <2>2 DEF Destroy, lineVars
    <3>2. (IF unread[e] > 0 THEN {e} ELSE {}) \in SUBSET {e}
      OBVIOUS
    <3> QED
      BY <3>1, <3>2
  <2> QED
    BY <2>1, <2>2
<1>4. CASE UNCHANGED <<conn, heard, unread>>
  <2>1. TcpTypes'
    BY <1>1, <1>2, <1>4 DEF TcpInv, TcpTypes
  <2> QED
    BY <1>1, <1>4, <2>1, QuietStep DEF WriteError
<1>5. CASE conn[e] # "none" /\ \E aborted \in SUBSET {e} : Cut({e}, aborted)
  <2>1. /\ conn' \in [Ends -> {"none", "up", "shut"}]
        /\ heard' \in [Ends -> {"open", "end", "reset", "broken"}]
        /\ unread' \in [Ends -> Nat]
        /\ \A d \in Ends : /\ conn'[d] = "none" <=> conn[d] = "none"
                           /\ WriteError(d) => WriteError(d)'
    BY <1>5, CutStep
  <2>2. TcpTypes'
    BY <1>1, <1>2, <2>1 DEF TcpInv, TcpTypes
  <2> QED
    BY <1>1, <2>1, <2>2, QuietStep
<1> QED
  BY <1>3, <1>4, <1>5

-----------------------------------------------------------------------------
(* Every step keeps the invariant and what the writers know. *)
LEMMA TcpStep ==
  ASSUME TcpInv, [TcpNext]_tcpVars
  PROVE  TcpInv' /\ \A d \in Ends : wrote[d] = "error" => wrote'[d] = "error"
<1>1. CASE Bind \/ Listen \/ AcceptBegins \/ AcceptFails
  BY <1>1, ListenerStep DEF Bind, Listen, AcceptBegins, AcceptFails
<1>2. CASE Accept
  BY <1>2, AcceptStep DEF Accept
<1>3. CASE ShutdownListener \/ DestroyListener
  BY <1>3, DropBacklogStep DEF ShutdownListener, DestroyListener
<1>4. CASE \E c \in Clients : Connect(c)
  BY <1>4, ConnectStep DEF Connect
<1>5. CASE \E e \in Ends : ReadNothing(e)
  BY <1>5, ReadNothingStep DEF ReadNothing
<1>6. CASE \E e \in Ends : \E n \in 0..Capacity : Read(e, n)
  BY <1>6, ReadStep DEF Read
<1>7. CASE \E e \in Ends : \E n \in 0..Capacity : Write(e, n)
  BY <1>7, WriteStep DEF TcpInv, TcpTypes
<1>8. CASE \E e \in Ends : WriteWouldBlock(e)
  BY <1>8, WriteWouldBlockStep DEF TcpInv, TcpTypes
<1>9. CASE \E e \in Ends : WriteFails(e)
  BY <1>9, WriteFailsStep DEF TcpInv, TcpTypes
<1>10. CASE \E e \in Ends : \E block \in BOOLEAN : SetBlocking(e, block)
  BY <1>10, SetBlockingStep DEF SetBlocking
<1>11. CASE \E e \in Ends : Shutdown(e) \/ Destroy(e)
  BY <1>11, EndStep DEF Shutdown, Destroy
<1>12. CASE UNCHANGED tcpVars
  BY <1>12 DEF tcpVars, listenVars, lineVars, TcpInv, TcpTypes, BothEnds, WritersKnow, WriteError
<1> QED
  BY <1>1, <1>2, <1>3, <1>4, <1>5, <1>6, <1>7, <1>8, <1>9, <1>10, <1>11, <1>12
  DEF TcpNext, Arrivals

(* The invariant of stream sockets. *)
THEOREM TcpInvariant == TcpSpec => []TcpInv
BY TcpInvInit, TcpStep, PTL DEF TcpSpec

(* No write at an end takes a byte after one that returned -1, which is    *)
(* what the muxer needs (PacketMuxer.cpp:131).                             *)
THEOREM WriteErrorsFinal == TcpSpec => ErrorsAreFinal
<1>1. TcpInv /\ [TcpNext]_tcpVars =>
        [\A e \in Ends : wrote[e] = "error" => wrote'[e] = "error"]_tcpVars
  BY TcpStep
<1> QED
  BY <1>1, TcpInvariant, PTL DEF TcpSpec, ErrorsAreFinal
=============================================================================
